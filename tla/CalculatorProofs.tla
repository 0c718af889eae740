-------------------------- MODULE CalculatorProofs --------------------------
(***************************************************************************)
(* Proofs about Calculators for every number of members, every set of      *)
(* structures, fields and settings, and every choice of the calculators    *)
(* that an application asks.                                               *)
(***************************************************************************)
EXTENDS Calculators, TLAPS

-----------------------------------------------------------------------------
(***************************************************************************)
(* Types                                                                   *)
(***************************************************************************)
LEMMA BlankType ==
  ASSUME NEW S
  PROVE  Blank \in Results(S) /\ \A p \in Properties : Blank[p] = None
BY DEF Blank, Results

\* Reset, and what get_property goes on from, for each kind of record.
LEMMA RefreshedSymmetrix ==
  ASSUME NEW c \in SymmetrixType, NEW changed \in BOOLEAN
  PROVE  /\ Refreshed(c, changed) \in SymmetrixType
         /\ Refreshed(c, changed).override = c.override
         /\ Refreshed(c, changed).last = c.last
         /\ changed => Refreshed(c, changed).results = Blank
         /\ ~changed => Refreshed(c, changed) = c
<1>1. Blank \in Results(Value)
  BY BlankType
<1>2. None \in Options(Structures)
  BY DEF Options
<1> QED
  BY <1>1, <1>2 DEF Refreshed, Reset, SymmetrixType

LEMMA EvaluationType ==
  ASSUME NEW m \in Members, NEW s \in Structures, NEW f \in Fields
  PROVE  Evaluation(m, s, f) \in Value
BY CalculatorsAssumption DEF Evaluation, Value

LEMMA ResolvedType ==
  ASSUME NEW c \in SymmetrixType, NEW a \in Atoms
  PROVE  Resolved(c, a) \in Fields
BY DEF Resolved, SymmetrixType, Atoms, Options

LEMMA AttachedSymmetrix ==
  ASSUME NEW c \in SymmetrixType, NEW a \in Atoms
  PROVE  /\ Attached(c, a) \in SymmetrixType
         /\ Attached(c, a).atoms = a.structure
         /\ Attached(c, a).override = c.override
         /\ Attached(c, a).last = c.last
         /\ Attached(c, a).results = c.results
<1>1. a.structure \in Options(Structures)
  BY DEF Atoms, Options
<1> QED
  BY <1>1 DEF Attached, SymmetrixType

LEMMA CollectedType ==
  ASSUME NEW m \in Members, NEW c \in SymmetrixType, NEW a \in Atoms, NEW p \in Properties
  PROVE  /\ Collected(m, c, a, p) \in Results(Value)
         /\ \A q \in Properties :
              Collected(m, c, a, p)[q] =
                IF q \in Additive \cup {p}
                THEN Evaluation(m, a.structure, Resolved(c, a)) ELSE None
<1>1. Evaluation(m, a.structure, Resolved(c, a)) \in Value
  BY ResolvedType, EvaluationType DEF Atoms
<1> QED
  BY <1>1 DEF Collected, Results

\* What an evaluation leaves behind before the dispersion is added.
LEMMA EvaluatedIs ==
  ASSUME NEW m \in Members, NEW c \in SymmetrixType, NEW a \in Atoms, NEW p \in Properties
  PROVE  /\ Evaluated(m, c, a, p) \in SymmetrixType
         /\ Evaluated(m, c, a, p).atoms = a.structure
         /\ Evaluated(m, c, a, p).override = c.override
         /\ Evaluated(m, c, a, p).last = IF m \in Coupled THEN Resolved(c, a) ELSE c.last
         /\ Evaluated(m, c, a, p).results = Collected(m, c, a, p)
<1>1. Collected(m, c, a, p) \in Results(Value)
  BY CollectedType
<1>2. Resolved(c, a) \in Options(Fields)
  BY ResolvedType DEF Options
<1>3. a.structure \in Options(Structures)
  BY DEF Atoms, Options
<1> DEFINE last == IF m \in Coupled THEN Resolved(c, a) ELSE c.last
<1>4. last \in Options(Fields)
  BY <1>2 DEF SymmetrixType
<1>5. Evaluated(m, c, a, p) =
        [c EXCEPT !.atoms = a.structure, !.results = Collected(m, c, a, p), !.last = last]
  BY DEF Evaluated, Attached, SymmetrixType
<1> HIDE DEF last
<1>6. /\ Evaluated(m, c, a, p) \in SymmetrixType
      /\ Evaluated(m, c, a, p).atoms = a.structure
      /\ Evaluated(m, c, a, p).override = c.override
      /\ Evaluated(m, c, a, p).last = last
      /\ Evaluated(m, c, a, p).results = Collected(m, c, a, p)
  BY <1>1, <1>3, <1>4, <1>5 DEF SymmetrixType
<1> QED
  BY <1>6 DEF last

\* Adding D3 terms changes nothing but the d3 of values.
LEMMA AddDispersionIs ==
  ASSUME NEW rs \in Results(Value), NEW p \in Properties, \A q \in Additive : rs[q] \in Value
  PROVE  /\ AddDispersion(rs, p) \in Results(Value)
         /\ AddDispersion(rs, p)[p] =
              IF p \in DispersionProperties THEN [rs[p] EXCEPT !.d3 = TRUE] ELSE rs[p]
         /\ \A q \in Properties :
              \/ AddDispersion(rs, p)[q] = rs[q]
              \/ rs[q] \in Value /\ AddDispersion(rs, p)[q] = [rs[q] EXCEPT !.d3 = TRUE]
<1> DEFINE corrected(q) ==
             p \in DispersionProperties /\ (q = p \/ (p = "energy" /\ q = "free_energy"))
<1>1. \A q \in Properties :
        AddDispersion(rs, p)[q] = IF corrected(q) THEN [rs[q] EXCEPT !.d3 = TRUE] ELSE rs[q]
  BY DEF AddDispersion
<1>2. \A q : corrected(q) => q \in Additive
  BY DEF DispersionProperties, Additive
<1>3. \A v \in Value : [v EXCEPT !.d3 = TRUE] \in Value
  BY DEF Value
<1>4. corrected(p) <=> p \in DispersionProperties
  OBVIOUS
<1>5. DOMAIN AddDispersion(rs, p) = Properties
      /\ AddDispersion(rs, p) = [q \in Properties |-> AddDispersion(rs, p)[q]]
  BY DEF AddDispersion
<1> HIDE DEF corrected
<1>6. \A q \in Properties : AddDispersion(rs, p)[q] \in Value \cup {None}
  BY <1>1, <1>2, <1>3 DEF Results
<1>7. AddDispersion(rs, p) \in Results(Value)
  BY <1>5, <1>6 DEF Results
<1> QED
  BY <1>1, <1>2, <1>4, <1>7

\* What a calculation ends with.
LEMMA CalculatedIs ==
  ASSUME NEW m \in Members, NEW c \in SymmetrixType, NEW a \in Atoms, NEW p \in Properties
  PROVE  /\ Calculated(m, c, a, p) \in SymmetrixType
         /\ Calculated(m, c, a, p).atoms = a.structure
         /\ Calculated(m, c, a, p).override = c.override
         /\ Calculated(m, c, a, p).last = IF m \in Coupled THEN Resolved(c, a) ELSE c.last
         /\ m \notin Dispersed => Calculated(m, c, a, p).results = Collected(m, c, a, p)
         /\ Calculated(m, c, a, p).results[p] =
              [Evaluation(m, a.structure, Resolved(c, a))
                 EXCEPT !.d3 = m \in Dispersed /\ p \in DispersionProperties]
<1> DEFINE done == Evaluated(m, c, a, p)
           value == Evaluation(m, a.structure, Resolved(c, a))
<1>1. /\ done \in SymmetrixType /\ done.atoms = a.structure /\ done.override = c.override
      /\ done.last = IF m \in Coupled THEN Resolved(c, a) ELSE c.last
      /\ done.results = Collected(m, c, a, p)
  BY EvaluatedIs
<1>2. /\ done.results \in Results(Value) /\ done.results[p] = value
      /\ \A q \in Additive : done.results[q] \in Value
  <2>1. value \in Value
    BY ResolvedType, EvaluationType DEF Atoms
  <2> QED
    BY <1>1, <2>1, CollectedType DEF Properties
<1>3. value \in Value /\ value.d3 = FALSE
  BY ResolvedType, EvaluationType DEF Atoms, Evaluation
<1>4. [value EXCEPT !.d3 = TRUE] \in Value /\ [value EXCEPT !.d3 = FALSE] = value
  BY <1>3 DEF Value
<1> HIDE DEF done, value
<1>5. CASE m \in Dispersed
  <2>1. PICK rs : rs = AddDispersion(done.results, p)
    OBVIOUS
  <2>2. /\ rs \in Results(Value)
        /\ rs[p] = IF p \in DispersionProperties THEN [value EXCEPT !.d3 = TRUE] ELSE value
    BY <1>2, <2>1, AddDispersionIs
  <2>3. Calculated(m, c, a, p) = [done EXCEPT !.results = rs]
    BY <1>5, <2>1 DEF Calculated, done
  <2>4. /\ Calculated(m, c, a, p) \in SymmetrixType
        /\ Calculated(m, c, a, p).atoms = done.atoms
        /\ Calculated(m, c, a, p).override = done.override
        /\ Calculated(m, c, a, p).last = done.last
        /\ Calculated(m, c, a, p).results = rs
    BY <1>1, <2>2, <2>3 DEF SymmetrixType
  <2>5. rs[p] = [value EXCEPT !.d3 = m \in Dispersed /\ p \in DispersionProperties]
    BY <1>3, <1>4, <1>5, <2>2 DEF Value
  <2> QED
    BY <1>1, <1>5, <2>4, <2>5 DEF value
<1>6. CASE m \notin Dispersed
  <2>1. Calculated(m, c, a, p) = done
    BY <1>6 DEF Calculated, done
  <2> QED
    BY <1>1, <1>2, <1>4, <1>6, <2>1 DEF value
<1> QED
  BY <1>5, <1>6

\* What a calculation that throws leaves behind: the new atoms with the old
\* results, or, when the D3 calculator throws, results without its terms.
LEMMA FailuresAre ==
  ASSUME NEW m \in Members, NEW c \in SymmetrixType, NEW a \in Atoms, NEW p \in Properties,
         NEW d \in Failures(m, c, a, p)
  PROVE  /\ d \in SymmetrixType
         /\ d.atoms = a.structure
         /\ d.override = c.override
         /\ \/ d = Attached(c, a) /\ d.last = c.last /\ d.results = c.results
            \/ /\ m \in Dispersed
               /\ d.last = IF m \in Coupled THEN Resolved(c, a) ELSE c.last
<1>1. d = Attached(c, a) \/ (m \in Dispersed /\ d = Evaluated(m, c, a, p))
  BY DEF Failures
<1> QED
  BY <1>1, AttachedSymmetrix, EvaluatedIs

LEMMA OverriddenIs ==
  ASSUME NEW c \in SymmetrixType, NEW f \in Options(Fields)
  PROVE  /\ Overridden(c, f) \in SymmetrixType
         /\ Overridden(c, f).atoms = c.atoms
         /\ Overridden(c, f).last = c.last
         /\ Overridden(c, f).results = Blank
         /\ Overridden(c, f).override = f
<1>1. Blank \in Results(Value)
  BY BlankType
<1> QED
  BY <1>1 DEF Overridden, SymmetrixType

-----------------------------------------------------------------------------
(***************************************************************************)
(* The contribution                                                        *)
(***************************************************************************)
\* What a contribution is for a structure, a field and a property.
PartOf(s, f, p) ==
  IF p \notin Additive THEN Part(Evaluation(FieldCalc, s, f), None)
  ELSE IF f = Zero THEN NoPart
  ELSE Part(Evaluation(FieldCalc, s, f), Evaluation(FieldCalc, s, Zero))

\* The reference is that of the atoms remembered with it, and the results are
\* those of the remembered structure and field.
ReferenceRight(c) ==
  c.zero # None => /\ c.zeroAtoms \in Structures
                   /\ c.zero = Evaluation(FieldCalc, c.zeroAtoms, Zero)

ResultsRight(c) ==
  \A p \in Properties : c.results[p] # None => c.results[p] = PartOf(c.atoms, c.last, p)

ContributionRight(c) == ReferenceRight(c) /\ ResultsRight(c)

LEMMA PartTypes ==
  ASSUME NEW v \in Options(Value), NEW r \in Options(Value)
  PROVE  Part(v, r) \in PartType /\ Part(v, r) # None /\ NoPart \in PartType /\ NoPart # None
<1>1. None \in Options(Value)
  BY DEF Options
<1>2. Part(v, r) \in PartType /\ NoPart \in PartType
  BY <1>1 DEF Part, NoPart, PartType
<1> QED
  BY <1>2, NoneAssumption

LEMMA AttachedContribution ==
  ASSUME NEW c \in ContributionType, NEW a \in Atoms
  PROVE  /\ Attached(c, a) \in ContributionType
         /\ Attached(c, a).atoms = a.structure
         /\ Attached(c, a).last = c.last
         /\ Attached(c, a).results = c.results
         /\ Attached(c, a).zeroAtoms = c.zeroAtoms
         /\ Attached(c, a).zero = c.zero
<1>1. a.structure \in Options(Structures)
  BY DEF Atoms, Options
<1> QED
  BY <1>1 DEF Attached, ContributionType

LEMMA ReferencedIs ==
  ASSUME NEW c \in ContributionType, NEW a \in Atoms, ReferenceRight(c)
  PROVE  /\ Referenced(c, a) \in ContributionType
         /\ Referenced(c, a).atoms = c.atoms
         /\ Referenced(c, a).last = c.last
         /\ Referenced(c, a).results = c.results
         /\ Referenced(c, a).zero = Evaluation(FieldCalc, a.structure, Zero)
         /\ ReferenceRight(Referenced(c, a))
<1>1. a.structure \in Structures /\ a.structure \in Options(Structures)
  BY DEF Atoms, Options
<1> DEFINE e == Evaluation(FieldCalc, a.structure, Zero)
<1>2. e \in Value /\ e \in Options(Value)
  BY <1>1, EvaluationType, CalculatorsAssumption DEF Options
<1>3. CASE ReferenceCurrent(c, a)
  BY <1>3 DEF Referenced, ReferenceCurrent, ReferenceRight
<1>4. CASE ~ReferenceCurrent(c, a)
  <2>1. Referenced(c, a) = [c EXCEPT !.zero = e, !.zeroAtoms = a.structure]
    BY <1>4 DEF Referenced
  <2> HIDE DEF e
  <2>2. /\ Referenced(c, a) \in ContributionType
        /\ Referenced(c, a).atoms = c.atoms
        /\ Referenced(c, a).last = c.last
        /\ Referenced(c, a).results = c.results
        /\ Referenced(c, a).zero = e
        /\ Referenced(c, a).zeroAtoms = a.structure
    BY <1>1, <1>2, <2>1 DEF ContributionType
  <2> QED
    BY <1>1, <2>2 DEF ReferenceRight, e
<1> QED
  BY <1>3, <1>4

LEMMA RefreshedContribution ==
  ASSUME NEW c \in ContributionType, NEW changed \in BOOLEAN, ContributionRight(c)
  PROVE  /\ Refreshed(c, changed) \in ContributionType
         /\ ContributionRight(Refreshed(c, changed))
         /\ changed => Refreshed(c, changed).results = Blank
         /\ ~changed => Refreshed(c, changed) = c
<1>1. CASE ~changed
  BY <1>1 DEF Refreshed
<1>2. CASE changed
  <2>1. Blank \in Results(PartType) /\ \A p \in Properties : Blank[p] = None
    BY BlankType
  <2>2. None \in Options(Structures)
    BY DEF Options
  <2>3. Refreshed(c, changed) = [c EXCEPT !.atoms = None, !.results = Blank]
    BY <1>2 DEF Refreshed, Reset
  <2>4. /\ Refreshed(c, changed) \in ContributionType
        /\ Refreshed(c, changed).results = Blank
        /\ Refreshed(c, changed).zero = c.zero
        /\ Refreshed(c, changed).zeroAtoms = c.zeroAtoms
    BY <2>1, <2>2, <2>3 DEF ContributionType
  <2> QED
    BY <1>2, <2>1, <2>4 DEF ContributionRight, ReferenceRight, ResultsRight
<1> QED
  BY <1>1, <1>2

\* What Parts computes is the contribution of each property it has.
LEMMA PartsAre ==
  ASSUME NEW x \in ContributionType, NEW f \in SymmetrixType, NEW a \in Atoms,
         NEW p \in Properties,
         NeedsReference(f, a, p) => x.zero = Evaluation(FieldCalc, a.structure, Zero)
  PROVE  /\ Parts(x, f, a, p) \in Results(PartType)
         /\ Parts(x, f, a, p)[p] # None
         /\ \A q \in Properties :
              Parts(x, f, a, p)[q] # None =>
                Parts(x, f, a, p)[q] = PartOf(a.structure, Resolved(f, a), q)
<1> DEFINE v == Evaluation(FieldCalc, a.structure, Resolved(f, a))
           z == Evaluation(FieldCalc, a.structure, Zero)
           zero == Resolved(f, a) = Zero
           entry(q) == IF q \in Additive
                       THEN IF zero THEN NoPart ELSE IF p \in Additive THEN Part(v, x.zero) ELSE None
                       ELSE IF q = p THEN Part(v, None) ELSE None
           of(q) == IF q \notin Additive THEN Part(v, None) ELSE IF zero THEN NoPart ELSE Part(v, z)
<1>1. v \in Value /\ z \in Value
  BY ResolvedType, EvaluationType, CalculatorsAssumption DEF Atoms
<1>2. None \in Options(Value) /\ v \in Options(Value) /\ z \in Options(Value)
  BY <1>1 DEF Options
<1>3. /\ NoPart \in PartType /\ NoPart # None
      /\ Part(v, None) \in PartType /\ Part(v, None) # None
      /\ Part(v, z) \in PartType /\ Part(v, z) # None
  BY <1>2, PartTypes
<1>4. ~zero /\ p \in Additive => x.zero = z
  BY DEF NeedsReference
<1>5. /\ Parts(x, f, a, p) = [q \in Properties |-> entry(q)]
      /\ \A q \in Properties : PartOf(a.structure, Resolved(f, a), q) = of(q)
  BY DEF Parts, PartOf
<1> HIDE DEF v, z, zero
<1>6. \A q \in Properties : entry(q) \in Options(PartType) /\ (entry(q) # None => entry(q) = of(q))
  BY <1>3, <1>4 DEF Options
<1>7. entry(p) # None
  BY <1>3, <1>4
<1> HIDE DEF entry, of
<1>8. Parts(x, f, a, p) \in Results(PartType)
  BY <1>5, <1>6 DEF Results, Options
<1> QED
  BY <1>5, <1>6, <1>7, <1>8

LEMMA ContributionCalculatedIs ==
  ASSUME NEW c \in ContributionType, NEW f \in SymmetrixType, NEW a \in Atoms,
         NEW p \in Properties, ReferenceRight(c)
  PROVE  /\ ContributionCalculated(c, f, a, p) \in ContributionType
         /\ ContributionRight(ContributionCalculated(c, f, a, p))
         /\ ContributionCalculated(c, f, a, p).atoms = a.structure
         /\ ContributionCalculated(c, f, a, p).last = Resolved(f, a)
         /\ ContributionCalculated(c, f, a, p).results[p] # None
<1>1. PICK x : x = IF NeedsReference(f, a, p) THEN Referenced(Attached(c, a), a) ELSE Attached(c, a)
  OBVIOUS
<1>2. /\ Attached(c, a) \in ContributionType /\ ReferenceRight(Attached(c, a))
      /\ Attached(c, a).atoms = a.structure
  BY AttachedContribution DEF ReferenceRight
<1>3. /\ x \in ContributionType /\ ReferenceRight(x) /\ x.atoms = a.structure
      /\ NeedsReference(f, a, p) => x.zero = Evaluation(FieldCalc, a.structure, Zero)
  BY <1>1, <1>2, ReferencedIs
<1> DEFINE y == ContributionCalculated(c, f, a, p)
<1>4. y = [x EXCEPT !.results = Parts(x, f, a, p), !.last = Resolved(f, a)]
  BY <1>1 DEF ContributionCalculated
<1>5. /\ Parts(x, f, a, p) \in Results(PartType)
      /\ Parts(x, f, a, p)[p] # None
      /\ \A q \in Properties : Parts(x, f, a, p)[q] # None =>
           Parts(x, f, a, p)[q] = PartOf(a.structure, Resolved(f, a), q)
  BY <1>3, PartsAre
<1>6. Resolved(f, a) \in Options(Fields)
  BY ResolvedType DEF Options
<1> HIDE DEF y
<1>7. /\ y \in ContributionType /\ y.atoms = x.atoms /\ y.last = Resolved(f, a)
      /\ y.results = Parts(x, f, a, p) /\ y.zero = x.zero /\ y.zeroAtoms = x.zeroAtoms
  BY <1>3, <1>4, <1>5, <1>6 DEF ContributionType
<1>8. ContributionRight(y)
  BY <1>3, <1>5, <1>7 DEF ContributionRight, ReferenceRight, ResultsRight
<1> QED
  BY <1>3, <1>5, <1>7, <1>8 DEF y

\* What a request to a contribution leaves behind, answered or not.
LEMMA ContributionOutcome ==
  ASSUME NEW c \in ContributionType, NEW f \in SymmetrixType, NEW a \in Atoms,
         NEW p \in Properties, ContributionRight(c), NEW o \in ContributionOutcomes(c, f, a, p)
  PROVE  /\ o.contribution \in ContributionType
         /\ ContributionRight(o.contribution)
         /\ o.field \in SymmetrixType
         /\ o.field.override = f.override /\ o.field.atoms = f.atoms /\ o.field.last = f.last
         /\ o.field.results = f.results \/ o.field.results = Blank
         /\ o.ok \in BOOLEAN
         /\ o.ok => /\ ~ContributionChanged(o.contribution, o.field, a)
                    /\ o.contribution.results[p] # None
                    /\ o.contribution.results[p] = PartOf(a.structure, Resolved(f, a), p)
<1> DEFINE changed == ContributionChanged(c, f, a)
           x == Refreshed(c, changed)
           bare == [f EXCEPT !.results = Blank]
<1>0. changed \in BOOLEAN
  BY DEF ContributionChanged, Moved
<1>1. /\ x \in ContributionType /\ ContributionRight(x)
      /\ changed => x.results = Blank
      /\ ~changed => x = c
  BY <1>0, RefreshedContribution
<1>2. /\ bare \in SymmetrixType /\ bare.override = f.override /\ bare.atoms = f.atoms
      /\ bare.last = f.last /\ bare.results = Blank
  BY BlankType DEF SymmetrixType
<1>3. CASE x.results[p] # None /\ o = [contribution |-> x, field |-> f, ok |-> TRUE]
  <2>1. ~changed
    BY <1>1, <1>3, BlankType
  <2>2. /\ x.atoms = a.structure /\ x.last = Resolved(f, a)
        /\ ~ContributionChanged(x, f, a)
    BY <1>1, <2>1 DEF ContributionChanged, Moved
  <2>3. x.results[p] = PartOf(a.structure, Resolved(f, a), p)
    BY <1>1, <1>3, <2>2 DEF ContributionRight, ResultsRight
  <2> HIDE DEF x
  <2> QED
    BY <1>1, <1>3, <2>2, <2>3
<1>4. CASE o = [contribution |-> ContributionCalculated(x, f, a, p), field |-> bare, ok |-> TRUE]
  <2> DEFINE y == ContributionCalculated(x, f, a, p)
  <2>1. /\ y \in ContributionType /\ ContributionRight(y) /\ y.atoms = a.structure
        /\ y.last = Resolved(f, a) /\ y.results[p] # None
    BY <1>1, ContributionCalculatedIs DEF ContributionRight
  <2>2. y.results[p] = PartOf(a.structure, Resolved(f, a), p)
    BY <2>1 DEF ContributionRight, ResultsRight
  <2>3. Resolved(bare, a) = Resolved(f, a)
    BY <1>2 DEF Resolved
  <2>4. ~ContributionChanged(y, bare, a)
    BY <2>1, <2>3 DEF ContributionChanged, Moved
  <2>5. o.contribution = y /\ o.field = bare /\ o.ok = TRUE
    BY <1>4
  <2> HIDE DEF y, bare
  <2> QED
    BY <1>2, <2>1, <2>2, <2>4, <2>5
<1>5. ASSUME NEW y \in ContributionFailures(x, f, a, p), x.results[p] = None,
             o = [contribution |-> y, field |-> f, ok |-> FALSE]
      PROVE  /\ o.contribution \in ContributionType /\ ContributionRight(o.contribution)
             /\ o.field = f /\ o.ok = FALSE
  <2>1. y = Attached(x, a) \/ y = Referenced(Attached(x, a), a)
    BY <1>5 DEF ContributionFailures
  <2>2. changed \/ x.atoms = a.structure
    BY <1>1 DEF ContributionChanged, Moved
  <2> HIDE DEF x
  <2>3. /\ Attached(x, a) \in ContributionType /\ ReferenceRight(Attached(x, a))
        /\ Attached(x, a).results = x.results /\ Attached(x, a).last = x.last
        /\ Attached(x, a).atoms = a.structure
    BY <1>1, AttachedContribution DEF ContributionRight, ReferenceRight
  <2>4. /\ y \in ContributionType /\ ReferenceRight(y) /\ y.results = x.results
        /\ y.last = x.last /\ y.atoms = a.structure
    BY <2>1, <2>3, ReferencedIs
  <2>5. ResultsRight(y)
    BY <1>1, <2>2, <2>4, BlankType DEF ContributionRight, ResultsRight
  <2> QED
    BY <1>5, <2>4, <2>5 DEF ContributionRight
<1>6. \/ x.results[p] # None /\ o = [contribution |-> x, field |-> f, ok |-> TRUE]
      \/ o = [contribution |-> ContributionCalculated(x, f, a, p), field |-> bare, ok |-> TRUE]
      \/ /\ x.results[p] = None
         /\ \E y \in ContributionFailures(x, f, a, p) :
              o = [contribution |-> y, field |-> f, ok |-> FALSE]
  BY DEF ContributionOutcomes
<1> QED
  BY <1>3, <1>4, <1>5, <1>6

-----------------------------------------------------------------------------
(***************************************************************************)
(* The inductive invariant                                                 *)
(***************************************************************************)
\* The base calculator has results of its atoms under its settings only.
BaseRight(b) ==
  \A p \in Properties :
    b.results[p] # None => b.results[p] = [structure |-> b.atoms, params |-> b.params]

\* What holds of every use.
Standing == TypeOK /\ ContributionRight(contribution) /\ BaseRight(base)

\* A member's results are those of its atoms in the field of its evaluation, up
\* to the terms of a member with dispersion.
ComputedFrom(v, m, s, f) ==
  /\ v.structure = s /\ v.field = Evaluation(m, s, f).field
  /\ m \notin Dispersed => v.d3 = FALSE

MemberRight(m, c) ==
  \A p \in Properties : c.results[p] # None => ComputedFrom(c.results[p], m, c.atoms, c.last)

MemberInv == \A m \in use.direct : MemberRight(m, members[m])

\* The contribution in a sum is that of the remembered structure and field; the
\* base value is that of the present settings while the base still has what the
\* sum was made of.
AwareRight(w, b) ==
  \A p \in Properties :
    w.results[p] # None =>
      /\ w.results[p].part = PartOf(w.atoms, w.last, p)
      /\ p \notin Additive => w.results[p].base = None
      /\ p \in Additive =>
           /\ p \in w.used
           /\ b.atoms = w.atoms /\ (\A q \in w.used : b.results[q] # None) =>
                w.results[p].base = [structure |-> w.atoms, params |-> b.params]

AwareInv ==
  /\ AwareRight(aware, base)
  /\ "aware" \notin use.asked => aware.results = Blank

\* A member's value in a committee.
MemberValue(m, s, f, p) ==
  [Evaluation(m, s, f) EXCEPT !.d3 = m \in Dispersed /\ p \in DispersionProperties]

\* A committee has the value of each member that still is where the ensemble is.
EnsembleRight(e, ms) ==
  \A p \in Properties, m \in Members :
    e.results[p] # None /\ ms[m].atoms = e.atoms =>
      e.results[p][m] = MemberValue(m, e.atoms, ms[m].last, p)

EnsembleInv ==
  /\ EnsembleRight(ensemble, members)
  /\ "ensemble" \notin use.asked => ensemble.results = Blank

-----------------------------------------------------------------------------
(***************************************************************************)
(* Requests to a Symmetrix calculator, a contribution and a base           *)
(***************************************************************************)
\* An evaluation makes a member right, whether or not the D3 calculator throws.
LEMMA EvaluatedRight ==
  ASSUME NEW m \in Members, NEW c \in SymmetrixType, NEW a \in Atoms, NEW p \in Properties,
         NEW d \in {Evaluated(m, c, a, p), Calculated(m, c, a, p)}
  PROVE  MemberRight(m, d)
<1> DEFINE done == Evaluated(m, c, a, p)
           value == Evaluation(m, a.structure, Resolved(c, a))
<1>1. /\ done \in SymmetrixType /\ done.atoms = a.structure
      /\ done.last = IF m \in Coupled THEN Resolved(c, a) ELSE c.last
      /\ done.results = Collected(m, c, a, p)
  BY EvaluatedIs
<1>2. \A q \in Properties : done.results[q] # None => done.results[q] = value
  BY <1>1, CollectedType
<1>3. value \in Value /\ ComputedFrom(value, m, a.structure, done.last)
  BY <1>1, ResolvedType, EvaluationType DEF Atoms, Evaluation, ComputedFrom
<1>4. done.results \in Results(Value) /\ \A q \in Additive : done.results[q] \in Value
  BY <1>1, <1>3, CollectedType DEF Properties
<1> HIDE DEF done, value
<1>5. MemberRight(m, done)
  BY <1>1, <1>2, <1>3 DEF MemberRight
<1>6. CASE m \in Dispersed /\ d = Calculated(m, c, a, p)
  <2>1. PICK rs : rs = AddDispersion(done.results, p)
    OBVIOUS
  <2>2. \A q \in Properties :
          \/ rs[q] = done.results[q]
          \/ done.results[q] \in Value /\ rs[q] = [done.results[q] EXCEPT !.d3 = TRUE]
    <3>1. PICK bare : bare = done.results
      OBVIOUS
    <3>2. bare \in Results(Value) /\ \A q \in Additive : bare[q] \in Value
      BY <1>4, <3>1
    <3>3. \A q \in Properties :
            \/ AddDispersion(bare, p)[q] = bare[q]
            \/ bare[q] \in Value /\ AddDispersion(bare, p)[q] = [bare[q] EXCEPT !.d3 = TRUE]
      BY <3>2, AddDispersionIs
    <3> QED
      BY <2>1, <3>1, <3>3
  <2>3. d = [done EXCEPT !.results = rs]
    BY <1>6, <2>1 DEF Calculated, done
  <2>4. d.atoms = done.atoms /\ d.last = done.last /\ d.results = rs
    BY <1>1, <2>3 DEF SymmetrixType
  <2>5. PICK with : with = [value EXCEPT !.d3 = TRUE]
    OBVIOUS
  <2>6. ComputedFrom(with, m, a.structure, done.last)
    BY <1>3, <1>6, <2>5 DEF ComputedFrom, Value
  <2> SUFFICES ASSUME NEW q \in Properties, rs[q] # None
               PROVE  ComputedFrom(rs[q], m, a.structure, done.last)
    BY <1>1, <2>4 DEF MemberRight
  <2>7. CASE rs[q] = done.results[q]
    BY <1>2, <1>3, <2>7
  <2>8. CASE done.results[q] \in Value /\ rs[q] = [done.results[q] EXCEPT !.d3 = TRUE]
    <3>1. done.results[q] = value
      BY <1>2, <2>8, NoneAssumption
    <3> QED
      BY <2>5, <2>6, <2>8, <3>1
  <2> QED
    BY <2>2, <2>7, <2>8
<1>7. CASE m \notin Dispersed \/ d = done
  <2>1. d = done
    BY <1>7 DEF Calculated, done
  <2> QED
    BY <1>5, <2>1
<1> QED
  BY <1>6, <1>7 DEF done

\* A request to a member leaves it right, and an answered one is served from the
\* cache the next time.
LEMMA SymmetrixStep ==
  ASSUME Standing, NEW m \in Members, NEW a \in Atoms, NEW p \in Properties,
         AskSymmetrix(m, a, p)
  PROVE  /\ m \in use.direct
         /\ answered' \in BOOLEAN
         /\ \E d \in SymmetrixType :
              /\ members' = [members EXCEPT ![m] = d]
              /\ MemberRight(m, members[m]) => MemberRight(m, d)
              /\ answered' => ~Changed(m, d, a) /\ d.results[p] # None
<1> DEFINE changed == Changed(m, members[m], a)
           c == Refreshed(members[m], changed)
<1>1. members[m] \in SymmetrixType /\ members \in [Members -> SymmetrixType]
  BY DEF Standing, TypeOK
<1>2. changed \in BOOLEAN
  BY DEF Changed, Moved
<1>3. /\ c \in SymmetrixType /\ c.override = members[m].override
      /\ changed => c.results = Blank
      /\ ~changed => c = members[m] /\ c.atoms = a.structure
      /\ ~changed /\ m \in Coupled => c.last = Resolved(c, a)
  BY <1>1, <1>2, RefreshedSymmetrix DEF Changed, Moved
<1>4. /\ m \in use.direct
      /\ \/ c.results[p] # None /\ answered' = TRUE /\ members' = members
         \/ members' = [members EXCEPT ![m] = Calculated(m, c, a, p)] /\ answered' = TRUE
         \/ /\ \E d \in Failures(m, c, a, p) : members' = [members EXCEPT ![m] = d]
            /\ answered' = FALSE
  BY DEF AskSymmetrix
<1> HIDE DEF c
<1>5. CASE c.results[p] # None /\ answered' = TRUE /\ members' = members
  <2>1. ~changed
    BY <1>3, <1>5, BlankType
  <2>2. members' = [members EXCEPT ![m] = members[m]]
    BY <1>1, <1>5
  <2>3. members[m].results[p] # None
    BY <1>3, <1>5, <2>1
  <2> QED
    BY <1>1, <1>4, <1>5, <2>1, <2>2, <2>3
<1>6. CASE members' = [members EXCEPT ![m] = Calculated(m, c, a, p)] /\ answered' = TRUE
  <2>1. PICK d : d = Calculated(m, c, a, p)
    OBVIOUS
  <2>2. /\ d \in SymmetrixType /\ d.atoms = a.structure /\ d.override = c.override
        /\ d.last = IF m \in Coupled THEN Resolved(c, a) ELSE c.last
        /\ m \notin Dispersed => d.results = Collected(m, c, a, p)
        /\ d.results[p] = [Evaluation(m, a.structure, Resolved(c, a))
                             EXCEPT !.d3 = m \in Dispersed /\ p \in DispersionProperties]
    BY <1>3, <2>1, CalculatedIs
  <2>3. Resolved(d, a) = Resolved(c, a)
    BY <2>2 DEF Resolved
  <2>4. ~Changed(m, d, a)
    BY <2>2, <2>3 DEF Changed, Moved
  <2>5. Evaluation(m, a.structure, Resolved(c, a)) \in Value
    BY <1>3, ResolvedType, EvaluationType DEF Atoms
  <2>6. d.results[p] # None
    <3>1. d.results[p] \in Value
      BY <2>2, <2>5 DEF Value
    <3> QED
      BY <3>1, NoneAssumption
  <2>7. MemberRight(m, d)
    BY <1>3, <2>1, EvaluatedRight
  <2> QED
    BY <1>4, <1>6, <2>1, <2>2, <2>4, <2>6, <2>7
<1>7. ASSUME NEW d \in Failures(m, c, a, p), members' = [members EXCEPT ![m] = d],
             answered' = FALSE
      PROVE  /\ d \in SymmetrixType
             /\ MemberRight(m, members[m]) => MemberRight(m, d)
  <2>1. d \in SymmetrixType /\ d.atoms = a.structure
    BY <1>3, <1>7, FailuresAre
  <2>2. CASE d = Attached(c, a)
    <3>1. d.last = c.last /\ d.results = c.results
      BY <1>3, <2>2, AttachedSymmetrix
    <3>2. c.results = Blank \/ (c = members[m] /\ c.atoms = a.structure)
      BY <1>3
    <3> QED
      BY <2>1, <3>1, <3>2, BlankType DEF MemberRight
  <2>3. CASE d = Evaluated(m, c, a, p)
    BY <1>3, <2>1, <2>3, EvaluatedRight
  <2>4. d = Attached(c, a) \/ d = Evaluated(m, c, a, p)
    BY <1>7 DEF Failures
  <2> QED
    BY <2>1, <2>2, <2>3, <2>4
<1> QED
  BY <1>4, <1>5, <1>6, <1>7

LEMMA BaseOutcome ==
  ASSUME NEW b \in BaseType, NEW a \in Atoms, NEW p \in Additive, BaseRight(b),
         NEW o \in BaseOutcomes(b, a, p)
  PROVE  /\ o.base \in BaseType /\ BaseRight(o.base)
         /\ o.base.params = b.params /\ o.base.atoms = a.structure
         /\ o.ok \in BOOLEAN
         /\ o.ok => o.base.results[p] = [structure |-> a.structure, params |-> b.params]
         /\ o.ok => o.base.results[p] # None
         /\ ~o.ok /\ ~Moved(b, a) => o.base.results = b.results
<1> DEFINE moved == Moved(b, a)
           x == Refreshed(b, moved)
           value == [structure |-> a.structure, params |-> b.params]
<1>0. p \in Properties
  BY DEF Properties
<1>1. a.structure \in Structures /\ a.structure \in Options(Structures)
  BY DEF Atoms, Options
<1>2. /\ x \in BaseType /\ BaseRight(x) /\ x.params = b.params
      /\ moved => x.results = Blank
      /\ ~moved => x = b /\ x.atoms = a.structure
  <2>1. CASE ~moved
    BY <2>1 DEF Refreshed, Moved
  <2>2. CASE moved
    <3>1. Blank \in Results(BaseValues) /\ \A q \in Properties : Blank[q] = None
      BY BlankType
    <3>2. None \in Options(Structures)
      BY DEF Options
    <3>3. x = [b EXCEPT !.atoms = None, !.results = Blank]
      BY <2>2 DEF Refreshed, Reset
    <3> HIDE DEF x
    <3>4. x \in BaseType /\ x.results = Blank /\ x.params = b.params
      BY <3>1, <3>2, <3>3 DEF BaseType
    <3> QED
      BY <2>2, <3>1, <3>4 DEF BaseRight
  <2> QED
    BY <2>1, <2>2
<1>3. value \in BaseValues /\ value # None
  <2>1. value \in BaseValues
    BY <1>1 DEF BaseType, BaseValues
  <2> QED
    BY <2>1, NoneAssumption
<1>4. \/ x.results[p] # None /\ o = [base |-> x, ok |-> TRUE]
      \/ \E qs \in {Additive, {p}} :
           x.results[p] = None /\ o = [base |-> BaseCalculated(x, a, qs), ok |-> TRUE]
      \/ o = [base |-> Attached(x, a), ok |-> FALSE]
  BY DEF BaseOutcomes
<1>5. CASE x.results[p] # None /\ o = [base |-> x, ok |-> TRUE]
  <2>1. ~moved
    BY <1>0, <1>2, <1>5, BlankType
  <2>2. x.atoms = a.structure /\ x.results[p] = value
    BY <1>0, <1>2, <1>5, <2>1 DEF BaseRight
  <2> HIDE DEF x
  <2> QED
    BY <1>2, <1>3, <1>5, <2>2
<1>6. ASSUME NEW qs \in {Additive, {p}}, x.results[p] = None,
             o = [base |-> BaseCalculated(x, a, qs), ok |-> TRUE]
      PROVE  /\ o.base \in BaseType /\ BaseRight(o.base)
             /\ o.base.params = b.params /\ o.base.atoms = a.structure
             /\ o.ok = TRUE
             /\ o.base.results[p] = value
  <2> HIDE DEF x
  <2>1. PICK rs : rs = [q \in Properties |-> IF q \in qs THEN value ELSE None]
    OBVIOUS
  <2>2. rs \in Results(BaseValues)
    BY <1>3, <2>1 DEF Results
  <2>3. BaseCalculated(x, a, qs) = [x EXCEPT !.atoms = a.structure, !.results = rs]
    BY <1>2, <2>1 DEF BaseCalculated, Attached, BaseValue, BaseType
  <2>4. /\ o.base \in BaseType /\ o.base.params = x.params /\ o.base.atoms = a.structure
        /\ o.base.results = rs
    BY <1>1, <1>2, <1>6, <2>2, <2>3 DEF BaseType
  <2>5. BaseRight(o.base)
    BY <1>2, <2>1, <2>4 DEF BaseRight
  <2> QED
    BY <1>0, <1>2, <1>6, <2>1, <2>4, <2>5
<1>7. CASE o = [base |-> Attached(x, a), ok |-> FALSE]
  <2> HIDE DEF x
  <2>1. /\ o.base \in BaseType /\ o.base.params = x.params /\ o.base.atoms = a.structure
        /\ o.base.results = x.results
    BY <1>1, <1>2, <1>7 DEF Attached, BaseType
  <2>2. BaseRight(o.base)
    BY <1>2, <2>1, BlankType DEF BaseRight
  <2> QED
    BY <1>2, <1>7, <2>1, <2>2
<1> QED
  BY <1>3, <1>4, <1>5, <1>6, <1>7

-----------------------------------------------------------------------------
(***************************************************************************)
(* Requests to the field-aware calculator                                  *)
(***************************************************************************)
LEMMA AttachedAware ==
  ASSUME NEW w \in AwareType, NEW a \in Atoms
  PROVE  /\ Attached(w, a) \in AwareType
         /\ Attached(w, a).atoms = a.structure
         /\ Attached(w, a).last = w.last
         /\ Attached(w, a).results = w.results
         /\ Attached(w, a).used = w.used
<1>1. a.structure \in Options(Structures)
  BY DEF Atoms, Options
<1> QED
  BY <1>1 DEF Attached, AwareType

LEMMA RefreshedAware ==
  ASSUME NEW w \in AwareType, NEW changed \in BOOLEAN
  PROVE  /\ Refreshed(w, changed) \in AwareType
         /\ changed => Refreshed(w, changed).results = Blank
         /\ ~changed => Refreshed(w, changed) = w
<1>1. Blank \in Results(SumType)
  BY BlankType
<1>2. None \in Options(Structures)
  BY DEF Options
<1> QED
  BY <1>1, <1>2 DEF Refreshed, Reset, AwareType

\* A calculator without results has none that is wrong.
LEMMA BlankAware ==
  ASSUME NEW w, NEW b, w.results = Blank
  PROVE  AwareRight(w, b)
BY BlankType DEF AwareRight

\* A sum of right parts is right.
LEMMA AwareCalculatedIs ==
  ASSUME NEW w \in AwareType, NEW f \in SymmetrixType, NEW a \in Atoms, NEW p \in Properties,
         NEW b \in BaseType, NEW v \in Options(BaseValues), NEW part \in PartType,
         part = PartOf(a.structure, Resolved(f, a), p),
         p \notin Additive => v = None,
         p \in Additive => v = [structure |-> a.structure, params |-> b.params]
  PROVE  /\ AwareCalculated(w, f, a, p, Sum(v, part)) \in AwareType
         /\ AwareRight(AwareCalculated(w, f, a, p, Sum(v, part)), b)
         /\ AwareCalculated(w, f, a, p, Sum(v, part)).results[p] # None
         /\ (p \in Additive => b.atoms = a.structure /\ b.results[p] # None)
            => ~AwareChanged(AwareCalculated(w, f, a, p, Sum(v, part)), b, f, a)
<1> DEFINE total == Sum(v, part)
           y == AwareCalculated(w, f, a, p, total)
           rs == [Blank EXCEPT ![p] = total]
<1>1. total \in SumType /\ total # None /\ total.base = v /\ total.part = part
  <2>1. total \in SumType
    BY DEF Sum, SumType
  <2> QED
    BY <2>1, NoneAssumption DEF Sum
<1> HIDE DEF total
<1>2. /\ rs \in Results(SumType) /\ rs[p] = total
      /\ \A q \in Properties : rs[q] # None => q = p
  BY <1>1, BlankType DEF Results
<1>3. a.structure \in Options(Structures) /\ Resolved(f, a) \in Options(Fields)
  BY ResolvedType DEF Atoms, Options
<1>4. {p} \cap Additive \in SUBSET Additive
  OBVIOUS
<1>5. y = [w EXCEPT !.atoms = a.structure, !.results = rs, !.used = {p} \cap Additive,
                    !.last = Resolved(f, a)]
  BY DEF AwareCalculated, Attached, AwareType
<1> HIDE DEF y, rs
<1>6. /\ y \in AwareType /\ y.atoms = a.structure /\ y.results = rs
      /\ y.used = {p} \cap Additive /\ y.last = Resolved(f, a)
  BY <1>2, <1>3, <1>4, <1>5 DEF AwareType
<1>7. AwareRight(y, b)
  <2> SUFFICES ASSUME NEW q \in Properties, y.results[q] # None
               PROVE  /\ y.results[q].part = PartOf(y.atoms, y.last, q)
                      /\ q \notin Additive => y.results[q].base = None
                      /\ q \in Additive =>
                           /\ q \in y.used
                           /\ y.results[q].base = [structure |-> y.atoms, params |-> b.params]
    BY DEF AwareRight
  <2>1. q = p /\ y.results[q] = total
    BY <1>2, <1>6
  <2> QED
    BY <1>1, <1>6, <2>1
<1>8. (p \in Additive => b.atoms = a.structure /\ b.results[p] # None) => ~AwareChanged(y, b, f, a)
  BY <1>6 DEF AwareChanged, Moved
<1> QED
  BY <1>1, <1>2, <1>6, <1>7, <1>8 DEF y, total

\* A request leaves all it touches right; an answered one is served from the
\* cache the next time.
LEMMA AwareStep ==
  ASSUME Standing, NEW a \in Atoms, NEW p \in Properties, AskAware(a, p)
  PROVE  /\ "aware" \in use.asked
         /\ answered' \in BOOLEAN
         /\ contribution' \in ContributionType /\ ContributionRight(contribution')
         /\ base' \in BaseType /\ BaseRight(base')
         /\ aware' \in AwareType
         /\ AwareRight(aware, base) => AwareRight(aware', base')
         /\ \E g \in SymmetrixType :
              /\ members' = [members EXCEPT ![FieldCalc] = g]
              /\ g.atoms = members[FieldCalc].atoms /\ g.last = members[FieldCalc].last
              /\ g.results = members[FieldCalc].results \/ g.results = Blank
              /\ answered' => ~AwareChanged(aware', base', g, a) /\ aware'.results[p] # None
<1> DEFINE f == members[FieldCalc]
           changed == AwareChanged(aware, base, f, a)
           w == Refreshed(aware, changed)
<1>1. /\ members \in [Members -> SymmetrixType] /\ FieldCalc \in Members /\ f \in SymmetrixType
      /\ contribution \in ContributionType /\ ContributionRight(contribution)
      /\ base \in BaseType /\ BaseRight(base) /\ aware \in AwareType
  BY CalculatorsAssumption DEF Standing, TypeOK
<1>2. changed \in BOOLEAN
  BY DEF AwareChanged, Moved
<1>3. /\ w \in AwareType
      /\ changed => w.results = Blank
      /\ ~changed => w = aware
  BY <1>1, <1>2, RefreshedAware
<1>4. ~changed => /\ w.atoms = a.structure
                  /\ w.used = {} \/ ~Moved(base, a)
  BY <1>3 DEF AwareChanged, Moved
<1>5. /\ "aware" \in use.asked
      /\ \/ /\ w.results[p] # None /\ answered' = TRUE
            /\ UNCHANGED <<members, contribution, base, aware>>
         \/ w.results[p] = None /\ AwareAnswers(w, a, p)
  BY DEF AskAware
\* The calculator notes the atoms and a part fails.
<1>6. ASSUME NEW b \in BaseType, b = base \/ ~Moved(base, a) => b.results = base.results,
             b.params = base.params, b.atoms = base.atoms \/ b.atoms = a.structure
      PROVE  /\ Attached(w, a) \in AwareType
             /\ AwareRight(aware, base) => AwareRight(Attached(w, a), b)
  <2>1. /\ Attached(w, a) \in AwareType /\ Attached(w, a).results = w.results
        /\ Attached(w, a).last = w.last /\ Attached(w, a).used = w.used
        /\ Attached(w, a).atoms = a.structure
    BY <1>3, AttachedAware
  <2>2. CASE changed
    BY <1>3, <2>1, <2>2, BlankAware
  <2>3. CASE ~changed
    <3> SUFFICES ASSUME AwareRight(aware, base), NEW q \in Properties, w.results[q] # None
                 PROVE  /\ w.results[q].part = PartOf(a.structure, w.last, q)
                        /\ q \notin Additive => w.results[q].base = None
                        /\ q \in Additive =>
                             /\ q \in w.used
                             /\ b.atoms = a.structure /\ (\A r \in w.used : b.results[r] # None) =>
                                  w.results[q].base = [structure |-> a.structure, params |-> b.params]
      BY <2>1 DEF AwareRight
    <3>1. /\ w.results[q].part = PartOf(a.structure, w.last, q)
          /\ q \notin Additive => w.results[q].base = None
          /\ q \in Additive =>
               /\ q \in w.used
               /\ base.atoms = a.structure /\ (\A r \in w.used : base.results[r] # None) =>
                    w.results[q].base = [structure |-> a.structure, params |-> base.params]
      BY <1>3, <1>4, <2>3 DEF AwareRight
    <3>2. q \in Additive => base.atoms = a.structure /\ b.results = base.results
      BY <1>4, <1>6, <2>3, <3>1 DEF Moved
    <3> QED
      BY <1>6, <3>1, <3>2
  <2> QED
    BY <2>2, <2>3
<1> HIDE DEF w
<1>7. CASE w.results[p] # None /\ answered' = TRUE /\ UNCHANGED <<members, contribution, base, aware>>
  <2>1. ~changed
    BY <1>3, <1>7, BlankType
  <2>2. members' = [members EXCEPT ![FieldCalc] = f]
    BY <1>1, <1>7
  <2>3. ~AwareChanged(aware', base', f, a) /\ aware'.results[p] # None
    BY <1>3, <1>7, <2>1
  <2> QED
    BY <1>1, <1>5, <1>7, <2>2, <2>3
<1>8. CASE w.results[p] = None /\ AwareAnswers(w, a, p)
  <2>1. PICK o \in ContributionOutcomes(contribution, f, a, p) :
          /\ contribution' = o.contribution
          /\ members' = [members EXCEPT ![FieldCalc] = o.field]
          /\ \/ ~o.ok /\ aware' = Attached(w, a) /\ base' = base /\ answered' = FALSE
             \/ /\ o.ok /\ p \notin Additive
                /\ aware' = AwareCalculated(w, o.field, a, p, Sum(None, o.contribution.results[p]))
                /\ base' = base /\ answered' = TRUE
             \/ /\ o.ok /\ p \in Additive
                /\ \E n \in BaseOutcomes(base, a, p) :
                     /\ base' = n.base
                     /\ aware' = IF n.ok
                                 THEN AwareCalculated(w, o.field, a, p,
                                        Sum(n.base.results[p], o.contribution.results[p]))
                                 ELSE Attached(w, a)
                     /\ answered' = n.ok
    BY <1>8 DEF AwareAnswers
  <2>2. /\ o.contribution \in ContributionType /\ ContributionRight(o.contribution)
        /\ o.field \in SymmetrixType /\ o.field.override = f.override
        /\ o.field.atoms = f.atoms /\ o.field.last = f.last
        /\ o.field.results = f.results \/ o.field.results = Blank
        /\ o.ok => /\ o.contribution.results[p] # None
                   /\ o.contribution.results[p] = PartOf(a.structure, Resolved(f, a), p)
    BY <1>1, ContributionOutcome
  <2>3. /\ Resolved(o.field, a) = Resolved(f, a)
        /\ o.ok => o.contribution.results[p] \in PartType
    BY <2>2 DEF Resolved, ContributionType, Results
  <2>4. CASE ~o.ok /\ aware' = Attached(w, a) /\ base' = base /\ answered' = FALSE
    <3>1. aware' \in AwareType /\ (AwareRight(aware, base) => AwareRight(aware', base'))
      BY <1>1, <1>6, <2>4
    <3> QED
      BY <1>1, <1>5, <2>1, <2>2, <2>4, <3>1
  <2>5. CASE /\ o.ok /\ p \notin Additive
             /\ aware' = AwareCalculated(w, o.field, a, p, Sum(None, o.contribution.results[p]))
             /\ base' = base /\ answered' = TRUE
    <3>0. None \in Options(BaseValues)
      BY DEF Options
    <3>1. /\ aware' \in AwareType /\ AwareRight(aware', base) /\ aware'.results[p] # None
          /\ ~AwareChanged(aware', base, o.field, a)
      BY <1>1, <1>3, <2>2, <2>3, <2>5, <3>0, AwareCalculatedIs
    <3> QED
      BY <1>1, <1>5, <2>1, <2>2, <2>5, <3>1
  <2>6. ASSUME NEW n \in BaseOutcomes(base, a, p), o.ok, p \in Additive, base' = n.base,
               aware' = IF n.ok
                        THEN AwareCalculated(w, o.field, a, p,
                               Sum(n.base.results[p], o.contribution.results[p]))
                        ELSE Attached(w, a),
               answered' = n.ok
        PROVE  /\ base' \in BaseType /\ BaseRight(base') /\ answered' \in BOOLEAN
               /\ aware' \in AwareType
               /\ AwareRight(aware, base) => AwareRight(aware', base')
               /\ answered' => ~AwareChanged(aware', base', o.field, a) /\ aware'.results[p] # None
    <3>1. /\ n.base \in BaseType /\ BaseRight(n.base) /\ n.base.params = base.params
          /\ n.base.atoms = a.structure /\ n.ok \in BOOLEAN
          /\ n.ok => n.base.results[p] = [structure |-> a.structure, params |-> n.base.params]
          /\ n.ok => n.base.results[p] # None
          /\ ~n.ok /\ ~Moved(base, a) => n.base.results = base.results
      <4>1. p \in Additive /\ n \in BaseOutcomes(base, a, p) /\ base \in BaseType /\ BaseRight(base)
        BY <1>1, <2>6
      <4>2. PICK b : b = base
        OBVIOUS
      <4>3. b \in BaseType /\ BaseRight(b) /\ n \in BaseOutcomes(b, a, p)
        BY <4>1, <4>2
      <4>4. /\ n.base \in BaseType /\ BaseRight(n.base) /\ n.base.params = b.params
            /\ n.base.atoms = a.structure /\ n.ok \in BOOLEAN
            /\ n.ok => n.base.results[p] = [structure |-> a.structure, params |-> b.params]
            /\ n.ok => n.base.results[p] # None
            /\ ~n.ok /\ ~Moved(b, a) => n.base.results = b.results
        BY <4>1, <4>3, BaseOutcome
      <4> QED
        BY <4>2, <4>4
    <3>2. CASE n.ok
      <4>1. n.base.results[p] \in Options(BaseValues)
        BY <3>1 DEF BaseType, Results, Options
      <4>2. aware' = AwareCalculated(w, o.field, a, p, Sum(n.base.results[p], o.contribution.results[p]))
        BY <2>6, <3>2
      <4>3. /\ aware' \in AwareType /\ AwareRight(aware', n.base) /\ aware'.results[p] # None
            /\ ~AwareChanged(aware', n.base, o.field, a)
        BY <1>3, <2>2, <2>3, <2>6, <3>1, <3>2, <4>1, <4>2, AwareCalculatedIs
      <4> QED
        BY <2>6, <3>1, <4>3
    <3>3. CASE ~n.ok
      <4>1. aware' = Attached(w, a)
        BY <2>6, <3>3
      <4>2. aware' \in AwareType /\ (AwareRight(aware, base) => AwareRight(aware', n.base))
        BY <1>6, <3>1, <3>3, <4>1
      <4> QED
        BY <2>6, <3>1, <3>3, <4>2
    <3> QED
      BY <3>1, <3>2, <3>3
  <2> QED
    BY <1>5, <2>1, <2>2, <2>4, <2>5, <2>6
<1> QED
  BY <1>5, <1>7, <1>8

-----------------------------------------------------------------------------
(***************************************************************************)
(* Requests to the ensemble                                                *)
(***************************************************************************)
LEMMA AttachedEnsemble ==
  ASSUME NEW e \in EnsembleType, NEW a \in Atoms
  PROVE  /\ Attached(e, a) \in EnsembleType
         /\ Attached(e, a).atoms = a.structure
         /\ Attached(e, a).results = e.results
<1>1. a.structure \in Options(Structures)
  BY DEF Atoms, Options
<1> QED
  BY <1>1 DEF Attached, EnsembleType

LEMMA RefreshedEnsemble ==
  ASSUME NEW e \in EnsembleType, NEW changed \in BOOLEAN
  PROVE  /\ Refreshed(e, changed) \in EnsembleType
         /\ changed => Refreshed(e, changed).results = Blank
         /\ ~changed => Refreshed(e, changed) = e
<1>1. Blank \in Results(Committee)
  BY BlankType
<1>2. None \in Options(Structures)
  BY DEF Options
<1> QED
  BY <1>1, <1>2 DEF Refreshed, Reset, EnsembleType

LEMMA BlankEnsemble ==
  ASSUME NEW e, NEW ms, e.results = Blank
  PROVE  EnsembleRight(e, ms)
BY BlankType DEF EnsembleRight

\* The committee is judged by where its members are, not by what they cache.
LEMMA EnsembleRightKept ==
  ASSUME NEW e, NEW ms, NEW ns, EnsembleRight(e, ms),
         \A m \in Members : ns[m].atoms = ms[m].atoms /\ ns[m].last = ms[m].last
  PROVE  EnsembleRight(e, ns)
BY DEF EnsembleRight

\* The members before the n-th have been evaluated.
LEMMA MembersUpToAre ==
  ASSUME NEW ms \in [Members -> SymmetrixType], NEW n, NEW a \in Atoms, NEW p \in Properties
  PROVE  /\ MembersUpTo(ms, n, a, p) \in [Members -> SymmetrixType]
         /\ \A m \in Members :
              MembersUpTo(ms, n, a, p)[m] = IF m < n THEN Calculated(m, ms[m], a, p) ELSE ms[m]
<1>1. \A m \in Members : Calculated(m, ms[m], a, p) \in SymmetrixType
  BY CalculatedIs
<1> QED
  BY <1>1 DEF MembersUpTo

LEMMA MemberValueType ==
  ASSUME NEW m \in Members, NEW s \in Structures, NEW f \in Fields, NEW p \in Properties
  PROVE  MemberValue(m, s, f, p) \in Value
<1>1. Evaluation(m, s, f) \in Value
  BY EvaluationType
<1> QED
  BY <1>1 DEF MemberValue, Value

\* A value does not depend on the field of a model without coupling.
LEMMA UncoupledValue ==
  ASSUME NEW m \in Members \ Coupled, NEW s, NEW f, NEW g, NEW p
  PROVE  MemberValue(m, s, f, p) = MemberValue(m, s, g, p)
BY DEF MemberValue, Evaluation

\* What evaluations for the atoms of the ensemble do to the members: each stays
\* as it is or comes to these atoms in the field that applies to it.
Brought(ms, ns, a) ==
  /\ ns \in [Members -> SymmetrixType]
  /\ \A m \in Members :
       /\ ns[m].override = ms[m].override
       /\ \/ ns[m] = ms[m]
          \/ /\ ns[m].atoms = a.structure
             /\ ns[m].last = ms[m].last \/ (m \in Coupled => ns[m].last = Resolved(ms[m], a))

\* Evaluations for the atoms of an ensemble without a change leave its
\* committee right.
LEMMA BroughtKeeps ==
  ASSUME NEW e, NEW ms \in [Members -> SymmetrixType], NEW ns, NEW a \in Atoms,
         EnsembleRight(e, ms), ~EnsembleChanged(e, ms, a), Brought(ms, ns, a)
  PROVE  EnsembleRight(e, ns)
<1> SUFFICES ASSUME NEW p \in Properties, NEW m \in Members, e.results[p] # None,
                    ns[m].atoms = e.atoms
             PROVE  e.results[p][m] = MemberValue(m, e.atoms, ns[m].last, p)
  BY DEF EnsembleRight
<1>1. /\ ms[m].atoms = e.atoms /\ e.atoms = a.structure
      /\ m \in Coupled => ms[m].last = Resolved(ms[m], a)
  BY DEF EnsembleChanged, Changed, Moved
<1>2. e.results[p][m] = MemberValue(m, e.atoms, ms[m].last, p)
  BY <1>1 DEF EnsembleRight
<1>3. ns[m].last = ms[m].last \/ m \notin Coupled
  BY <1>1 DEF Brought
<1> QED
  BY <1>2, <1>3, UncoupledValue

LEMMA EnsembleStep ==
  ASSUME Standing, NEW a \in Atoms, NEW p \in Properties, AskEnsemble(a, p)
  PROVE  /\ "ensemble" \in use.asked
         /\ answered' \in BOOLEAN
         /\ members' \in [Members -> SymmetrixType]
         /\ ensemble' \in EnsembleType
         /\ EnsembleRight(ensemble, members) => EnsembleRight(ensemble', members')
         /\ answered' => ~EnsembleChanged(ensemble', members', a) /\ ensemble'.results[p] # None
<1> DEFINE changed == EnsembleChanged(ensemble, members, a)
           e == Refreshed(ensemble, changed)
           upTo(n) == MembersUpTo(members, n, a, p)
<1>1. members \in [Members -> SymmetrixType] /\ ensemble \in EnsembleType
  BY DEF Standing, TypeOK
<1>2. changed \in BOOLEAN
  BY DEF EnsembleChanged, Moved
<1>3. /\ e \in EnsembleType
      /\ changed => e.results = Blank
      /\ ~changed => e = ensemble
  BY <1>1, <1>2, RefreshedEnsemble
<1>4. /\ "ensemble" \in use.asked
      /\ \/ e.results[p] # None /\ answered' = TRUE /\ UNCHANGED <<members, ensemble>>
         \/ /\ members' = upTo(Size + 1)
            /\ ensemble' = [Attached(e, a) EXCEPT !.results =
                              [@ EXCEPT ![p] = [m \in Members |-> members'[m].results[p]]]]
            /\ answered' = TRUE
         \/ /\ \E n \in Members : \E failed \in Failures(n, members[n], a, p) :
                 members' = [upTo(n) EXCEPT ![n] = failed]
            /\ ensemble' = Attached(e, a)
            /\ answered' = FALSE
  BY DEF AskEnsemble
<1> HIDE DEF e
<1>5. /\ Attached(e, a) \in EnsembleType /\ Attached(e, a).results = e.results
      /\ Attached(e, a).atoms = a.structure
  BY <1>3, AttachedEnsemble
\* Whatever the members have been brought to, what is kept of the committee is right.
<1>6. ASSUME NEW ns, Brought(members, ns, a)
      PROVE  EnsembleRight(ensemble, members) => EnsembleRight(Attached(e, a), ns)
  <2>1. CASE changed
    BY <1>3, <1>5, <2>1, BlankEnsemble
  <2>2. CASE ~changed
    <3>1. EnsembleRight(ensemble, members) => EnsembleRight(ensemble, ns)
      BY <1>1, <1>6, <2>2, BroughtKeeps
    <3>2. ensemble.atoms = a.structure /\ ensemble.results = Attached(e, a).results
      BY <1>3, <1>5, <2>2 DEF EnsembleChanged, Moved
    <3> QED
      BY <1>5, <3>1, <3>2 DEF EnsembleRight
  <2> QED
    BY <2>1, <2>2
<1>7. \A n : /\ upTo(n) \in [Members -> SymmetrixType]
             /\ \A m \in Members :
                  upTo(n)[m] = IF m < n THEN Calculated(m, members[m], a, p) ELSE members[m]
  BY <1>1, MembersUpToAre
<1>8. \A m \in Members :
        /\ Calculated(m, members[m], a, p) \in SymmetrixType
        /\ Calculated(m, members[m], a, p).atoms = a.structure
        /\ Calculated(m, members[m], a, p).override = members[m].override
        /\ Calculated(m, members[m], a, p).last =
             IF m \in Coupled THEN Resolved(members[m], a) ELSE members[m].last
        /\ Calculated(m, members[m], a, p).results[p] =
             MemberValue(m, a.structure, Resolved(members[m], a), p)
  BY <1>1, CalculatedIs DEF MemberValue
<1> HIDE DEF upTo
<1>9. \A n : Brought(members, upTo(n), a)
  BY <1>7, <1>8 DEF Brought
<1>10. CASE e.results[p] # None /\ answered' = TRUE /\ UNCHANGED <<members, ensemble>>
  <2>1. ~changed
    BY <1>3, <1>10, BlankType
  <2> QED
    BY <1>1, <1>3, <1>4, <1>10, <2>1
<1>11. CASE /\ members' = upTo(Size + 1)
            /\ ensemble' = [Attached(e, a) EXCEPT !.results =
                              [@ EXCEPT ![p] = [m \in Members |-> members'[m].results[p]]]]
            /\ answered' = TRUE
  <2>1. /\ members' \in [Members -> SymmetrixType]
        /\ \A m \in Members : members'[m] = Calculated(m, members[m], a, p)
    BY <1>7, <1>11, CalculatorsAssumption DEF Members
  <2>2. PICK committee : committee = [m \in Members |-> members'[m].results[p]]
    OBVIOUS
  <2>3. /\ committee \in Committee /\ committee # None
        /\ \A m \in Members :
             committee[m] = MemberValue(m, a.structure, Resolved(members[m], a), p)
    <3>1. \A m \in Members :
            committee[m] = MemberValue(m, a.structure, Resolved(members[m], a), p)
      BY <1>8, <2>1, <2>2
    <3>2. \A m \in Members : MemberValue(m, a.structure, Resolved(members[m], a), p) \in Value
      BY <1>1, ResolvedType, MemberValueType DEF Atoms
    <3>3. committee \in Committee
      BY <2>2, <3>1, <3>2 DEF Committee
    <3> QED
      BY <3>1, <3>3, NoneAssumption
  <2>4. PICK rs : rs = [e.results EXCEPT ![p] = committee]
    OBVIOUS
  <2>5. rs \in Results(Committee) /\ rs[p] = committee
        /\ \A q \in Properties : q # p => rs[q] = e.results[q]
    BY <1>3, <2>3, <2>4 DEF EnsembleType, Results
  <2>6. ensemble' = [Attached(e, a) EXCEPT !.results = rs]
    BY <1>5, <1>11, <2>2, <2>4 DEF EnsembleType
  <2>7. ensemble' \in EnsembleType /\ ensemble'.atoms = a.structure /\ ensemble'.results = rs
    BY <1>5, <2>5, <2>6 DEF EnsembleType
  <2>8. EnsembleRight(ensemble, members) => EnsembleRight(ensemble', members')
    <3> SUFFICES ASSUME EnsembleRight(ensemble, members),
                        NEW q \in Properties, NEW m \in Members, rs[q] # None
                 PROVE  rs[q][m] = MemberValue(m, a.structure, members'[m].last, q)
      BY <2>7 DEF EnsembleRight
    <3>1. CASE q = p
      <4>1. m \in Coupled => members'[m].last = Resolved(members[m], a)
        BY <1>8, <2>1
      <4>2. rs[q][m] = MemberValue(m, a.structure, Resolved(members[m], a), q)
        BY <2>3, <2>5, <3>1
      <4> QED
        BY <4>1, <4>2, UncoupledValue
    <3>2. CASE q # p
      <4>1. EnsembleRight(Attached(e, a), members')
        BY <1>6, <1>9, <1>11
      <4>2. Attached(e, a).results[q] # None /\ Attached(e, a).results[q] = rs[q]
        BY <1>5, <2>5, <3>2
      <4>3. members'[m].atoms = a.structure
        BY <1>8, <2>1
      <4> QED
        BY <1>5, <4>1, <4>2, <4>3 DEF EnsembleRight
    <3> QED
      BY <3>1, <3>2
  <2>9. ~EnsembleChanged(ensemble', members', a)
    <3>1. \A m \in Members : /\ members'[m].atoms = a.structure
                             /\ m \in Coupled => members'[m].last = Resolved(members'[m], a)
      BY <1>8, <2>1 DEF Resolved
    <3> QED
      BY <2>7, <3>1 DEF EnsembleChanged, Changed, Moved
  <2> QED
    BY <1>4, <1>11, <2>1, <2>3, <2>5, <2>7, <2>8, <2>9
<1>12. ASSUME NEW n \in Members, NEW failed \in Failures(n, members[n], a, p),
              members' = [upTo(n) EXCEPT ![n] = failed],
              ensemble' = Attached(e, a), answered' = FALSE
       PROVE  /\ members' \in [Members -> SymmetrixType]
              /\ EnsembleRight(ensemble, members) => EnsembleRight(ensemble', members')
  <2>1. /\ failed \in SymmetrixType /\ failed.atoms = a.structure
        /\ failed.override = members[n].override
        /\ \/ failed.last = members[n].last
           \/ n \in Coupled => failed.last = Resolved(members[n], a)
    BY <1>1, FailuresAre
  <2>2. /\ members' \in [Members -> SymmetrixType]
        /\ \A m \in Members : members'[m] = IF m = n THEN failed ELSE upTo(n)[m]
    BY <1>7, <1>12, <2>1
  <2>3. Brought(members, members', a)
    <3> SUFFICES ASSUME NEW m \in Members
                 PROVE  /\ members'[m].override = members[m].override
                        /\ \/ members'[m] = members[m]
                           \/ /\ members'[m].atoms = a.structure
                              /\ \/ members'[m].last = members[m].last
                                 \/ m \in Coupled => members'[m].last = Resolved(members[m], a)
      BY <2>2 DEF Brought
    <3>1. CASE m = n
      BY <2>1, <2>2, <3>1
    <3>2. CASE m # n
      BY <1>9, <2>2, <3>2 DEF Brought
    <3> QED
      BY <3>1, <3>2
  <2> QED
    BY <1>6, <1>12, <2>2, <2>3
<1> QED
  BY <1>4, <1>5, <1>10, <1>11, <1>12

-----------------------------------------------------------------------------
(***************************************************************************)
(* The other steps                                                         *)
(***************************************************************************)
LEMMA ContributionStep ==
  ASSUME Standing, NEW a \in Atoms, NEW p \in Properties, AskContribution(a, p)
  PROVE  /\ answered' \in BOOLEAN
         /\ contribution' \in ContributionType /\ ContributionRight(contribution')
         /\ UNCHANGED <<base, aware, ensemble>>
         /\ \E g \in SymmetrixType :
              /\ members' = [members EXCEPT ![FieldCalc] = g]
              /\ g.atoms = members[FieldCalc].atoms /\ g.last = members[FieldCalc].last
              /\ g.results = members[FieldCalc].results \/ g.results = Blank
              /\ answered' => /\ ~ContributionChanged(contribution', g, a)
                              /\ contribution'.results[p] # None
<1>1. /\ FieldCalc \in Members /\ members[FieldCalc] \in SymmetrixType
      /\ contribution \in ContributionType /\ ContributionRight(contribution)
  BY CalculatorsAssumption DEF Standing, TypeOK
<1>2. PICK o \in ContributionOutcomes(contribution, members[FieldCalc], a, p) :
        /\ contribution' = o.contribution
        /\ members' = [members EXCEPT ![FieldCalc] = o.field]
        /\ answered' = o.ok
        /\ UNCHANGED <<base, aware, ensemble>>
  BY DEF AskContribution
<1>3. PICK c, f : c = contribution /\ f = members[FieldCalc]
  OBVIOUS
<1>4. /\ c \in ContributionType /\ f \in SymmetrixType /\ ContributionRight(c)
      /\ o \in ContributionOutcomes(c, f, a, p)
  BY <1>1, <1>3
<1>5. /\ o.contribution \in ContributionType /\ ContributionRight(o.contribution)
      /\ o.field \in SymmetrixType /\ o.field.atoms = f.atoms /\ o.field.last = f.last
      /\ o.field.results = f.results \/ o.field.results = Blank
      /\ o.ok \in BOOLEAN
      /\ o.ok => /\ ~ContributionChanged(o.contribution, o.field, a)
                 /\ o.contribution.results[p] # None
  BY <1>4, ContributionOutcome
<1> QED
  BY <1>2, <1>3, <1>5

LEMMA BaseStep ==
  ASSUME Standing, NEW a \in Atoms, NEW p \in Properties, AskBase(a, p)
  PROVE  /\ "base" \in use.asked
         /\ answered' \in BOOLEAN
         /\ base' \in BaseType /\ BaseRight(base')
         /\ UNCHANGED <<members, contribution, aware, ensemble>>
         /\ answered' => ~Moved(base', a) /\ base'.results[p] # None
<1>1. base \in BaseType /\ BaseRight(base)
  BY DEF Standing, TypeOK
<1>2. /\ "base" \in use.asked /\ p \in Additive
      /\ UNCHANGED <<members, contribution, aware, ensemble>>
  BY DEF AskBase
<1>3. PICK o \in BaseOutcomes(base, a, p) : base' = o.base /\ answered' = o.ok
  BY DEF AskBase
<1>4. PICK b : b = base
  OBVIOUS
<1>5. b \in BaseType /\ BaseRight(b) /\ p \in Additive /\ o \in BaseOutcomes(b, a, p)
  BY <1>1, <1>2, <1>3, <1>4
<1>6. /\ o.base \in BaseType /\ BaseRight(o.base)
      /\ o.base.params = b.params /\ o.base.atoms = a.structure
      /\ o.ok \in BOOLEAN
      /\ o.ok => o.base.results[p] = [structure |-> a.structure, params |-> b.params]
      /\ o.ok => o.base.results[p] # None
      /\ ~o.ok /\ ~Moved(b, a) => o.base.results = b.results
  BY <1>5, BaseOutcome
<1> QED
  BY <1>2, <1>3, <1>6 DEF Moved

\* The setters drop the results and keep the rest.
LEMMA EmptiedContribution ==
  ASSUME NEW c \in ContributionType, ContributionRight(c)
  PROVE  Emptied(c) \in ContributionType /\ ContributionRight(Emptied(c))
<1>1. Blank \in Results(PartType) /\ \A p \in Properties : Blank[p] = None
  BY BlankType
<1>2. /\ Emptied(c) \in ContributionType /\ Emptied(c).results = Blank
      /\ Emptied(c).zero = c.zero /\ Emptied(c).zeroAtoms = c.zeroAtoms
  BY <1>1 DEF Emptied, ContributionType
<1> QED
  BY <1>1, <1>2 DEF ContributionRight, ReferenceRight, ResultsRight

LEMMA EmptiedAware ==
  ASSUME NEW w \in AwareType
  PROVE  Emptied(w) \in AwareType /\ Emptied(w).results = Blank
BY BlankType DEF Emptied, AwareType

LEMMA EmptiedEnsemble ==
  ASSUME NEW e \in EnsembleType
  PROVE  Emptied(e) \in EnsembleType /\ Emptied(e).results = Blank
BY BlankType DEF Emptied, EnsembleType

LEMMA ResetBase ==
  ASSUME NEW b \in BaseType, NEW params \in Params
  PROVE  /\ [Reset(b) EXCEPT !.params = params] \in BaseType
         /\ [Reset(b) EXCEPT !.params = params].results = Blank
<1>1. Blank \in Results(BaseValues)
  BY BlankType
<1>2. None \in Options(Structures)
  BY DEF Options
<1> QED
  BY <1>1, <1>2 DEF Reset, BaseType

\* A field set on a member drops what it remembers for the old one.
LEMMA SetMember ==
  ASSUME Standing, NEW m \in Members, NEW f \in Options(Fields),
         members' = [members EXCEPT ![m] = Overridden(@, f)]
  PROVE  \E d \in SymmetrixType :
           /\ members' = [members EXCEPT ![m] = d]
           /\ d.atoms = members[m].atoms /\ d.last = members[m].last /\ d.results = Blank
<1>1. members[m] \in SymmetrixType
  BY DEF Standing, TypeOK
<1>2. PICK c : c = members[m]
  OBVIOUS
<1>3. /\ Overridden(c, f) \in SymmetrixType /\ Overridden(c, f).atoms = c.atoms
      /\ Overridden(c, f).last = c.last /\ Overridden(c, f).results = Blank
  BY <1>1, <1>2, OverriddenIs
<1> QED
  BY <1>2, <1>3

-----------------------------------------------------------------------------
(***************************************************************************)
(* Standing is inductive                                                   *)
(***************************************************************************)
LEMMA StandingInit == Init => Standing
<1> SUFFICES ASSUME Init PROVE Standing
  OBVIOUS
<1>1. None \in Options(Structures) /\ None \in Options(Fields) /\ None \in Options(Value)
  BY DEF Options
<1>2. FreshSymmetrix \in SymmetrixType
  BY <1>1, BlankType DEF FreshSymmetrix, SymmetrixType
<1>3. members \in [Members -> SymmetrixType]
  BY <1>2 DEF Init
<1>4. contribution \in ContributionType /\ ContributionRight(contribution)
  <2>1. FreshContribution \in ContributionType
    BY <1>1, BlankType DEF FreshContribution, ContributionType
  <2>2. ContributionRight(FreshContribution)
    BY BlankType DEF FreshContribution, ContributionRight, ReferenceRight, ResultsRight
  <2> QED
    BY <2>1, <2>2 DEF Init
<1>5. base \in BaseType /\ BaseRight(base)
  <2>1. PICK params \in Params : base = FreshBase(params)
    BY DEF Init
  <2>2. base \in BaseType /\ base.results = Blank
    BY <1>1, <2>1, BlankType DEF FreshBase, BaseType
  <2> QED
    BY <2>2, BlankType DEF BaseRight
<1>6. aware \in AwareType
  BY <1>1, BlankType DEF Init, FreshAware, AwareType
<1>7. ensemble \in EnsembleType
  BY <1>1, BlankType DEF Init, FreshEnsemble, EnsembleType
<1> QED
  BY <1>3, <1>4, <1>5, <1>6, <1>7 DEF Standing, TypeOK, Init

LEMMA StandingNext == Standing /\ [Next]_vars => Standing'
<1> SUFFICES ASSUME Standing, [Next]_vars PROVE Standing'
  OBVIOUS
<1>1. /\ use \in Uses /\ members \in [Members -> SymmetrixType]
      /\ contribution \in ContributionType /\ ContributionRight(contribution)
      /\ base \in BaseType /\ BaseRight(base)
      /\ aware \in AwareType /\ ensemble \in EnsembleType /\ answered \in BOOLEAN
      /\ FieldCalc \in Members
  BY CalculatorsAssumption DEF Standing, TypeOK
<1>2. CASE UNCHANGED vars
  BY <1>2 DEF vars, Standing, TypeOK
<1>3. CASE Next
  <2> SUFFICES /\ members' \in [Members -> SymmetrixType]
               /\ contribution' \in ContributionType /\ ContributionRight(contribution')
               /\ base' \in BaseType /\ BaseRight(base')
               /\ aware' \in AwareType /\ ensemble' \in EnsembleType /\ answered' \in BOOLEAN
    BY <1>1, <1>3 DEF Next, Standing, TypeOK
  <2>1. ASSUME NEW m \in Members, NEW d \in SymmetrixType, members' = [members EXCEPT ![m] = d]
        PROVE  members' \in [Members -> SymmetrixType]
    BY <1>1, <2>1
  <2>2. ASSUME NEW a \in Atoms, NEW p \in Properties, NEW m \in Members, AskSymmetrix(m, a, p)
        PROVE  /\ members' \in [Members -> SymmetrixType] /\ answered' \in BOOLEAN
               /\ UNCHANGED <<contribution, base, aware, ensemble>>
    BY <2>1, <2>2, SymmetrixStep DEF AskSymmetrix
  <2>3. ASSUME NEW a \in Atoms, NEW p \in Properties, AskContribution(a, p)
        PROVE  /\ members' \in [Members -> SymmetrixType] /\ answered' \in BOOLEAN
               /\ contribution' \in ContributionType /\ ContributionRight(contribution')
               /\ UNCHANGED <<base, aware, ensemble>>
    BY <1>1, <2>1, <2>3, ContributionStep
  <2>4. ASSUME NEW a \in Atoms, NEW p \in Properties, AskBase(a, p)
        PROVE  /\ base' \in BaseType /\ BaseRight(base') /\ answered' \in BOOLEAN
               /\ UNCHANGED <<members, contribution, aware, ensemble>>
    BY <2>4, BaseStep
  <2>5. ASSUME NEW a \in Atoms, NEW p \in Properties, AskAware(a, p)
        PROVE  /\ members' \in [Members -> SymmetrixType] /\ answered' \in BOOLEAN
               /\ contribution' \in ContributionType /\ ContributionRight(contribution')
               /\ base' \in BaseType /\ BaseRight(base') /\ aware' \in AwareType
               /\ UNCHANGED ensemble
    BY <1>1, <2>1, <2>5, AwareStep DEF AskAware
  <2>6. ASSUME NEW a \in Atoms, NEW p \in Properties, AskEnsemble(a, p)
        PROVE  /\ members' \in [Members -> SymmetrixType] /\ answered' \in BOOLEAN
               /\ ensemble' \in EnsembleType
               /\ UNCHANGED <<contribution, base, aware>>
    BY <2>6, EnsembleStep DEF AskEnsemble
  <2>7. ASSUME NEW f \in Options(Fields), NEW m \in Members, SetSymmetrix(m, f)
        PROVE  /\ members' \in [Members -> SymmetrixType] /\ answered' \in BOOLEAN
               /\ UNCHANGED <<contribution, base, aware, ensemble>>
    BY <2>1, <2>7, SetMember DEF SetSymmetrix
  <2>8. ASSUME NEW f \in Options(Fields), SetContribution(f)
        PROVE  /\ members' \in [Members -> SymmetrixType] /\ answered' \in BOOLEAN
               /\ contribution' \in ContributionType /\ ContributionRight(contribution')
               /\ UNCHANGED <<base, aware, ensemble>>
    <3>1. members' \in [Members -> SymmetrixType]
      BY <1>1, <2>1, <2>8, SetMember DEF SetContribution
    <3>2. contribution' \in ContributionType /\ ContributionRight(contribution')
      BY <1>1, <2>8, EmptiedContribution DEF SetContribution
    <3> QED
      BY <2>8, <3>1, <3>2 DEF SetContribution
  <2>9. ASSUME NEW f \in Options(Fields), SetAware(f)
        PROVE  /\ members' \in [Members -> SymmetrixType] /\ answered' \in BOOLEAN
               /\ contribution' \in ContributionType /\ ContributionRight(contribution')
               /\ aware' \in AwareType
               /\ UNCHANGED <<base, ensemble>>
    <3>1. members' \in [Members -> SymmetrixType]
      BY <1>1, <2>1, <2>9, SetMember DEF SetAware
    <3>2. contribution' \in ContributionType /\ ContributionRight(contribution')
      BY <1>1, <2>9, EmptiedContribution DEF SetAware
    <3>3. aware' \in AwareType
      BY <1>1, <2>9, EmptiedAware DEF SetAware
    <3> QED
      BY <2>9, <3>1, <3>2, <3>3 DEF SetAware
  <2>10. ASSUME NEW f \in Options(Fields), SetEnsemble(f)
         PROVE  /\ members' \in [Members -> SymmetrixType] /\ answered' \in BOOLEAN
                /\ ensemble' \in EnsembleType
                /\ UNCHANGED <<contribution, base, aware>>
    <3>1. \A m \in Members : Overridden(members[m], f) \in SymmetrixType
      BY <1>1, OverriddenIs
    <3>2. ensemble' \in EnsembleType
      BY <1>1, <2>10, EmptiedEnsemble DEF SetEnsemble
    <3> QED
      BY <2>10, <3>1, <3>2 DEF SetEnsemble
  <2>11. ASSUME NEW params \in Params, SetBase(params)
         PROVE  /\ base' \in BaseType /\ BaseRight(base') /\ answered' \in BOOLEAN
                /\ UNCHANGED <<members, contribution, aware, ensemble>>
    <3>1. base' \in BaseType /\ base'.results = Blank
      BY <1>1, <2>11, ResetBase DEF SetBase
    <3> QED
      BY <2>11, <3>1, BlankType DEF SetBase, BaseRight
  <2>12. CASE \E a \in Atoms, p \in Properties : Ask(a, p)
    BY <1>1, <2>2, <2>3, <2>4, <2>5, <2>6, <2>12 DEF Ask
  <2>13. CASE \E f \in Options(Fields) : Set(f)
    BY <1>1, <2>7, <2>8, <2>9, <2>10, <2>13 DEF Set
  <2>14. CASE \E params \in Params : SetBase(params)
    BY <1>1, <2>11, <2>14
  <2> QED
    BY <1>3, <2>12, <2>13, <2>14 DEF Next
<1> QED
  BY <1>2, <1>3

LEMMA StandingHolds == Spec => []Standing
<1> QED
  BY StandingInit, StandingNext, PTL DEF Spec

-----------------------------------------------------------------------------
(***************************************************************************)
(* Theorems about every use                                                *)
(***************************************************************************)
\* Type correctness: every calculator's record stays well-formed through
\* requests, failures and setters (calculator.py, ensemble.py).
THEOREM TypeCorrect == Spec => []TypeOK
<1>1. Standing => TypeOK
  BY DEF Standing
<1> QED
  BY <1>1, StandingHolds, PTL

\* The contribution's results and reference are those of what is remembered with
\* them, so whatever it serves is right (FieldContributionCalculator).
THEOREM ContributionServed == Spec => []ContributionServes
<1>1. ASSUME Standing PROVE ContributionServes
  <2> SUFFICES ASSUME NEW a \in Atoms, NEW p \in Properties,
                      ~ContributionChanged(contribution, members[FieldCalc], a),
                      contribution.results[p] # None
               PROVE  contribution.results[p] = RightPart(a, p)
    BY DEF ContributionServes
  <2>1. /\ contribution.atoms = a.structure
        /\ contribution.last = Resolved(members[FieldCalc], a)
    BY DEF ContributionChanged, Moved
  <2>2. contribution.results[p] = PartOf(a.structure, Resolved(members[FieldCalc], a), p)
    BY <1>1, <2>1 DEF Standing, ContributionRight, ResultsRight
  <2> QED
    BY <2>2 DEF PartOf, RightPart
<1> QED
  BY <1>1, StandingHolds, PTL

\* An answered request is served from the cache the next time: calculate leaves
\* the calculator and those below it in states that none of the change checks
\* (check_state of each class) objects to.
THEOREM AnsweredServedAgain == Spec => AnswersStand
<1>1. ASSUME Standing
      PROVE  \A a \in Atoms, p \in Properties :
               LET f == members[FieldCalc]' IN
               answered' =>
                 /\ \A m \in Members :
                      AskSymmetrix(m, a, p) =>
                        ~Changed(m, members[m]', a) /\ members[m].results[p]' # None
                 /\ AskContribution(a, p) =>
                      ~ContributionChanged(contribution', f, a) /\ contribution.results[p]' # None
                 /\ AskBase(a, p) => ~Moved(base', a) /\ base.results[p]' # None
                 /\ AskAware(a, p) =>
                      ~AwareChanged(aware', base', f, a) /\ aware.results[p]' # None
                 /\ AskEnsemble(a, p) =>
                      ~EnsembleChanged(ensemble', members', a) /\ ensemble.results[p]' # None
  <2> TAKE a \in Atoms, p \in Properties
  <2> SUFFICES ASSUME answered'
               PROVE  /\ \A m \in Members :
                           AskSymmetrix(m, a, p) =>
                             ~Changed(m, members'[m], a) /\ members'[m].results[p] # None
                      /\ AskContribution(a, p) =>
                           /\ ~ContributionChanged(contribution', members'[FieldCalc], a)
                           /\ contribution'.results[p] # None
                      /\ AskBase(a, p) => ~Moved(base', a) /\ base'.results[p] # None
                      /\ AskAware(a, p) =>
                           /\ ~AwareChanged(aware', base', members'[FieldCalc], a)
                           /\ aware'.results[p] # None
                      /\ AskEnsemble(a, p) =>
                           /\ ~EnsembleChanged(ensemble', members', a)
                           /\ ensemble'.results[p] # None
    OBVIOUS
  <2>0. members \in [Members -> SymmetrixType] /\ FieldCalc \in Members
    BY <1>1, CalculatorsAssumption DEF Standing, TypeOK
  <2>1. ASSUME NEW m \in Members, NEW d, members' = [members EXCEPT ![m] = d]
        PROVE  members'[m] = d
    BY <2>0, <2>1
  <2>2. ASSUME NEW m \in Members, AskSymmetrix(m, a, p)
        PROVE  ~Changed(m, members'[m], a) /\ members'[m].results[p] # None
    <3>1. PICK d \in SymmetrixType :
            /\ members' = [members EXCEPT ![m] = d]
            /\ MemberRight(m, members[m]) => MemberRight(m, d)
            /\ answered' => ~Changed(m, d, a) /\ d.results[p] # None
      BY <1>1, <2>2, SymmetrixStep
    <3>2. members'[m] = d
      BY <2>1, <3>1
    <3> QED
      BY <3>1, <3>2
  <2>3. ASSUME AskContribution(a, p)
        PROVE  /\ ~ContributionChanged(contribution', members'[FieldCalc], a)
               /\ contribution'.results[p] # None
    BY <1>1, <2>0, <2>1, <2>3, ContributionStep
  <2>4. ASSUME AskBase(a, p) PROVE ~Moved(base', a) /\ base'.results[p] # None
    BY <1>1, <2>4, BaseStep
  <2>5. ASSUME AskAware(a, p)
        PROVE  /\ ~AwareChanged(aware', base', members'[FieldCalc], a)
               /\ aware'.results[p] # None
    BY <1>1, <2>0, <2>1, <2>5, AwareStep
  <2>6. ASSUME AskEnsemble(a, p)
        PROVE  ~EnsembleChanged(ensemble', members', a) /\ ensemble'.results[p] # None
    BY <1>1, <2>6, EnsembleStep
  <2> QED
    BY <2>2, <2>3, <2>4, <2>5, <2>6
<1> QED
  BY <1>1, StandingHolds, PTL DEF AnswersStand

-----------------------------------------------------------------------------
(***************************************************************************)
(* Members                                                                 *)
(***************************************************************************)
\* No member is asked directly next to its ensemble.
EnsembleApart == \A u \in Uses : "ensemble" \in u.asked => u.direct = {}

\* No member that is asked directly has dispersion.
NoneDispersed == \A u \in Uses : u.direct \cap Dispersed = {}

LEMMA MemberKept ==
  ASSUME NEW m, NEW c, NEW d, MemberRight(m, c), d.atoms = c.atoms, d.last = c.last,
         d.results = c.results \/ d.results = Blank
  PROVE  MemberRight(m, d)
BY BlankType DEF MemberRight

LEMMA MemberNext ==
  ASSUME EnsembleApart, Standing, MemberInv, [Next]_vars
  PROVE  MemberInv'
<1>1. /\ use \in Uses /\ members \in [Members -> SymmetrixType] /\ FieldCalc \in Members
      /\ use.direct \subseteq Members
      /\ "ensemble" \in use.asked => use.direct = {}
  BY CalculatorsAssumption DEF Standing, TypeOK, EnsembleApart
<1>2. CASE members' = members /\ use' = use
  BY <1>2 DEF MemberInv
<1>3. CASE Next
  <2>1. use' = use
    BY <1>3 DEF Next
  <2> SUFFICES ASSUME NEW n \in use.direct PROVE MemberRight(n, members'[n])
    BY <2>1 DEF MemberInv
  <2>2. n \in Members /\ "ensemble" \notin use.asked /\ MemberRight(n, members[n])
    BY <1>1 DEF MemberInv
  \* One member changes, to a state that is right if the old one was.
  <2>3. ASSUME NEW m \in Members, NEW d, members' = [members EXCEPT ![m] = d],
               m = n => MemberRight(m, d)
        PROVE  MemberRight(n, members'[n])
    BY <1>1, <2>2, <2>3
  <2>4. ASSUME NEW m \in Members, NEW d, members' = [members EXCEPT ![m] = d],
               d.atoms = members[m].atoms, d.last = members[m].last,
               d.results = members[m].results \/ d.results = Blank
        PROVE  MemberRight(n, members'[n])
    <3>1. m = n => MemberRight(m, d)
      BY <2>2, <2>4, MemberKept
    <3> QED
      BY <2>3, <2>4, <3>1
  <2>5. ASSUME NEW a \in Atoms, NEW p \in Properties, NEW m \in Members, AskSymmetrix(m, a, p)
        PROVE  MemberRight(n, members'[n])
    <3>1. PICK d \in SymmetrixType :
            /\ members' = [members EXCEPT ![m] = d]
            /\ MemberRight(m, members[m]) => MemberRight(m, d)
      BY <2>5, SymmetrixStep
    <3> QED
      BY <2>2, <2>3, <3>1
  <2>6. ASSUME NEW a \in Atoms, NEW p \in Properties, AskContribution(a, p)
        PROVE  MemberRight(n, members'[n])
    BY <1>1, <2>4, <2>6, ContributionStep
  <2>7. ASSUME NEW a \in Atoms, NEW p \in Properties, AskAware(a, p)
        PROVE  MemberRight(n, members'[n])
    BY <1>1, <2>4, <2>7, AwareStep
  <2>8. ASSUME NEW a \in Atoms, NEW p \in Properties, AskBase(a, p) \/ AskEnsemble(a, p)
        PROVE  MemberRight(n, members'[n])
    BY <2>2, <2>8 DEF AskBase, AskEnsemble
  <2>9. ASSUME NEW f \in Options(Fields), NEW m \in Members, SetSymmetrix(m, f)
        PROVE  MemberRight(n, members'[n])
    BY <2>4, <2>9, SetMember DEF SetSymmetrix
  <2>10. ASSUME NEW f \in Options(Fields), SetContribution(f) \/ SetAware(f)
         PROVE  MemberRight(n, members'[n])
    <3>1. members' = [members EXCEPT ![FieldCalc] = Overridden(@, f)]
      BY <2>10 DEF SetContribution, SetAware
    <3> QED
      BY <1>1, <2>4, <3>1, SetMember
  <2>11. CASE \E a \in Atoms, p \in Properties : Ask(a, p)
    BY <2>5, <2>6, <2>7, <2>8, <2>11 DEF Ask
  <2>12. CASE \E f \in Options(Fields) : Set(f)
    BY <2>2, <2>9, <2>10, <2>12 DEF Set, SetEnsemble
  <2>13. CASE \E params \in Params : SetBase(params)
    BY <2>2, <2>13 DEF SetBase
  <2> QED
    BY <1>3, <2>11, <2>12, <2>13 DEF Next
<1> QED
  BY <1>2, <1>3 DEF vars

LEMMA MembersRight ==
  ASSUME EnsembleApart
  PROVE  Spec => [](Standing /\ MemberInv)
<1>1. Init => MemberInv
  <2> SUFFICES ASSUME Init, NEW m \in use.direct PROVE MemberRight(m, members[m])
    BY DEF MemberInv
  <2>1. members[m] = FreshSymmetrix
    BY CalculatorsAssumption DEF Init
  <2> QED
    BY <2>1, BlankType DEF MemberRight, FreshSymmetrix
<1> QED
  BY <1>1, MemberNext, StandingHolds, PTL DEF Spec

\* A member asked directly serves the results of the asked structure in the field
\* that applies, up to the D3 terms.
ServedModel ==
  \A m \in use.direct, a \in Atoms, p \in Properties :
    ~Changed(m, members[m], a) /\ members[m].results[p] # None
      => ComputedFrom(members[m].results[p], m, a.structure, Resolved(members[m], a))

\* Nothing but D3 terms can be wrong in what a member serves: structure and field
\* are right also with dispersion, whether or not the D3 calculator threw
\* (Symmetrix.check_state and _add_dispersion_results).
THEOREM OnlyDispersionDiffers ==
  ASSUME EnsembleApart
  PROVE  Spec => []ServedModel
<1>1. ASSUME Standing, MemberInv PROVE ServedModel
  <2> SUFFICES ASSUME NEW m \in use.direct, NEW a \in Atoms, NEW p \in Properties,
                      ~Changed(m, members[m], a), members[m].results[p] # None
               PROVE  ComputedFrom(members[m].results[p], m, a.structure, Resolved(members[m], a))
    BY DEF ServedModel
  <2>1. /\ members[m].atoms = a.structure
        /\ m \in Coupled => members[m].last = Resolved(members[m], a)
    BY DEF Changed, Moved
  <2>2. ComputedFrom(members[m].results[p], m, a.structure, members[m].last)
    BY <1>1, <2>1 DEF MemberInv, MemberRight
  <2> QED
    BY <2>1, <2>2 DEF ComputedFrom, Evaluation
<1> QED
  BY <1>1, MembersRight, PTL

\* What a member without dispersion serves is right (Symmetrix.check_state and
\* calculate), next to any requests to the contribution and the sum over it.
THEOREM MembersServed ==
  ASSUME EnsembleApart, NoneDispersed
  PROVE  Spec => []MembersServe
<1>1. ASSUME Standing, ServedModel PROVE MembersServe
  <2> SUFFICES ASSUME NEW m \in use.direct, NEW a \in Atoms, NEW p \in Properties,
                      ~Changed(m, members[m], a), members[m].results[p] # None
               PROVE  members[m].results[p] = RightValue(m, a, p)
    BY DEF MembersServe
  <2>1. m \in Members /\ m \notin Dispersed /\ members[m] \in SymmetrixType
    BY <1>1, CalculatorsAssumption DEF Standing, TypeOK, NoneDispersed
  <2>2. PICK v, w : /\ v = members[m].results[p]
                    /\ w = Evaluation(m, a.structure, Resolved(members[m], a))
    OBVIOUS
  <2>3. v \in Value /\ v.structure = a.structure /\ v.field = w.field /\ v.d3 = FALSE
    BY <1>1, <2>1, <2>2 DEF ServedModel, ComputedFrom, SymmetrixType, Results
  <2>4. w \in Value /\ w.structure = a.structure /\ w.d3 = FALSE
    BY <2>1, <2>2, ResolvedType, EvaluationType DEF Atoms, Evaluation
  <2>5. v = w /\ [w EXCEPT !.d3 = FALSE] = w
    BY <2>3, <2>4 DEF Value
  <2> QED
    BY <2>1, <2>2, <2>5 DEF RightValue
<1> QED
  BY <1>1, OnlyDispersionDiffers, StandingHolds, PTL

-----------------------------------------------------------------------------
(***************************************************************************)
(* The field-aware calculator                                              *)
(***************************************************************************)
\* A base calculator is not asked directly next to the sum over it.
BaseApart == \A u \in Uses : "aware" \in u.asked => "base" \notin u.asked

LEMMA AwareNext ==
  ASSUME BaseApart, Standing, AwareInv, [Next]_vars
  PROVE  AwareInv'
<1>1. /\ use \in Uses /\ AwareRight(aware, base)
      /\ "aware" \notin use.asked => aware.results = Blank
      /\ "aware" \in use.asked => "base" \notin use.asked
      /\ base \in BaseType /\ aware \in AwareType
  BY DEF Standing, TypeOK, AwareInv, BaseApart
<1>2. CASE UNCHANGED <<use, base, aware>>
  BY <1>2 DEF AwareInv
<1>3. CASE Next
  <2>1. use' = use
    BY <1>3 DEF Next
  <2>2. ASSUME NEW a \in Atoms, NEW p \in Properties, AskAware(a, p)
        PROVE  AwareInv'
    <3>1. "aware" \in use.asked /\ AwareRight(aware', base')
      BY <1>1, <2>2, AwareStep
    <3> QED
      BY <2>1, <3>1 DEF AwareInv
  <2>3. ASSUME NEW a \in Atoms, NEW p \in Properties, AskBase(a, p)
        PROVE  AwareInv'
    <3>1. aware' = aware /\ aware.results = Blank
      BY <1>1, <2>3, BaseStep
    <3>2. AwareRight(aware', base')
      BY <3>1, BlankAware
    <3> QED
      BY <3>1, <3>2 DEF AwareInv
  <2>4. ASSUME NEW params \in Params, SetBase(params)
        PROVE  AwareInv'
    <3>1. base'.results = Blank /\ aware' = aware
      BY <1>1, <2>4, ResetBase DEF SetBase
    <3>2. AwareRight(aware', base')
      <4> SUFFICES ASSUME NEW p \in Properties, aware.results[p] # None
                   PROVE  /\ aware.results[p].part = PartOf(aware.atoms, aware.last, p)
                          /\ p \notin Additive => aware.results[p].base = None
                          /\ p \in Additive =>
                               p \in aware.used /\ \E q \in aware.used : base'.results[q] = None
        BY <3>1 DEF AwareRight
      <4>1. base'.results[p] = None
        BY <3>1, BlankType
      <4> QED
        BY <1>1, <4>1 DEF AwareRight
    <3> QED
      BY <1>1, <2>1, <3>1, <3>2 DEF AwareInv
  <2>5. ASSUME NEW f \in Options(Fields), SetAware(f)
        PROVE  AwareInv'
    <3>1. aware'.results = Blank
      BY <1>1, <2>5, EmptiedAware DEF SetAware
    <3>2. AwareRight(aware', base')
      BY <3>1, BlankAware
    <3> QED
      BY <3>1, <3>2 DEF AwareInv
  <2>6. ASSUME NEW a \in Atoms, NEW p \in Properties,
               \/ \E m \in Members : AskSymmetrix(m, a, p)
               \/ AskContribution(a, p) \/ AskEnsemble(a, p)
        PROVE  UNCHANGED <<base, aware>>
    BY <2>6 DEF AskSymmetrix, AskContribution, AskEnsemble
  <2>7. ASSUME NEW f \in Options(Fields),
               \/ \E m \in Members : SetSymmetrix(m, f)
               \/ SetContribution(f) \/ SetEnsemble(f)
        PROVE  UNCHANGED <<base, aware>>
    BY <2>7 DEF SetSymmetrix, SetContribution, SetEnsemble
  <2>8. CASE \E a \in Atoms, p \in Properties : Ask(a, p)
    BY <1>2, <2>1, <2>2, <2>3, <2>6, <2>8 DEF Ask
  <2>9. CASE \E f \in Options(Fields) : Set(f)
    BY <1>2, <2>1, <2>5, <2>7, <2>9 DEF Set
  <2>10. CASE \E params \in Params : SetBase(params)
    BY <2>4, <2>10
  <2> QED
    BY <1>3, <2>8, <2>9, <2>10 DEF Next
<1> QED
  BY <1>2, <1>3 DEF vars

\* What a field-aware calculator serves is the sum for the present settings of
\* the base and the asked atoms and field (FieldAwareCalculator.check_state and
\* calculate), though settings, field and base results change under it.
THEOREM AwareServed ==
  ASSUME BaseApart
  PROVE  Spec => []AwareServes
<1>1. Init => AwareInv
  <2> SUFFICES ASSUME Init PROVE AwareInv
    OBVIOUS
  <2>1. aware.results = Blank
    BY DEF Init, FreshAware
  <2> QED
    BY <2>1, BlankAware DEF AwareInv
<1>2. ASSUME Standing, AwareInv PROVE AwareServes
  <2> DEFINE f == members[FieldCalc]
  <2> SUFFICES ASSUME NEW a \in Atoms, NEW p \in Properties,
                      ~AwareChanged(aware, base, f, a), aware.results[p] # None
               PROVE  aware.results[p] = Sum(IF p \in Additive THEN BaseValue(base, a) ELSE None,
                                             RightPart(a, p))
    BY DEF AwareServes
  <2>1. /\ aware.atoms = a.structure /\ aware.last = Resolved(f, a)
        /\ aware.used # {} => base.atoms = a.structure /\ \A q \in aware.used : base.results[q] # None
    BY DEF AwareChanged, Moved
  <2>2. /\ aware.results[p].part = PartOf(a.structure, Resolved(f, a), p)
        /\ p \notin Additive => aware.results[p].base = None
        /\ p \in Additive => aware.results[p].base = BaseValue(base, a)
    BY <1>2, <2>1 DEF AwareInv, AwareRight, BaseValue
  <2>3. PartOf(a.structure, Resolved(f, a), p) = RightPart(a, p)
    BY DEF PartOf, RightPart
  <2>4. PICK sum : sum = aware.results[p]
    OBVIOUS
  <2>5. sum \in SumType
    BY <1>2, <2>4 DEF Standing, TypeOK, AwareType, Results
  <2>6. sum = [base |-> sum.base, part |-> sum.part]
    BY <2>5 DEF SumType
  <2> QED
    BY <2>2, <2>3, <2>4, <2>6 DEF Sum
<1> QED
  BY <1>1, <1>2, AwareNext, StandingHolds, PTL DEF Spec

-----------------------------------------------------------------------------
(***************************************************************************)
(* The ensemble                                                            *)
(***************************************************************************)
LEMMA EnsembleNext ==
  ASSUME EnsembleApart, Standing, EnsembleInv, [Next]_vars
  PROVE  EnsembleInv'
<1>1. /\ use \in Uses /\ EnsembleRight(ensemble, members)
      /\ "ensemble" \notin use.asked => ensemble.results = Blank
      /\ "ensemble" \in use.asked => use.direct = {}
      /\ members \in [Members -> SymmetrixType] /\ ensemble \in EnsembleType
      /\ FieldCalc \in Members
  BY CalculatorsAssumption DEF Standing, TypeOK, EnsembleInv, EnsembleApart
<1>2. CASE UNCHANGED <<use, members, ensemble>>
  BY <1>2 DEF EnsembleInv
<1>3. CASE Next
  <2>1. use' = use
    BY <1>3 DEF Next
  \* Below the ensemble a member changes without an evaluation.
  <2>2. ASSUME NEW m \in Members, NEW d, members' = [members EXCEPT ![m] = d],
               d.atoms = members[m].atoms, d.last = members[m].last, ensemble' = ensemble
        PROVE  EnsembleInv'
    <3>1. \A n \in Members : members'[n].atoms = members[n].atoms /\ members'[n].last = members[n].last
      BY <1>1, <2>2
    <3>2. EnsembleRight(ensemble, members')
      BY <1>1, <3>1, EnsembleRightKept
    <3> QED
      BY <1>1, <2>1, <2>2, <3>2 DEF EnsembleInv
  <2>3. ASSUME NEW a \in Atoms, NEW p \in Properties, AskEnsemble(a, p)
        PROVE  EnsembleInv'
    <3>1. "ensemble" \in use.asked /\ EnsembleRight(ensemble', members')
      BY <1>1, <2>3, EnsembleStep
    <3> QED
      BY <2>1, <3>1 DEF EnsembleInv
  <2>4. ASSUME NEW a \in Atoms, NEW p \in Properties, NEW m \in Members, AskSymmetrix(m, a, p)
        PROVE  EnsembleInv'
    <3>1. m \in use.direct /\ ensemble' = ensemble
      BY <2>4 DEF AskSymmetrix
    <3>2. ensemble'.results = Blank
      BY <1>1, <3>1
    <3>3. EnsembleRight(ensemble', members')
      BY <3>2, BlankEnsemble
    <3> QED
      BY <3>2, <3>3 DEF EnsembleInv
  <2>5. ASSUME NEW a \in Atoms, NEW p \in Properties, AskContribution(a, p)
        PROVE  EnsembleInv'
    BY <1>1, <2>2, <2>5, ContributionStep
  <2>6. ASSUME NEW a \in Atoms, NEW p \in Properties, AskAware(a, p)
        PROVE  EnsembleInv'
    <3>1. ensemble' = ensemble
      BY <2>6 DEF AskAware
    <3> QED
      BY <1>1, <2>2, <2>6, <3>1, AwareStep
  <2>7. ASSUME NEW f \in Options(Fields), NEW m \in Members,
               \/ SetSymmetrix(m, f)
               \/ m = FieldCalc /\ (SetContribution(f) \/ SetAware(f))
        PROVE  EnsembleInv'
    <3>1. members' = [members EXCEPT ![m] = Overridden(@, f)] /\ ensemble' = ensemble
      BY <2>7 DEF SetSymmetrix, SetContribution, SetAware
    <3> QED
      BY <2>2, <3>1, SetMember
  <2>8. ASSUME NEW f \in Options(Fields), SetEnsemble(f)
        PROVE  EnsembleInv'
    <3>1. ensemble'.results = Blank
      BY <1>1, <2>8, EmptiedEnsemble DEF SetEnsemble
    <3>2. EnsembleRight(ensemble', members')
      BY <3>1, BlankEnsemble
    <3> QED
      BY <3>1, <3>2 DEF EnsembleInv
  <2>9. ASSUME NEW a \in Atoms, NEW p \in Properties, AskBase(a, p)
        PROVE  UNCHANGED <<members, ensemble>>
    BY <2>9 DEF AskBase
  <2>10. CASE \E a \in Atoms, p \in Properties : Ask(a, p)
    BY <1>2, <2>1, <2>3, <2>4, <2>5, <2>6, <2>9, <2>10 DEF Ask
  <2>11. CASE \E f \in Options(Fields) : Set(f)
    BY <1>1, <2>7, <2>8, <2>11 DEF Set
  <2>12. CASE \E params \in Params : SetBase(params)
    BY <1>2, <2>1, <2>12 DEF SetBase
  <2> QED
    BY <1>3, <2>10, <2>11, <2>12 DEF Next
<1> QED
  BY <1>2, <1>3 DEF vars

\* The committee an ensemble serves is that of all members for the asked
\* structure and fields (SymmetrixEnsemble.check_state and calculate), also after
\* a member threw between others.  Energy and forces have the D3 terms of members
\* with dispersion, free_energy and energies none (_add_dispersion_results).
THEOREM EnsembleServed ==
  ASSUME EnsembleApart
  PROVE  Spec => []EnsembleServes
<1>1. Init => EnsembleInv
  <2> SUFFICES ASSUME Init PROVE EnsembleInv
    OBVIOUS
  <2>1. ensemble.results = Blank
    BY DEF Init, FreshEnsemble
  <2> QED
    BY <2>1, BlankEnsemble DEF EnsembleInv
<1>2. ASSUME Standing, EnsembleInv PROVE EnsembleServes
  <2> SUFFICES ASSUME NEW a \in Atoms, NEW p \in Properties,
                      ~EnsembleChanged(ensemble, members, a), ensemble.results[p] # None
               PROVE  ensemble.results[p] = [m \in Members |-> RightValue(m, a, p)]
    BY DEF EnsembleServes
  <2>1. /\ ensemble.atoms = a.structure
        /\ \A m \in Members : /\ members[m].atoms = a.structure
                              /\ m \in Coupled => members[m].last = Resolved(members[m], a)
    BY DEF EnsembleChanged, Changed, Moved
  <2>2. ensemble.results[p] \in Committee
    BY <1>2 DEF Standing, TypeOK, EnsembleType, Results
  <2>3. ASSUME NEW m \in Members PROVE ensemble.results[p][m] = RightValue(m, a, p)
    <3>1. ensemble.results[p][m] = MemberValue(m, a.structure, members[m].last, p)
      BY <1>2, <2>1 DEF EnsembleInv, EnsembleRight
    <3>2. MemberValue(m, a.structure, members[m].last, p)
            = MemberValue(m, a.structure, Resolved(members[m], a), p)
      BY <2>1, UncoupledValue
    <3> QED
      BY <3>1, <3>2 DEF MemberValue, RightValue
  <2> QED
    BY <2>2, <2>3 DEF Committee
<1> QED
  BY <1>1, <1>2, EnsembleNext, StandingHolds, PTL DEF Spec
=============================================================================
