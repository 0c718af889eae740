----------------------------- MODULE Calculators -----------------------------
(***************************************************************************)
(* The ASE calculators of the package and what each keeps of its results:  *)
(* Symmetrix, FieldContributionCalculator and FieldAwareCalculator         *)
(* (calculator.py) and SymmetrixEnsemble (ensemble.py).  They share each   *)
(* other: a contribution evaluates its field calculator, a field-aware     *)
(* calculator asks a contribution and a base calculator, an ensemble runs  *)
(* its members, and an application may ask any of them directly.  Each     *)
(* decides from what it remembers, and from what its parts remember,       *)
(* whether its cached results still hold.                                  *)
(*                                                                         *)
(* A number computed by a model is represented by what it was computed     *)
(* from.  A call runs to its end before the next one, so it is one action; *)
(* every evaluation in it may throw.                                       *)
(***************************************************************************)
EXTENDS Naturals

CONSTANTS
  Structures,  \* what compare_atoms tells apart: positions, cell, species, pbc
  Fields,      \* electric fields
  Zero,        \* the zero field, also that of atoms without a field entry
  Size,        \* number of ensemble members
  Coupled,     \* the Symmetrix calculators with field coupling (MACEField)
  Dispersed,   \* those made with dispersion=True
  FieldCalc,   \* the one below the contribution
  Params,      \* the settings of the base calculator, an arbitrary one of ASE
  Uses,        \* the ways an application may use them: what it asks itself
  None

Members == 1..Size

\* Next to the Symmetrix calculators.
Kinds == {"contribution", "base", "aware", "ensemble"}

\* _validate_compatibility: the members agree on field coupling.  A contribution
\* needs a calculator that has it.
ASSUME CalculatorsAssumption ==
  /\ Size \in Nat
  /\ Zero \in Fields
  /\ Coupled \in {{}, Members} /\ Dispersed \subseteq Members
  /\ FieldCalc \in Members
  /\ Uses \subseteq [direct : SUBSET Members, asked : SUBSET Kinds]
  /\ FieldCalc \in Coupled \/ \A u \in Uses : u.asked \cap {"contribution", "aware"} = {}
  /\ None \notin Structures \cup Fields

\* What an application passes in: a structure and the field in atoms.info.
Atoms == [structure : Structures, info : Fields]

\* "becs" stands for the responses, computed only when they are asked for.  The
\* stress is left out: a Symmetrix calculator treats it like a response that has
\* D3 terms, the other ones like forces.
Additive == {"energy", "free_energy", "energies", "forces"}
Properties == Additive \cup {"becs"}

\* Those that a request gets D3 terms for.
DispersionProperties == {"energy", "forces"}

\* What the results are made of, and what stands for the missing ones.
Options(S) == S \cup {None}
Value == [structure : Structures, field : Fields, d3 : BOOLEAN]
PartType == [value : Options(Value), reference : Options(Value)]
BaseValues == [structure : Structures, params : Params]
SumType == [base : Options(BaseValues), part : PartType]
Committee == [Members -> Value]

ASSUME NoneAssumption ==
  /\ None \notin Value /\ None \notin PartType
  /\ None \notin BaseValues /\ None \notin SumType
  /\ None \notin Committee

VARIABLES
  use,           \* which members (direct) and which others (asked) are asked directly
  members,       \* the Symmetrix calculators
  contribution,  \* the FieldContributionCalculator over members[FieldCalc]
  base, aware,   \* the FieldAwareCalculator over base and contribution
  ensemble,      \* the SymmetrixEnsemble of all members
  answered       \* the last call was a request, and it returned a result

vars == <<use, members, contribution, base, aware, ensemble, answered>>

-----------------------------------------------------------------------------
(***************************************************************************)
(* What they inherit from ase.calculators.calculator.Calculator            *)
(***************************************************************************)
Blank == [p \in Properties |-> None]

\* Calculator.check_state finds a change.
Moved(c, a) == c.atoms # a.structure

\* Calculator.reset, which get_property calls on a change.
Reset(c) == [c EXCEPT !.atoms = None, !.results = Blank]

\* get_property goes on from this state.
Refreshed(c, changed) == IF changed THEN Reset(c) ELSE c

\* Calculator.calculate only notes the atoms.
Attached(c, a) == [c EXCEPT !.atoms = a.structure]

-----------------------------------------------------------------------------
(***************************************************************************)
(* Symmetrix                                                               *)
(***************************************************************************)
\* electric_field, atoms, _macefield_electric_field and results.
FreshSymmetrix == [override |-> None, atoms |-> None, last |-> None, results |-> Blank]

\* _resolve_electric_field
Resolved(c, a) == IF c.override # None THEN c.override ELSE a.info

\* Mutant: check_state is that of ASE, which does not compare atoms.info.
IgnoresField(m, c, a) == Moved(c, a)

\* check_state
Changed(m, c, a) == Moved(c, a) \/ (m \in Coupled /\ c.last # Resolved(c, a))

\* What the model computes for a structure in a field.
Evaluation(m, s, f) ==
  [structure |-> s, field |-> IF m \in Coupled THEN f ELSE Zero, d3 |-> FALSE]

\* Energies and forces are collected in any case.
Collected(m, c, a, p) ==
  [q \in Properties |-> IF q \in Additive \cup {p}
                        THEN Evaluation(m, a.structure, Resolved(c, a)) ELSE None]

\* _add_dispersion_results: the D3 terms of the property asked for; those of the
\* energy also go to free_energy.  Asked for itself, free_energy gets none, and
\* energies never gets any.
AddDispersion(results, p) ==
  [q \in Properties |->
     IF p \in DispersionProperties /\ (q = p \/ (p = "energy" /\ q = "free_energy"))
     THEN [results[q] EXCEPT !.d3 = TRUE] ELSE results[q]]

\* calculate, before the dispersion is added.
Evaluated(m, c, a, p) ==
  [Attached(c, a) EXCEPT !.results = Collected(m, c, a, p),
                         !.last = IF m \in Coupled THEN Resolved(c, a) ELSE @]

\* calculate: where it may throw, and what it ends with.
Failures(m, c, a, p) ==
  {Attached(c, a)} \cup (IF m \in Dispersed THEN {Evaluated(m, c, a, p)} ELSE {})

Calculated(m, c, a, p) ==
  LET done == Evaluated(m, c, a, p) IN
  IF m \in Dispersed
  THEN [done EXCEPT !.results = AddDispersion(done.results, p)] ELSE done

\* implemented_properties
Implemented(m) == IF m \in Coupled THEN Properties ELSE Additive

\* get_property
AskSymmetrix(m, a, p) ==
  /\ m \in use.direct /\ p \in Implemented(m)
  /\ LET c == Refreshed(members[m], Changed(m, members[m], a)) IN
     \/ /\ c.results[p] # None
        /\ answered' = TRUE
        /\ UNCHANGED members
     \/ /\ c.results[p] = None
        /\ \/ /\ members' = [members EXCEPT ![m] = Calculated(m, c, a, p)]
              /\ answered' = TRUE
           \/ /\ \E failed \in Failures(m, c, a, p) : members' = [members EXCEPT ![m] = failed]
              /\ answered' = FALSE
  /\ UNCHANGED <<contribution, base, aware, ensemble>>

\* The setter of electric_field.
Overridden(c, f) == [c EXCEPT !.override = f, !.results = Blank]

\* Setting one that is not used would not be noticed.
SetSymmetrix(m, f) ==
  /\ \/ m \in use.direct \/ "ensemble" \in use.asked
     \/ m = FieldCalc /\ use.asked \cap {"contribution", "aware"} # {}
  /\ members' = [members EXCEPT ![m] = Overridden(@, f)]
  /\ answered' = FALSE
  /\ UNCHANGED <<contribution, base, aware, ensemble>>

-----------------------------------------------------------------------------
(***************************************************************************)
(* FieldContributionCalculator                                             *)
(***************************************************************************)
\* An additive property is a value minus its zero-field reference, a response
\* is a value; in a zero field the contribution is 0 without an evaluation.
Part(v, r) == [value |-> v, reference |-> r]
NoPart == Part(None, None)

\* atoms, _last_electric_field, results, and the zero-field reference: the
\* atoms it is of and its results.
FreshContribution ==
  [atoms |-> None, last |-> None, results |-> Blank, zeroAtoms |-> None, zero |-> None]

ContributionChanged(c, f, a) == Moved(c, a) \/ c.last # Resolved(f, a)

\* Mutant: a reference is current when there is one.
AnyReference(c, a) == c.zero # None

\* _zero_reference_is_current
ReferenceCurrent(c, a) == c.zero # None /\ c.zeroAtoms = a.structure

\* The reference that calculate ends up with.
Referenced(c, a) ==
  IF ReferenceCurrent(c, a) THEN c
  ELSE [c EXCEPT !.zero = Evaluation(FieldCalc, a.structure, Zero),
                 !.zeroAtoms = a.structure]

\* Mutant: the zero-field reference is not subtracted.
Undifferenced(x, f, a, p) ==
  [q \in Properties |->
     IF q \in Additive \cup {p} THEN Evaluation(FieldCalc, a.structure, Resolved(f, a)) ELSE None]

\* The results that calculate ends with, x being the contribution by then.
Parts(x, f, a, p) ==
  LET value == Evaluation(FieldCalc, a.structure, Resolved(f, a)) IN
  [q \in Properties |->
     IF q \in Additive
     THEN IF Resolved(f, a) = Zero THEN NoPart
          ELSE IF p \in Additive THEN Part(value, x.zero) ELSE None
     ELSE IF q = p THEN Part(value, None) ELSE None]

\* calculate evaluates the field calculator unless an additive property is
\* asked for in a zero field.
Evaluates(f, a, p) == ~(Resolved(f, a) = Zero /\ p \in Additive)

NeedsReference(f, a, p) == Resolved(f, a) # Zero /\ p \in Additive

ContributionCalculated(c, f, a, p) ==
  LET x == IF NeedsReference(f, a, p) THEN Referenced(Attached(c, a), a) ELSE Attached(c, a) IN
  [x EXCEPT !.results = Parts(x, f, a, p), !.last = Resolved(f, a)]

ContributionFailures(c, f, a, p) ==
  IF ~Evaluates(f, a, p) THEN {}
  ELSE {Attached(c, a)} \cup
       (IF NeedsReference(f, a, p) THEN {Referenced(Attached(c, a), a)} ELSE {})

\* get_property of contribution c over field calculator f: the contribution and
\* the field calculator afterwards, and whether there was an answer.
ContributionOutcomes(c, f, a, p) ==
  LET x == Refreshed(c, ContributionChanged(c, f, a)) IN
  IF x.results[p] # None THEN {[contribution |-> x, field |-> f, ok |-> TRUE]}
  ELSE {[contribution |-> ContributionCalculated(x, f, a, p),
         field |-> [f EXCEPT !.results = Blank], ok |-> TRUE]}
       \cup {[contribution |-> y, field |-> f, ok |-> FALSE] :
             y \in ContributionFailures(x, f, a, p)}

AskContribution(a, p) ==
  /\ "contribution" \in use.asked
  /\ \E o \in ContributionOutcomes(contribution, members[FieldCalc], a, p) :
       /\ contribution' = o.contribution
       /\ members' = [members EXCEPT ![FieldCalc] = o.field]
       /\ answered' = o.ok
  /\ UNCHANGED <<base, aware, ensemble>>

Emptied(c) == [c EXCEPT !.results = Blank]

SetContribution(f) ==
  /\ "contribution" \in use.asked
  /\ contribution' = Emptied(contribution)
  /\ members' = [members EXCEPT ![FieldCalc] = Overridden(@, f)]
  /\ answered' = FALSE
  /\ UNCHANGED <<base, aware, ensemble>>

-----------------------------------------------------------------------------
(***************************************************************************)
(* FieldAwareCalculator and its base                                       *)
(***************************************************************************)
\* A calculator of ASE with settings, which reset it when they change.
FreshBase(params) == [atoms |-> None, results |-> Blank, params |-> params]

BaseValue(b, a) == [structure |-> a.structure, params |-> b.params]

\* It computes all additive properties, or only what is asked for.
BaseCalculated(b, a, qs) ==
  [Attached(b, a) EXCEPT !.results =
     [q \in Properties |-> IF q \in qs THEN BaseValue(b, a) ELSE None]]

BaseOutcomes(b, a, p) ==
  LET x == Refreshed(b, Moved(b, a)) IN
  IF x.results[p] # None THEN {[base |-> x, ok |-> TRUE]}
  ELSE {[base |-> BaseCalculated(x, a, qs), ok |-> TRUE] : qs \in {Additive, {p}}}
       \cup {[base |-> Attached(x, a), ok |-> FALSE]}

AskBase(a, p) ==
  /\ "base" \in use.asked /\ p \in Additive
  /\ \E o \in BaseOutcomes(base, a, p) : base' = o.base /\ answered' = o.ok
  /\ UNCHANGED <<members, contribution, aware, ensemble>>

SetBase(params) ==
  /\ use.asked \cap {"base", "aware"} # {}
  /\ base' = [Reset(base) EXCEPT !.params = params]
  /\ answered' = FALSE
  /\ UNCHANGED <<members, contribution, aware, ensemble>>

\* atoms, _last_electric_field, results and _base_properties.
FreshAware == [atoms |-> None, last |-> None, results |-> Blank, used |-> {}]

Sum(b, part) == [base |-> b, part |-> part]

\* Mutant: the base calculator is not looked at.
IgnoresBase(w, b, f, a) == Moved(w, a) \/ w.last # Resolved(f, a)

AwareChanged(w, b, f, a) ==
  \/ Moved(w, a)
  \/ /\ w.used # {}
     /\ Moved(b, a) \/ \E q \in w.used : b.results[q] = None
  \/ w.last # Resolved(f, a)

\* Mutant: the base properties of earlier sums are kept.
KeepsUsed(w, f, a, p, total) ==
  [Attached(w, a) EXCEPT !.results = [Blank EXCEPT ![p] = total],
                         !.used = @ \cup ({p} \cap Additive), !.last = Resolved(f, a)]

\* calculate, given the parts' answers.
AwareCalculated(w, f, a, p, total) ==
  [Attached(w, a) EXCEPT !.results = [Blank EXCEPT ![p] = total],
                         !.used = {p} \cap Additive, !.last = Resolved(f, a)]

\* get_property: ask the contribution, then the base for additive properties.
AwareAnswers(w, a, p) ==
  \E o \in ContributionOutcomes(contribution, members[FieldCalc], a, p) :
    /\ contribution' = o.contribution
    /\ members' = [members EXCEPT ![FieldCalc] = o.field]
    /\ \/ /\ ~o.ok
          /\ aware' = Attached(w, a) /\ UNCHANGED base
          /\ answered' = FALSE
       \/ /\ o.ok /\ p \notin Additive
          /\ aware' = AwareCalculated(w, o.field, a, p, Sum(None, o.contribution.results[p]))
          /\ UNCHANGED base
          /\ answered' = TRUE
       \/ /\ o.ok /\ p \in Additive
          /\ \E n \in BaseOutcomes(base, a, p) :
               /\ base' = n.base
               /\ aware' = IF n.ok
                           THEN AwareCalculated(w, o.field, a, p,
                                  Sum(n.base.results[p], o.contribution.results[p]))
                           ELSE Attached(w, a)
               /\ answered' = n.ok

AskAware(a, p) ==
  /\ "aware" \in use.asked
  /\ LET w == Refreshed(aware, AwareChanged(aware, base, members[FieldCalc], a)) IN
     IF w.results[p] # None
     THEN answered' = TRUE /\ UNCHANGED <<members, contribution, base, aware>>
     ELSE AwareAnswers(w, a, p)
  /\ UNCHANGED ensemble

SetAware(f) ==
  /\ "aware" \in use.asked
  /\ aware' = Emptied(aware)
  /\ contribution' = Emptied(contribution)
  /\ members' = [members EXCEPT ![FieldCalc] = Overridden(@, f)]
  /\ answered' = FALSE
  /\ UNCHANGED <<base, ensemble>>

-----------------------------------------------------------------------------
(***************************************************************************)
(* SymmetrixEnsemble                                                       *)
(***************************************************************************)
\* A result is the committee: the mean and the variance follow from it.
FreshEnsemble == [atoms |-> None, results |-> Blank]

\* Mutant: the members are not looked at.
IgnoresMembers(e, ms, a) == Moved(e, a)

EnsembleChanged(e, ms, a) == Moved(e, a) \/ \E m \in Members : Changed(m, ms[m], a)

\* calculate runs the members in order, whether or not their results still
\* hold, and does not reset them; what the ensemble keeps is what
\* get_property has kept of it.
MembersUpTo(ms, n, a, p) ==
  [m \in Members |-> IF m < n THEN Calculated(m, ms[m], a, p) ELSE ms[m]]

AskEnsemble(a, p) ==
  /\ "ensemble" \in use.asked /\ \A m \in Members : p \in Implemented(m)
  /\ LET e == Refreshed(ensemble, EnsembleChanged(ensemble, members, a)) IN
     \/ /\ e.results[p] # None
        /\ answered' = TRUE
        /\ UNCHANGED <<members, ensemble>>
     \/ /\ e.results[p] = None
        /\ members' = MembersUpTo(members, Size + 1, a, p)
        /\ ensemble' = [Attached(e, a) EXCEPT !.results =
                          [@ EXCEPT ![p] = [m \in Members |-> members'[m].results[p]]]]
        /\ answered' = TRUE
     \/ /\ e.results[p] = None
        /\ \E n \in Members : \E failed \in Failures(n, members[n], a, p) :
             members' = [MembersUpTo(members, n, a, p) EXCEPT ![n] = failed]
        /\ ensemble' = Attached(e, a)
        /\ answered' = FALSE
  /\ UNCHANGED <<contribution, base, aware>>

SetEnsemble(f) ==
  /\ "ensemble" \in use.asked
  /\ members' = [m \in Members |-> Overridden(members[m], f)]
  /\ ensemble' = Emptied(ensemble)
  /\ answered' = FALSE
  /\ UNCHANGED <<contribution, base, aware>>

-----------------------------------------------------------------------------
Init ==
  /\ use \in Uses
  /\ members = [m \in Members |-> FreshSymmetrix]
  /\ contribution = FreshContribution
  /\ \E params \in Params : base = FreshBase(params)
  /\ aware = FreshAware
  /\ ensemble = FreshEnsemble
  /\ answered = FALSE

Ask(a, p) ==
  \/ \E m \in Members : AskSymmetrix(m, a, p)
  \/ AskContribution(a, p) \/ AskBase(a, p) \/ AskAware(a, p) \/ AskEnsemble(a, p)

Set(f) ==
  \/ \E m \in Members : SetSymmetrix(m, f)
  \/ SetContribution(f) \/ SetAware(f) \/ SetEnsemble(f)

Next ==
  /\ \/ \E a \in Atoms, p \in Properties : Ask(a, p)
     \/ \E f \in Options(Fields) : Set(f)
     \/ \E params \in Params : SetBase(params)
  /\ UNCHANGED use

Spec == Init /\ [][Next]_vars

-----------------------------------------------------------------------------
Results(S) == [Properties -> S \cup {None}]

SymmetrixType ==
  [override : Options(Fields), atoms : Options(Structures), last : Options(Fields),
   results : Results(Value)]
ContributionType ==
  [atoms : Options(Structures), last : Options(Fields), results : Results(PartType),
   zeroAtoms : Options(Structures), zero : Options(Value)]
BaseType ==
  [atoms : Options(Structures), results : Results(BaseValues), params : Params]
AwareType ==
  [atoms : Options(Structures), last : Options(Fields),
   results : Results(SumType), used : SUBSET Additive]
EnsembleType == [atoms : Options(Structures), results : Results(Committee)]

TypeOK ==
  /\ use \in Uses
  /\ members \in [Members -> SymmetrixType]
  /\ contribution \in ContributionType
  /\ base \in BaseType
  /\ aware \in AwareType
  /\ ensemble \in EnsembleType
  /\ answered \in BOOLEAN

-----------------------------------------------------------------------------
(***************************************************************************)
(* What a calculator would serve from its cache is right.  A request for   *)
(* atoms it finds no change for, and a property it has a result of, is     *)
(* answered without a computation: for every such request the result must  *)
(* be what a computation for this request would give now, whatever was     *)
(* asked of it and of its parts, changed or failed before.  With           *)
(* dispersion that is, as the manual says, the energy and the forces with  *)
(* their D3 terms, and free_energy and energies without any.               *)
(***************************************************************************)
RightValue(m, a, p) ==
  [Evaluation(m, a.structure, Resolved(members[m], a))
     EXCEPT !.d3 = m \in Dispersed /\ p \in DispersionProperties]

RightPart(a, p) ==
  LET f == Resolved(members[FieldCalc], a)
      value == Evaluation(FieldCalc, a.structure, f)
  IN IF p \notin Additive THEN Part(value, None)
     ELSE IF f = Zero THEN NoPart
     ELSE Part(value, Evaluation(FieldCalc, a.structure, Zero))

\* Symmetrix.check_state and calculate: a cached result is that of the asked
\* structure in the field that applies now, and energy and forces contain the D3
\* terms of a calculator that has them.  A member that is not asked itself serves nobody:
\* the other calculators evaluate it without looking at its results.
MembersServe ==
  \A m \in use.direct, a \in Atoms, p \in Properties :
    ~Changed(m, members[m], a) /\ members[m].results[p] # None
      => members[m].results[p] = RightValue(m, a, p)

\* FieldContributionCalculator: a cached contribution is that of the asked
\* structure and field, with the zero-field reference of the same structure.
ContributionServes ==
  \A a \in Atoms, p \in Properties :
    ~ContributionChanged(contribution, members[FieldCalc], a) /\ contribution.results[p] # None
      => contribution.results[p] = RightPart(a, p)

\* FieldAwareCalculator: a cached sum is what the base calculator, with its
\* present settings, and the contribution give for the asked atoms.
AwareServes ==
  \A a \in Atoms, p \in Properties :
    ~AwareChanged(aware, base, members[FieldCalc], a) /\ aware.results[p] # None
      => aware.results[p] = Sum(IF p \in Additive THEN BaseValue(base, a) ELSE None,
                                RightPart(a, p))

\* SymmetrixEnsemble: the cached committee is that of all members for the asked
\* structure and the field that applies to each of them now, for energy and
\* forces with the D3 terms of the members that have them.
EnsembleServes ==
  \A a \in Atoms, p \in Properties :
    ~EnsembleChanged(ensemble, members, a) /\ ensemble.results[p] # None
      => ensemble.results[p] = [m \in Members |-> RightValue(m, a, p)]

\* Calculator.get_property after a successful calculate: the result is there and
\* the same request again is served from the cache, whatever the calculation did
\* to the calculators below.
AnswersStand ==
  [][\A a \in Atoms, p \in Properties :
       LET f == members[FieldCalc]' IN
       answered' =>
         /\ \A m \in Members :
              AskSymmetrix(m, a, p) =>
                ~Changed(m, members[m]', a) /\ members[m].results[p]' # None
         /\ AskContribution(a, p) =>
              ~ContributionChanged(contribution', f, a) /\ contribution.results[p]' # None
         /\ AskBase(a, p) => ~Moved(base', a) /\ base.results[p]' # None
         /\ AskAware(a, p) =>
              ~AwareChanged(aware', base', f, a) /\ aware.results[p]' # None
         /\ AskEnsemble(a, p) =>
              ~EnsembleChanged(ensemble', members', a) /\ ensemble.results[p]' # None]_vars
=============================================================================
