------------------------- MODULE PairExchangeProofs -------------------------
(***************************************************************************)
(* Proofs about PairExchange for any set of ranks and any number of force  *)
(* evaluations: the types, the graph a rank works on, the phase it leaves  *)
(* behind, and that the collectives and both exchanges of a step match.    *)
(***************************************************************************)
EXTENDS PairExchange, SequenceTheorems, TLAPS

\* Where a rank stands in the evaluation.
Prefixing == {"enter", "allreduce", "prepare"}
Outside == Prefixing \cup {"ready", "begin"}
Exchanges == {"scatter", "forward", "forwardWait", "continue", "reverse",
              "reverseWait", "finish"}
Working == Exchanges \cup {"record", "gather"}
Unrecorded == Prefixing \cup {"begin", "record"}

\* Only ranks of the world run; only a model with two layers exchanges.
Placed(r) ==
  /\ r \notin World => pc[r] = "ready"
  /\ pc[r] \in Exchanges => Exchanging

\* A rank prepares at most one graph in a step.
Counted(r) ==
  /\ native[r].counter <= step
  /\ pc[r] \in Prefixing => native[r].counter < step

\* Only a retained plan under a driver that goes on leaves a phase active.
Released(r) ==
  /\ native[r].phase # "idle" => Exchanging /\ Prepared
  /\ pc[r] \in Outside /\ native[r].phase # "idle"
       => conf.driver = "library" /\ ~native[r].tiled

\* The pair style's token and fingerprint are those of the atoms it has, and a
\* token the evaluator would accept names the graph of this step.
Settled(r) ==
  /\ pair[r].token # 0
  /\ pair[r].fingerprint = atoms[r]
  /\ pair[r].token = native[r].generation => native[r].graph = Requested(r)

\* When that holds, and that every rank rebuilds exactly on a new list.
Tracked(r) ==
  r \in World /\ Prepared =>
    /\ pc[r] \in Working \cup {"begin"} => Settled(r)
    /\ pc[r] \in Prefixing /\ ago = 1 => Settled(r)
    /\ pc[r] = "ready" /\ fault = "none" /\ step > 0 => Settled(r)
    /\ pc[r] \in Working => native[r].graph = Requested(r)
    /\ pc[r] \notin {"ready", "enter"} => (pair[r].rebuild <=> ago = 0)

RInv(r) == Placed(r) /\ Counted(r) /\ Released(r) /\ Tracked(r)

\* The inductive invariant of what a rank does alone.
LocalInv == TypeOK /\ \A r \in Ranks : RInv(r)

\* The rows a rank has computed or received in this step.
RowsWritten(r) ==
  /\ ~Prepared => pair[r].h1 = "communicated"
  /\ Exchanging =>
       /\ pc[r] \in {"record", "gather", "scatter"} => rows[r][OwnBuffer(r)][r] = step
       /\ pc[r] \in {"forward", "forwardWait"} => rows[r][pair[r].h1][r] = step
       /\ pc[r] = "continue" => \A o \in World : rows[r][pair[r].h1][o] = step

\* What has been added up in the adjoint rows.
AdjointsAdded(r) ==
  Exchanging =>
    /\ pc[r] \in {"record", "gather", "scatter", "forward", "forwardWait", "continue"}
         /\ Prepared /\ native[r].tiled => adjoint[r] = {}
    /\ pc[r] \in {"reverse", "reverseWait"} => adjoint[r] = {<<r, step>>}
    /\ pc[r] = "finish" => adjoint[r] = World \X {step}

\* How many messages of this step a rank has sent to, and taken from, each other.
Sent(r) ==
  IF pc[r] \in {"ready", "reverseWait", "finish"} THEN 2
  ELSE IF pc[r] \in {"forwardWait", "continue", "reverse"} THEN 1 ELSE 0
Taken(r) ==
  IF pc[r] \in {"ready", "finish"} THEN 2
  ELSE IF pc[r] \in {"continue", "reverse", "reverseWait"} THEN 1 ELSE 0

Forward == [kind |-> "forward", value |-> step]
Reverse == [kind |-> "reverse", value |-> step]

\* A channel holds what its sender has sent and its receiver not yet taken.
Carried(s, r) ==
  \/ Sent(s) = Taken(r) /\ chan[s][r] = <<>>
  \/ Sent(s) = 1 /\ Taken(r) = 0 /\ chan[s][r] = <<Forward>>
  \/ Sent(s) = 2 /\ Taken(r) = 1 /\ chan[s][r] = <<Reverse>>
  \/ Sent(s) = 2 /\ Taken(r) = 0 /\ chan[s][r] = <<Forward, Reverse>>

Channels ==
  \A s, r \in World :
    IF Exchanging /\ s # r THEN Carried(s, r) ELSE chan[s][r] = <<>>

\* Every rank sends a record on a new list and only then; the root takes them all.
Gathering == pc[Root] \in Unrecorded \cup {"gather"}
Recorded ==
  /\ \A r \in World :
       records[r] = IF Prepared /\ ago = 0 /\ pc[r] \notin Unrecorded /\ Gathering
                    THEN <<step>> ELSE <<>>
  /\ Prepared /\ ago = 0 /\ ~Gathering => \A r \in World : pc[r] \notin Unrecorded

\* The inductive invariant of the exchanges between ranks.
SharedInv ==
  /\ \A r \in World : RowsWritten(r) /\ AdjointsAdded(r)
  /\ Channels
  /\ Recorded

-----------------------------------------------------------------------------
(***************************************************************************)
(* Frames: what a rank's step leaves alone, and how the driver starts one. *)
(***************************************************************************)
PairType == [token : 0..MaxStep, fingerprint : {0} \cup Shapes, h1 : Buffers,
             rebuild : BOOLEAN]
NativeType == [counter : 0..MaxStep, generation : 0..MaxStep,
               graph : {NoGraph} \cup (Shapes \X Shapes), tiled : BOOLEAN,
               phase : {"idle", "prefix_complete", "middle_complete"}]

\* The world contains the root, and a driver that goes on has no other rank.
LEMMA WorldFacts ==
  ASSUME TypeOK
  PROVE  /\ World \subseteq Ranks /\ Root \in World
         /\ conf.driver # "lmp" => World = {Root}
         /\ ~Prepared => Exchanging
  BY DEF TypeOK, Configurations, World, Prepared, Exchanging, Modes

\* A rank's step changes the state of that rank only.
LEMMA Frame ==
  ASSUME TypeOK, NEW r \in Ranks, RankStep(r)
  PROVE  /\ UNCHANGED <<conf, step, ago, atoms, list>>
         /\ r \in World /\ fault # "aborted"
         /\ fault' = fault \/ Thrown(r)
         /\ \A q \in Ranks \ {r} :
              /\ pc'[q] = pc[q] /\ pair'[q] = pair[q] /\ native'[q] = native[q]
              /\ rows'[q] = rows[q] /\ adjoint'[q] = adjoint[q]
              /\ records'[q] = records[q]
<1> USE DEF TypeOK, At, Goto
<1>1. CASE Enter(r) \/ PrepareReused(r)
  BY <1>1 DEF Enter, PrepareReused
<1>2. CASE CountsOverflow(r) \/ PrepareRefused(r) \/ BeginThrows(r)
  BY <1>2 DEF CountsOverflow, PrepareRefused, BeginThrows, Thrown
<1>3. CASE Prepare(r)
  BY <1>3 DEF Prepare
<1>4. CASE PrepareFails(r) \/ ContinueThrows(r) \/ FinishThrows(r)
  BY <1>4 DEF PrepareFails, ContinueThrows, FinishThrows, Thrown
<1>5. CASE Begin(r)
  BY <1>5 DEF Begin
<1>6. CASE Record(r)
  BY <1>6 DEF Record
<1>7. CASE Scatter(r)
  BY <1>7 DEF Scatter
<1>8. CASE ForwardSend(r) \/ ReverseSend(r)
  BY <1>8 DEF ForwardSend, ReverseSend
<1>9. CASE ForwardReceive(r) \/ ReverseReceive(r)
  BY <1>9 DEF ForwardReceive, ReverseReceive
<1>10. CASE Continue(r) \/ Finish(r)
  BY <1>10 DEF Continue, Finish
<1> QED
  BY <1>1, <1>2, <1>3, <1>4, <1>5, <1>6, <1>7, <1>8, <1>9, <1>10 DEF RankStep

-----------------------------------------------------------------------------
(***************************************************************************)
(* Types                                                                   *)
(***************************************************************************)
LEMMA InitLocal == Init => LocalInv
<1> SUFFICES ASSUME Init PROVE LocalInv
  OBVIOUS
<1>1. TypeOK
  <2>1. 0 \in 0..MaxStep
    BY MaxStepAssumption
  <2>2. pair \in [Ranks -> PairType] /\ native \in [Ranks -> NativeType]
    BY <2>1 DEF Init, FreshPair, FreshNative, PairType, NativeType, Buffers
  <2>3. /\ rows \in [Ranks -> [Buffers -> [Ranks -> 0..MaxStep]]]
        /\ adjoint \in [Ranks -> SUBSET (Ranks \X (0..MaxStep))]
    BY <2>1 DEF Init, ZeroRows
  <2>4. /\ chan \in [Ranks -> [Ranks -> Seq(Messages)]]
        /\ records \in [Ranks -> Seq(0..MaxStep)]
    BY DEF Init
  <2> QED
    BY <2>1, <2>2, <2>3, <2>4 DEF Init, TypeOK, PairType, NativeType, Labels, Shapes
<1>2. ASSUME NEW r \in Ranks PROVE RInv(r)
  BY DEF Init, RInv, Placed, Counted, Released, Tracked, FreshNative, Prefixing,
         Outside, Exchanges, Working
<1> QED
  BY <1>1, <1>2 DEF LocalInv

LEMMA StartType ==
  ASSUME LocalInv, Timestep \/ Coeff
  PROVE  TypeOK'
<1>1. TypeOK
  BY DEF LocalInv
<1>2. PICK a \in {0, 1} : StartStep(a)
  BY DEF Timestep, Coeff
<1>3. /\ step' \in 0..MaxStep /\ ago' \in {0, 1} /\ atoms' \in [Ranks -> Shapes]
      /\ list' \in Shapes /\ pc' \in [Ranks -> Labels] /\ fault' = "none"
  BY <1>1, <1>2, MaxStepAssumption DEF TypeOK, StartStep, Labels
<1>4. pair' \in [Ranks -> PairType] /\ native' \in [Ranks -> NativeType]
  <2>1. FreshPair \in PairType /\ FreshNative \in NativeType
    BY MaxStepAssumption DEF FreshPair, FreshNative, PairType, NativeType, Buffers
  <2>2. pair \in [Ranks -> PairType] /\ native \in [Ranks -> NativeType]
    BY <1>1 DEF TypeOK, PairType, NativeType
  <2> QED
    BY <2>1, <2>2 DEF Timestep, Coeff
<1>5. rows' \in [Ranks -> [Buffers -> [Ranks -> 0..MaxStep]]]
  <2>1. CASE Timestep
    BY <1>1, <2>1 DEF TypeOK, Timestep
  <2>2. CASE Coeff
    <3>1. \A r \in Ranks : pair[r].h1 \in Buffers
      BY <1>1 DEF TypeOK
    <3>2. ZeroRows \in [Ranks -> 0..MaxStep]
      BY MaxStepAssumption DEF ZeroRows
    <3> QED
      BY <1>1, <2>2, <3>1, <3>2 DEF TypeOK, Coeff
  <2> QED
    BY <2>1, <2>2
<1>6. UNCHANGED <<conf, adjoint, chan, records>>
  BY DEF Timestep, Coeff
<1> QED
  BY <1>1, <1>3, <1>4, <1>5, <1>6 DEF TypeOK, PairType, NativeType

\* The parts of TypeOK that a rank's step changes.
RankTypes ==
  /\ pc \in [Ranks -> Labels]
  /\ pair \in [Ranks -> PairType]
  /\ native \in [Ranks -> NativeType]
  /\ rows \in [Ranks -> [Buffers -> [Ranks -> 0..MaxStep]]]
  /\ adjoint \in [Ranks -> SUBSET (Ranks \X (0..MaxStep))]
  /\ chan \in [Ranks -> [Ranks -> Seq(Messages)]]
  /\ records \in [Ranks -> Seq(0..MaxStep)]
  /\ fault \in {"none", "caught", "aborted"}

LEMMA SendType ==
  ASSUME TypeOK, NEW r \in Ranks, NEW k \in Kinds, NEW v \in 0..MaxStep, SendAll(r, k, v)
  PROVE  chan' \in [Ranks -> [Ranks -> Seq(Messages)]]
<1>1. [kind |-> k, value |-> v] \in Messages
  BY DEF Messages
<1>2. \A d \in Ranks : chan[r][d] \in Seq(Messages)
  BY DEF TypeOK
<1>3. \A d \in Ranks : Append(chan[r][d], [kind |-> k, value |-> v]) \in Seq(Messages)
  BY <1>1, <1>2
<1> QED
  BY <1>2, <1>3 DEF SendAll, TypeOK

LEMMA ReceiveType ==
  ASSUME TypeOK, NEW r \in Ranks, ReceiveAll(r)
  PROVE  /\ chan' \in [Ranks -> [Ranks -> Seq(Messages)]]
         /\ \A s \in Others(r) : s \in Ranks /\ Head(chan[s][r]).value \in 0..MaxStep
<1>1. Others(r) \subseteq Ranks
  BY WorldFacts DEF Others
<1>2. ASSUME NEW s \in Others(r)
      PROVE  Head(chan[s][r]) \in Messages /\ Tail(chan[s][r]) \in Seq(Messages)
  <2>1. chan[s][r] \in Seq(Messages) /\ chan[s][r] # <<>>
    BY <1>1 DEF TypeOK, ReceiveAll
  <2> QED
    BY <2>1
<1>3. chan' \in [Ranks -> [Ranks -> Seq(Messages)]]
  BY <1>1, <1>2 DEF ReceiveAll, TypeOK
<1> QED
  BY <1>1, <1>2, <1>3 DEF Messages

\* A record stays of its type when one field is set.
LEMMA UpdateType ==
  ASSUME NEW S, NEW T, NEW f \in [S -> T], NEW x \in S, NEW v \in T
  PROVE  [f EXCEPT ![x] = v] \in [S -> T]
  OBVIOUS

LEMMA FieldTypes ==
  /\ \A n \in NativeType, ph \in {"idle", "prefix_complete", "middle_complete"} :
       [n EXCEPT !.phase = ph] \in NativeType
  /\ \A n \in NativeType, t \in BOOLEAN :
       [[n EXCEPT !.generation = 0, !.graph = NoGraph] EXCEPT !.tiled = t] \in NativeType
  /\ \A x \in PairType, b \in BOOLEAN : [x EXCEPT !.rebuild = b] \in PairType
  /\ \A x \in PairType, h \in Buffers : [x EXCEPT !.h1 = h] \in PairType
  /\ \A x \in PairType, t \in 0..MaxStep, a \in Shapes :
       [x EXCEPT !.token = t, !.fingerprint = a] \in PairType
<1>1. \A n \in NativeType, ph \in {"idle", "prefix_complete", "middle_complete"} :
        [n EXCEPT !.phase = ph] \in NativeType
  BY DEF NativeType
<1>2. \A n \in NativeType, t \in BOOLEAN :
        [[n EXCEPT !.generation = 0, !.graph = NoGraph] EXCEPT !.tiled = t] \in NativeType
  <2>1. \A n \in NativeType : [n EXCEPT !.generation = 0, !.graph = NoGraph] \in NativeType
    <3>1. 0 \in 0..MaxStep
      BY MaxStepAssumption
    <3> QED
      BY <3>1 DEF NativeType
  <2>2. \A n \in NativeType, t \in BOOLEAN : [n EXCEPT !.tiled = t] \in NativeType
    BY DEF NativeType
  <2> QED
    BY <2>1, <2>2
<1>3. \A x \in PairType, b \in BOOLEAN : [x EXCEPT !.rebuild = b] \in PairType
  BY DEF PairType
<1>4. \A x \in PairType, h \in Buffers : [x EXCEPT !.h1 = h] \in PairType
  BY DEF PairType
<1>5. \A x \in PairType, t \in 0..MaxStep, a \in Shapes :
        [x EXCEPT !.token = t, !.fingerprint = a] \in PairType
  BY DEF PairType
<1> QED
  BY <1>1, <1>2, <1>3, <1>4, <1>5

LEMMA RankType ==
  ASSUME LocalInv, NEW r \in Ranks, RankStep(r)
  PROVE  RankTypes'
<1>0. TypeOK /\ RankTypes /\ Counted(r) /\ r \in World
  BY Frame DEF LocalInv, TypeOK, RankTypes, PairType, NativeType, RInv
<1>a. pair \in [Ranks -> PairType] /\ pair[r] \in PairType
  BY <1>0 DEF RankTypes
<1>b. native \in [Ranks -> NativeType] /\ native[r] \in NativeType
  BY <1>0 DEF RankTypes
<1>c. /\ rows \in [Ranks -> [Buffers -> [Ranks -> 0..MaxStep]]]
      /\ pair[r].h1 \in Buffers
  BY <1>0, <1>a DEF RankTypes, PairType
<1>d. /\ adjoint \in [Ranks -> SUBSET (Ranks \X (0..MaxStep))]
      /\ step \in 0..MaxStep /\ atoms[r] \in Shapes /\ list \in Shapes
  BY <1>0 DEF RankTypes, TypeOK
<1>e. native[r].phase \in {"idle", "prefix_complete", "middle_complete"}
  BY <1>b DEF NativeType
<1> USE DEF At, Goto
<1>1. CASE Enter(r) \/ PrepareReused(r)
  <2>1. RebuildTopology(r) \in BOOLEAN
    BY DEF RebuildTopology
  <2>2. pair' \in [Ranks -> PairType]
    BY <1>a, <1>1, <2>1, FieldTypes DEF Enter, PrepareReused
  <2> QED
    BY <1>0, <1>1, <2>2 DEF Enter, PrepareReused, Labels, RankTypes
<1>2. CASE CountsOverflow(r) \/ PrepareRefused(r) \/ BeginThrows(r)
  BY <1>0, <1>2 DEF CountsOverflow, PrepareRefused, BeginThrows, Thrown, Labels, RankTypes
<1>3. CASE Prepare(r)
  <2>1. native[r].counter + 1 \in 0..MaxStep /\ Requested(r) \in Shapes \X Shapes
    BY <1>0, <1>b, <1>d, <1>3, MaxStepAssumption
       DEF Counted, Prepare, Prefixing, Requested, NativeType
  <2>2. PICK tiled \in BOOLEAN : native' = [native EXCEPT ![r] = PreparedAs(r, tiled)]
    BY <1>3 DEF Prepare
  <2>3. PreparedAs(r, tiled) \in NativeType
    BY <1>b, <2>1 DEF PreparedAs, NativeType
  <2>4. native' \in [Ranks -> NativeType] /\ native'[r].generation \in 0..MaxStep
    BY <1>b, <2>2, <2>3 DEF NativeType
  <2>5. pair' = [pair EXCEPT ![r] =
                   [pair[r] EXCEPT !.token = native'[r].generation, !.fingerprint = atoms[r]]]
    BY <1>a, <1>3 DEF Prepare
  <2>6. pair' \in [Ranks -> PairType]
    BY <1>a, <1>d, <2>4, <2>5, FieldTypes
  <2> QED
    BY <1>0, <1>3, <2>4, <2>6 DEF Prepare, Labels, RankTypes
<1>4. CASE PrepareFails(r) \/ ContinueThrows(r) \/ FinishThrows(r)
  <2>1. Caught(r) \in NativeType
    BY <1>b, FieldTypes DEF Caught
  <2>2. \A t \in BOOLEAN : [Invalidated(r) EXCEPT !.tiled = t] \in NativeType
    BY <1>b, FieldTypes DEF Invalidated
  <2>3. native' \in [Ranks -> NativeType]
    BY <1>b, <1>4, <2>1, <2>2 DEF PrepareFails, ContinueThrows, FinishThrows
  <2> QED
    BY <1>0, <1>4, <2>3
       DEF PrepareFails, ContinueThrows, FinishThrows, Thrown, Labels, RankTypes
<1>5. CASE Begin(r)
  <2>1. OwnBuffer(r) \in Buffers
    BY DEF OwnBuffer, Buffers
  <2>2. [rows EXCEPT ![r][OwnBuffer(r)][r] = step]
          \in [Ranks -> [Buffers -> [Ranks -> 0..MaxStep]]]
    BY <1>c, <1>d, <2>1
  <2>3. rows' \in [Ranks -> [Buffers -> [Ranks -> 0..MaxStep]]]
    BY <1>c, <1>5, <2>2 DEF Begin
  <2>4. adjoint' \in [Ranks -> SUBSET (Ranks \X (0..MaxStep))]
    BY <1>d, <1>5 DEF Begin
  <2>5. native' = native \/ \E ph \in {"prefix_complete", native[r].phase} :
                              native' = [native EXCEPT ![r] = [native[r] EXCEPT !.phase = ph]]
    BY <1>b, <1>5 DEF Begin
  <2>6. native' \in [Ranks -> NativeType]
    <3>1. CASE native' = native
      BY <1>b, <3>1
    <3>2. ASSUME NEW ph \in {"prefix_complete", native[r].phase},
                 native' = [native EXCEPT ![r] = [native[r] EXCEPT !.phase = ph]]
          PROVE  native' \in [Ranks -> NativeType]
      <4>1. [native[r] EXCEPT !.phase = ph] \in NativeType
        BY <1>b, <1>e, FieldTypes, Zenon
      <4> QED
        BY <1>b, <3>2, <4>1, UpdateType, Zenon
    <3> QED
      BY <2>5, <3>1, <3>2
  <2> QED
    BY <1>0, <1>5, <2>3, <2>4, <2>6 DEF Begin, Labels, RankTypes
<1>6. CASE Record(r)
  <2>1. Append(records[r], step) \in Seq(0..MaxStep)
    BY <1>0, <1>d DEF RankTypes
  <2> QED
    BY <1>0, <1>6, <2>1 DEF Record, Labels, AfterRecord, RankTypes
<1>7. CASE Scatter(r)
  <2>1. rows[r]["prefix"][r] \in 0..MaxStep /\ 0 \in 0..MaxStep
    BY <1>c, MaxStepAssumption DEF Buffers
  <2>2. [ZeroRows EXCEPT ![r] = rows[r]["prefix"][r]] \in [Ranks -> 0..MaxStep]
    BY <2>1 DEF ZeroRows
  <2>3. \A h \in Buffers :
          /\ [pair EXCEPT ![r].h1 = h] \in [Ranks -> PairType]
          /\ [rows EXCEPT ![r][h] = [ZeroRows EXCEPT ![r] = rows[r]["prefix"][r]]]
               \in [Ranks -> [Buffers -> [Ranks -> 0..MaxStep]]]
    BY <1>a, <1>c, <2>2, FieldTypes
  <2>4. {"graph", "communicated", pair[r].h1} \subseteq Buffers
    BY <1>c DEF Buffers
  <2>5. rows' \in [Ranks -> [Buffers -> [Ranks -> 0..MaxStep]]] /\ pair' \in [Ranks -> PairType]
    <3>1. pair' = pair \/ \E h \in Buffers : pair' = [pair EXCEPT ![r].h1 = h]
      BY <1>7, <2>4 DEF Scatter
    <3>2. rows' = rows \/ \E h \in Buffers :
            rows' = [rows EXCEPT ![r][h] = [ZeroRows EXCEPT ![r] = rows[r]["prefix"][r]]]
      BY <1>7, <2>4 DEF Scatter
    <3>3. pair' \in [Ranks -> PairType]
      BY <1>a, <2>3, <3>1, Zenon
    <3>4. rows' \in [Ranks -> [Buffers -> [Ranks -> 0..MaxStep]]]
      BY <1>c, <2>3, <3>2, Zenon
    <3> QED
      BY <3>3, <3>4
  <2> QED
    BY <1>0, <1>7, <2>5 DEF Scatter, Labels, RankTypes
<1>8. CASE ForwardSend(r) \/ ReverseSend(r)
  <2>1. rows[r][pair[r].h1][r] \in 0..MaxStep
    BY <1>c
  <2>2. chan' \in [Ranks -> [Ranks -> Seq(Messages)]]
    BY <1>0, <1>d, <1>8, <2>1, SendType DEF ForwardSend, ReverseSend, Kinds
  <2> QED
    BY <1>0, <1>8, <2>2 DEF ForwardSend, ReverseSend, Labels, RankTypes
<1>9. CASE ForwardReceive(r)
  <2>1. /\ chan' \in [Ranks -> [Ranks -> Seq(Messages)]]
        /\ \A s \in Others(r) : s \in Ranks /\ Head(chan[s][r]).value \in 0..MaxStep
    BY <1>0, <1>9, ReceiveType DEF ForwardReceive
  <2>2. rows' \in [Ranks -> [Buffers -> [Ranks -> 0..MaxStep]]]
    BY <1>c, <1>9, <2>1 DEF ForwardReceive
  <2> QED
    BY <1>0, <1>9, <2>1, <2>2 DEF ForwardReceive, Labels, RankTypes
<1>10. CASE ReverseReceive(r)
  <2>1. /\ chan' \in [Ranks -> [Ranks -> Seq(Messages)]]
        /\ \A s \in Others(r) : s \in Ranks /\ Head(chan[s][r]).value \in 0..MaxStep
    BY <1>0, <1>10, ReceiveType DEF ReverseReceive
  <2>2. adjoint' \in [Ranks -> SUBSET (Ranks \X (0..MaxStep))]
    BY <1>d, <1>10, <2>1 DEF ReverseReceive
  <2> QED
    BY <1>0, <1>10, <2>1, <2>2 DEF ReverseReceive, Labels, RankTypes
<1>11. CASE Continue(r) \/ Finish(r)
  <2>1. <<r, step>> \in Ranks \X (0..MaxStep)
    BY <1>d
  <2>2. adjoint' \in [Ranks -> SUBSET (Ranks \X (0..MaxStep))]
    BY <1>d, <1>11, <2>1 DEF Continue, Finish
  <2>3. \E ph \in {"idle", "middle_complete", native[r].phase} :
          native' = [native EXCEPT ![r] = [native[r] EXCEPT !.phase = ph]]
    BY <1>b, <1>11 DEF Continue, Finish
  <2>4. native' \in [Ranks -> NativeType]
    <3>1. PICK ph \in {"idle", "middle_complete", native[r].phase} :
            native' = [native EXCEPT ![r] = [native[r] EXCEPT !.phase = ph]]
      BY <2>3
    <3>2. [native[r] EXCEPT !.phase = ph] \in NativeType
      BY <1>b, <1>e, FieldTypes, Zenon
    <3> QED
      BY <1>b, <3>1, <3>2, UpdateType, Zenon
  <2> QED
    BY <1>0, <1>11, <2>2, <2>4 DEF Continue, Finish, Labels, RankTypes
<1> QED
  BY <1>1, <1>2, <1>3, <1>4, <1>5, <1>6, <1>7, <1>8, <1>9, <1>10, <1>11 DEF RankStep

LEMMA NextType ==
  ASSUME LocalInv, Next
  PROVE  TypeOK'
<1>0. TypeOK
  BY DEF LocalInv
<1>1. CASE Timestep \/ Coeff
  BY <1>1, StartType
<1>2. CASE Allreduce
  BY <1>0, <1>2 DEF Allreduce, TypeOK, Labels
<1>3. CASE Gather
  <2>1. \A r \in World : Tail(records[r]) \in Seq(0..MaxStep)
    <3> TAKE r \in World
    <3>1. records[r] \in Seq(0..MaxStep) /\ records[r] # <<>>
      BY <1>0, <1>3, WorldFacts DEF Gather, TypeOK
    <3>2. \A S, x : x \in Seq(S) /\ x # <<>> => Tail(x) \in Seq(S)
      OBVIOUS
    <3> QED
      BY <3>1, <3>2
  <2>2. records' \in [Ranks -> Seq(0..MaxStep)]
    BY <1>0, <1>3, <2>1, WorldFacts DEF Gather, TypeOK
  <2> QED
    BY <1>0, <1>3, <2>2 DEF Gather, TypeOK, Labels, Goto, AfterRecord
<1>4. ASSUME NEW r \in Ranks, RankStep(r) PROVE TypeOK'
  BY <1>0, <1>4, Frame, RankType DEF TypeOK, RankTypes, PairType, NativeType
<1> QED
  BY <1>1, <1>2, <1>3, <1>4 DEF Next

-----------------------------------------------------------------------------
(***************************************************************************)
(* What a rank does alone                                                  *)
(***************************************************************************)
\* A rank that does not move keeps its invariant: an exception elsewhere only
\* changes the fault.
LEMMA OthersLocal ==
  ASSUME LocalInv, NEW r \in Ranks, RankStep(r), NEW q \in Ranks \ {r}
  PROVE  RInv(q)'
<1>1. /\ TypeOK /\ RInv(q)
      /\ UNCHANGED <<conf, step, ago, atoms, list, pc[q], pair[q], native[q]>>
      /\ fault' = fault \/ fault' \in {"aborted", "caught"}
  BY Frame DEF LocalInv, Thrown
<1>2. UNCHANGED <<World, Prepared, Exchanging, Requested(q)>>
  BY <1>1 DEF World, Prepared, Exchanging, Requested
<1>3. Placed(q)' /\ Counted(q)' /\ Released(q)'
  BY <1>1, <1>2 DEF RInv, Placed, Counted, Released
<1>4. Settled(q)' <=> Settled(q)
  BY <1>1, <1>2 DEF Settled
<1>5. Tracked(q)'
  BY <1>1, <1>2, <1>4 DEF RInv, Tracked
<1> QED
  BY <1>3, <1>5 DEF RInv

\* What an exception leaves of the rank that threw.
LEMMA ThrownSelf ==
  ASSUME TypeOK, NEW r \in Ranks, Thrown(r)
  PROVE  \/ pc'[r] = pc[r] /\ fault' = "aborted"
         \/ pc'[r] = "ready" /\ fault' = "caught" /\ conf.driver = "library"
  BY DEF Thrown, TypeOK, Configurations

\* The rank that moves keeps its invariant, action by action.
LEMMA SelfLocal ==
  ASSUME LocalInv, NEW r \in Ranks, RankStep(r)
  PROVE  RInv(r)'
<1>0. /\ TypeOK /\ RInv(r) /\ r \in World /\ TypeOK'
      /\ UNCHANGED <<conf, step, ago, atoms, list>>
  BY Frame, NextType DEF LocalInv, Next
<1>1. UNCHANGED <<World, Prepared, Exchanging, Requested(r)>>
  BY <1>0 DEF World, Prepared, Exchanging, Requested
<1>2. /\ native[r] \in NativeType /\ pair[r] \in PairType /\ pc[r] \in Labels
      /\ native \in [Ranks -> NativeType] /\ pair \in [Ranks -> PairType]
      /\ pc \in [Ranks -> Labels] /\ step \in Nat /\ ago \in {0, 1}
  BY <1>0, MaxStepAssumption DEF TypeOK, NativeType, PairType
<1>3. ASSUME pair'[r] = pair[r], native'[r] = native[r],
             \/ pc[r] = "allreduce" /\ pc'[r] = "prepare"
             \/ pc[r] = "prepare" /\ pc'[r] = "begin" /\ (Prepared => ago = 1)
             \/ pc[r] \in {"begin", "record"} /\ pc'[r] = "ready" /\ ~Exchanging
                /\ (Prepared => native[r].graph = Requested(r))
             \/ pc[r] \in Exchanges \cup {"record"} /\ pc'[r] \in Exchanges \cup {"gather"}
                /\ (pc'[r] \in Exchanges => Exchanging)
             \/ pc[r] = "begin" /\ pc'[r] = "record" /\ ~Exchanging
                /\ (Prepared => native[r].graph = Requested(r))
             \/ pc'[r] = pc[r] /\ fault' = "aborted"
             \/ pc'[r] = "ready" /\ fault' = "caught" /\ pc[r] \in {"prepare", "begin"}
      PROVE  RInv(r)'
  <2>1. Placed(r)'
    BY <1>0, <1>1, <1>3 DEF RInv, Placed, Exchanges
  <2>2. Counted(r)'
    BY <1>0, <1>2, <1>3 DEF RInv, Counted, Prefixing, Exchanges
  <2>3. Released(r)'
    BY <1>0, <1>1, <1>3 DEF RInv, Released, Outside, Prefixing, Exchanges
  <2>4. Settled(r)' <=> Settled(r)
    BY <1>0, <1>1, <1>3 DEF Settled
  <2>5. Tracked(r)'
    BY <1>0, <1>1, <1>2, <1>3, <2>4 DEF RInv, Tracked, Prefixing, Exchanges, Working
  <2> QED
    BY <2>1, <2>2, <2>3, <2>5 DEF RInv
<1> USE DEF At, Goto
<1>4. CASE Enter(r)
  <2>1. /\ pc[r] = "enter" /\ pc'[r] \in {"allreduce", "prepare"} /\ native' = native
        /\ pair'[r] = [pair[r] EXCEPT !.rebuild = RebuildTopology(r)]
    BY <1>2, <1>4 DEF Enter
  <2>2. /\ pair'[r].token = pair[r].token /\ pair'[r].fingerprint = pair[r].fingerprint
        /\ pair'[r].rebuild = RebuildTopology(r)
    BY <1>2, <2>1 DEF PairType
  <2>3. Placed(r)' /\ Counted(r)' /\ Released(r)'
    BY <1>0, <1>1, <2>1
       DEF RInv, Placed, Counted, Released, Exchanges, Prefixing, Outside
  <2>4. Settled(r)' <=> Settled(r)
    BY <1>0, <1>1, <2>1, <2>2 DEF Settled
  <2>5. Prepared /\ Settled(r) => (RebuildTopology(r) <=> ago = 0)
    BY DEF RebuildTopology, Settled
  <2>6. Prepared => (RebuildTopology(r) <=> ago = 0)
    BY <1>0, <1>2, <2>1, <2>5 DEF RInv, Tracked, Prefixing, RebuildTopology
  <2>7. Tracked(r)'
    BY <1>0, <1>1, <2>1, <2>2, <2>4, <2>6 DEF RInv, Tracked, Prefixing, Working, Exchanges
  <2> QED
    BY <2>3, <2>7 DEF RInv
<1>5. CASE CountsOverflow(r) \/ PrepareRefused(r) \/ BeginThrows(r)
  BY <1>0, <1>3, <1>5, ThrownSelf DEF CountsOverflow, PrepareRefused, BeginThrows
<1>6. CASE PrepareReused(r)
  <2>1. pair' = pair /\ native' = native /\ pc[r] = "prepare" /\ pc'[r] = "begin"
    BY <1>2, <1>6 DEF PrepareReused
  <2>2. Prepared => ago = 1
    BY <1>0, <1>2, <1>6, <2>1 DEF PrepareReused, RInv, Tracked
  <2> QED
    BY <1>3, <2>1, <2>2
<1>7. CASE Prepare(r)
  <2>1. PICK tiled \in BOOLEAN : native' = [native EXCEPT ![r] = PreparedAs(r, tiled)]
    BY <1>7 DEF Prepare
  <2>2. native'[r] = PreparedAs(r, tiled)
    BY <1>2, <2>1
  <2>3. /\ native'[r].generation # 0 /\ native'[r].graph = Requested(r)
        /\ native'[r].phase = native[r].phase
        /\ native'[r].counter <= native[r].counter + 1
    BY <1>2, <2>2 DEF PreparedAs, SameIdentity, NativeType
  <2>4. /\ pair'[r].token = native'[r].generation /\ pair'[r].fingerprint = atoms[r]
        /\ pair'[r].rebuild = pair[r].rebuild
    BY <1>2, <1>7 DEF Prepare, PairType
  <2>5. pc[r] = "prepare" /\ pc'[r] = "begin" /\ native[r].phase = "idle"
    BY <1>2, <1>7 DEF Prepare
  <2>6. native[r].counter \in Nat /\ native'[r].counter \in Nat
    BY <1>0, MaxStepAssumption DEF TypeOK
  <2>7. Counted(r)'
    BY <1>0, <1>2, <2>3, <2>5, <2>6 DEF RInv, Counted, Prefixing
  <2>8. Placed(r)' /\ Released(r)'
    BY <1>0, <1>1, <2>3, <2>5 DEF RInv, Placed, Released, Exchanges
  <2>9. Tracked(r)'
    BY <1>0, <1>1, <2>3, <2>4, <2>5
       DEF RInv, Tracked, Settled, Prefixing, Working, Exchanges
  <2> QED
    BY <2>7, <2>8, <2>9 DEF RInv
<1>8. CASE PrepareFails(r)
  <2>1. /\ native'[r].phase = "idle" /\ native'[r].counter = native[r].counter
        /\ pair' = pair /\ pc[r] = "prepare" /\ Prepared /\ pair[r].rebuild
    <3>1. PICK t \in BOOLEAN :
            native' = [native EXCEPT ![r] = [Invalidated(r) EXCEPT !.tiled = t]]
      BY <1>8 DEF PrepareFails
    <3>2. native'[r] = [Invalidated(r) EXCEPT !.tiled = t]
      BY <1>2, <3>1
    <3>3. native'[r].phase = native[r].phase /\ native'[r].counter = native[r].counter
      BY <1>2, <3>2 DEF Invalidated, NativeType
    <3> QED
      BY <1>8, <3>3 DEF PrepareFails
  <2>2. \/ pc'[r] = pc[r] /\ fault' = "aborted"
        \/ pc'[r] = "ready" /\ fault' = "caught"
    BY <1>0, <1>8, ThrownSelf DEF PrepareFails
  <2>3. Placed(r)' /\ Counted(r)' /\ Released(r)'
    BY <1>0, <1>1, <2>1, <2>2
       DEF RInv, Placed, Counted, Released, Exchanges, Prefixing, Outside
  <2>4. ago = 0
    BY <1>0, <2>1 DEF RInv, Tracked
  <2>5. Tracked(r)'
    BY <1>0, <1>1, <2>1, <2>2, <2>4 DEF RInv, Tracked, Prefixing, Working, Exchanges
  <2> QED
    BY <2>3, <2>5 DEF RInv
<1>9. CASE Begin(r)
  <2>1. /\ pc[r] = "begin" /\ pair' = pair
        /\ pc'[r] = IF conf.mode = "no_domain_decomposition" THEN "ready" ELSE "record"
    BY <1>2, <1>9 DEF Begin
  <2>2. Prepared => native[r].graph = Requested(r)
    BY <1>0, <1>9, <2>1 DEF Begin, Accepted, RInv, Tracked, Settled
  <2>3. CASE ~Exchanging
    BY <1>3, <1>9, <2>1, <2>2, <2>3 DEF Begin
  <2>4. CASE Exchanging
    <3>1. pc'[r] = "record"
      BY <2>1, <2>4 DEF Exchanging
    <3>2. /\ native'[r].counter = native[r].counter /\ native'[r].graph = native[r].graph
          /\ native'[r].generation = native[r].generation
          /\ ~Prepared => native'[r].phase = native[r].phase
      BY <1>2, <1>9, <2>4 DEF Begin, NativeType
    <3>3. Placed(r)' /\ Counted(r)' /\ Released(r)'
      BY <1>0, <1>1, <2>1, <2>4, <3>1, <3>2
         DEF RInv, Placed, Counted, Released, Exchanges, Prefixing, Outside
    <3>4. Settled(r)' <=> Settled(r)
      BY <1>0, <1>1, <2>1, <3>2 DEF Settled
    <3>5. Tracked(r)'
      BY <1>0, <1>1, <2>1, <2>2, <3>1, <3>2, <3>4
         DEF RInv, Tracked, Prefixing, Working, Exchanges
    <3> QED
      BY <3>3, <3>5 DEF RInv
  <2> QED
    BY <2>3, <2>4
<1>10. CASE Record(r)
  <2>1. /\ pair' = pair /\ native' = native /\ pc[r] = "record"
        /\ pc'[r] \in {"gather", AfterRecord}
    BY <1>2, <1>10 DEF Record
  <2>2. Prepared => native[r].graph = Requested(r)
    BY <1>0, <2>1 DEF RInv, Tracked, Working
  <2> QED
    BY <1>3, <2>1, <2>2 DEF AfterRecord, Exchanges
<1>11. CASE Scatter(r)
  <2>1. /\ native' = native /\ pc[r] = "scatter" /\ pc'[r] = "forward"
        /\ pair'[r].token = pair[r].token /\ pair'[r].fingerprint = pair[r].fingerprint
        /\ pair'[r].rebuild = pair[r].rebuild
    BY <1>2, <1>11 DEF Scatter, PairType
  <2>2. Placed(r)' /\ Counted(r)' /\ Released(r)'
    BY <1>0, <1>1, <2>1
       DEF RInv, Placed, Counted, Released, Exchanges, Prefixing, Outside
  <2>3. Settled(r)' <=> Settled(r)
    BY <1>0, <1>1, <2>1 DEF Settled
  <2>4. Tracked(r)'
    BY <1>0, <1>1, <2>1, <2>3 DEF RInv, Tracked, Prefixing, Working, Exchanges
  <2> QED
    BY <2>2, <2>4 DEF RInv
<1>12. CASE ForwardSend(r) \/ ForwardReceive(r) \/ ReverseSend(r) \/ ReverseReceive(r)
  <2>1. /\ pair' = pair /\ native' = native
        /\ pc[r] \in Exchanges /\ pc'[r] \in Exchanges
    BY <1>2, <1>12
       DEF ForwardSend, ForwardReceive, ReverseSend, ReverseReceive, Exchanges
  <2> QED
    BY <1>0, <1>3, <2>1 DEF RInv, Placed
<1>13. CASE Continue(r) \/ Finish(r)
  <2>1. /\ pair' = pair /\ pc[r] \in {"continue", "finish"} /\ pc'[r] \in {"reverse", "ready"}
        /\ pc[r] = "continue" <=> pc'[r] = "reverse"
    BY <1>2, <1>13 DEF Continue, Finish
  <2>2. /\ native'[r].counter = native[r].counter /\ native'[r].graph = native[r].graph
        /\ native'[r].generation = native[r].generation
        /\ native'[r].tiled = native[r].tiled
        /\ Prepared => native'[r].phase = IF pc'[r] = "ready" THEN "idle" ELSE "middle_complete"
        /\ ~Prepared => native'[r].phase = native[r].phase
    BY <1>2, <1>13 DEF Continue, Finish, NativeType
  <2>3. Placed(r)' /\ Counted(r)'
    BY <1>0, <1>1, <2>1, <2>2 DEF RInv, Placed, Counted, Exchanges, Prefixing
  <2>4. Released(r)'
    BY <1>0, <1>1, <2>1, <2>2
       DEF RInv, Placed, Released, Exchanges, Prefixing, Outside
  <2>5. Settled(r)' <=> Settled(r)
    BY <1>0, <1>1, <2>1, <2>2 DEF Settled
  <2>6. Tracked(r)'
    BY <1>0, <1>1, <2>1, <2>2, <2>5 DEF RInv, Tracked, Prefixing, Working, Exchanges
  <2> QED
    BY <2>3, <2>4, <2>6 DEF RInv
<1>14. CASE ContinueThrows(r) \/ FinishThrows(r)
  <2>1. /\ pair' = pair /\ pc[r] \in {"continue", "finish"} /\ Prepared
        /\ native'[r] = Caught(r)
    BY <1>2, <1>14 DEF ContinueThrows, FinishThrows
  <2>2. /\ native'[r].counter = native[r].counter /\ native'[r].graph = native[r].graph
        /\ native'[r].generation = native[r].generation
        /\ native'[r].tiled = native[r].tiled
        /\ native[r].tiled => native'[r].phase = "idle"
    BY <1>2, <2>1 DEF Caught, NativeType
  <2>3. \/ pc'[r] = pc[r] /\ fault' = "aborted"
        \/ pc'[r] = "ready" /\ fault' = "caught" /\ conf.driver = "library"
    BY <1>0, <1>14, ThrownSelf DEF ContinueThrows, FinishThrows
  <2>4. Placed(r)' /\ Counted(r)'
    BY <1>0, <1>1, <2>1, <2>2, <2>3 DEF RInv, Placed, Counted, Exchanges, Prefixing
  <2>5. Released(r)'
    BY <1>0, <1>1, <2>1, <2>2, <2>3
       DEF RInv, Placed, Released, Exchanges, Prefixing, Outside
  <2>6. Settled(r)' <=> Settled(r)
    BY <1>0, <1>1, <2>1, <2>2 DEF Settled
  <2>7. Tracked(r)'
    BY <1>0, <1>1, <2>1, <2>2, <2>3, <2>6
       DEF RInv, Tracked, Prefixing, Working, Exchanges
  <2> QED
    BY <2>4, <2>5, <2>7 DEF RInv
<1> QED
  BY <1>4, <1>5, <1>6, <1>7, <1>8, <1>9, <1>10, <1>11, <1>12, <1>13, <1>14 DEF RankStep

\* A step starts with what the last one left; an error caught in between forces
\* a new list.
LEMMA StartLocal ==
  ASSUME LocalInv, Timestep \/ Coeff, NEW r \in Ranks
  PROVE  RInv(r)'
<1>0. TypeOK /\ RInv(r)
  BY DEF LocalInv
<1>1. PICK a \in {0, 1} : StartStep(a) /\ (a = 1 => step > 0 /\ Timestep)
  <2>1. CASE Timestep
    <3>1. PICK b \in IF step = 0 THEN {0} ELSE {0, 1} : StartStep(b)
      BY <2>1 DEF Timestep
    <3>2. b \in {0, 1} /\ (b = 1 => step > 0)
      BY <1>0, <3>1 DEF TypeOK
    <3> QED
      BY <2>1, <3>1, <3>2
  <2>2. CASE Coeff
    <3>1. StartStep(0)
      BY <2>2 DEF Coeff
    <3> QED
      BY <3>1
  <2> QED
    BY <2>1, <2>2
<1>2. /\ step' = step + 1 /\ ago' = a /\ fault' = "none" /\ step \in Nat
      /\ pc'[r] = IF r \in World THEN "enter" ELSE "ready"
      /\ r \in World => pc[r] = "ready"
  BY <1>0, <1>1, MaxStepAssumption DEF StartStep, AllReady, TypeOK
<1>3. UNCHANGED <<World, Prepared, Exchanging>>
  BY DEF Timestep, Coeff, World, Prepared, Exchanging
<1>4. /\ native'[r] = native[r] \/ native'[r] = FreshNative
      /\ native[r].counter \in Nat
      /\ Timestep => pair' = pair /\ native' = native
  BY <1>0, MaxStepAssumption DEF Timestep, Coeff, TypeOK
<1>5. Placed(r)' /\ Counted(r)'
  BY <1>0, <1>2, <1>3, <1>4, WorldFacts
     DEF RInv, Placed, Counted, Exchanges, Prefixing, FreshNative
<1>6. Released(r)'
  BY <1>0, <1>2, <1>3, <1>4
     DEF RInv, Placed, Released, Outside, Prefixing, FreshNative, Timestep, Coeff
<1>7. ASSUME r \in World, Prepared, a = 1 PROVE Settled(r)'
  <2>1. UNCHANGED <<list, atoms, pair, native>> /\ fault = "none"
    BY <1>0, <1>1, <1>4, <1>7 DEF StartStep, TypeOK
  <2>2. Settled(r)
    BY <1>0, <1>1, <1>2, <1>7, <2>1 DEF RInv, Tracked
  <2> QED
    BY <2>1, <2>2 DEF Settled, Requested
<1>8. Tracked(r)'
  BY <1>2, <1>3, <1>7 DEF Tracked, Working, Exchanges
<1> QED
  BY <1>5, <1>6, <1>8 DEF RInv

\* The two collectives move ranks and nothing else that a rank knows.
LEMMA CollectiveLocal ==
  ASSUME LocalInv, Allreduce \/ Gather, NEW r \in Ranks
  PROVE  RInv(r)'
<1>0. /\ TypeOK /\ RInv(r) /\ UNCHANGED <<conf, step, ago, atoms, list, pair, native, fault>>
      /\ \/ pc'[r] = pc[r]
         \/ pc[r] = "allreduce" /\ pc'[r] = "prepare"
         \/ pc[r] = "gather" /\ pc'[r] = AfterRecord
  BY WorldFacts DEF LocalInv, Allreduce, Gather, At, Goto, TypeOK
<1>1. UNCHANGED <<World, Prepared, Exchanging, Requested(r)>>
  BY <1>0 DEF World, Prepared, Exchanging, Requested
<1>2. Placed(r)' /\ Counted(r)'
  BY <1>0, <1>1 DEF RInv, Placed, Counted, AfterRecord, Exchanges, Prefixing
<1>3. Released(r)'
  BY <1>0, <1>1 DEF RInv, Released, AfterRecord, Outside, Prefixing
<1>4. Settled(r)' <=> Settled(r)
  BY <1>0, <1>1 DEF Settled
<1>5. Tracked(r)'
  BY <1>0, <1>1, <1>4 DEF RInv, Tracked, AfterRecord, Prefixing, Working, Exchanges
<1> QED
  BY <1>2, <1>3, <1>5 DEF RInv

LEMMA NextLocal == LocalInv /\ [Next]_vars => LocalInv'
<1> SUFFICES ASSUME LocalInv, [Next]_vars PROVE LocalInv'
  OBVIOUS
<1>1. CASE UNCHANGED vars
  <2>1. TypeOK' <=> TypeOK
    BY <1>1 DEF vars, TypeOK
  <2>2. ASSUME NEW r \in Ranks PROVE RInv(r)' <=> RInv(r)
    <3>1. UNCHANGED <<World, Prepared, Exchanging, Requested(r), Settled(r)>>
      BY <1>1 DEF vars, World, Prepared, Exchanging, Requested, Settled
    <3> QED
      BY <1>1, <3>1 DEF vars, RInv, Placed, Counted, Released, Tracked
  <2> QED
    BY <2>1, <2>2 DEF LocalInv
<1>2. CASE Next
  <2>1. TypeOK'
    BY <1>2, NextType
  <2>2. ASSUME NEW r \in Ranks PROVE RInv(r)'
    BY <1>2, StartLocal, CollectiveLocal, SelfLocal, OthersLocal DEF Next
  <2> QED
    BY <2>1, <2>2 DEF LocalInv
<1> QED
  BY <1>1, <1>2

\* Every variable stays in its domain, whatever fails and whoever rebuilds.
THEOREM TypeCorrect == Spec => []TypeOK
<1>1. LocalInv => TypeOK
  BY DEF LocalInv
<1> QED
  BY <1>1, InitLocal, NextLocal, PTL DEF Spec

\* Every rank computes on the graph of the step's atoms and list.
THEOREM GraphCurrent == Spec => []EvaluatesCurrentGraph
<1>1. LocalInv => EvaluatesCurrentGraph
  BY WorldFacts DEF LocalInv, RInv, Tracked, EvaluatesCurrentGraph, Requested, Working,
                    Exchanges
<1> QED
  BY <1>1, InitLocal, NextLocal, PTL DEF Spec

\* Only a retained plan that failed under a driver that goes on leaves a phase
\* active behind it.
THEOREM PhasesReleased == Spec => []PhaseReleased
<1>1. LocalInv => PhaseReleased
  BY WorldFacts DEF LocalInv, RInv, Released, PhaseReleased, Outside
<1> QED
  BY <1>1, InitLocal, NextLocal, PTL DEF Spec

-----------------------------------------------------------------------------
(***************************************************************************)
(* The channels                                                            *)
(***************************************************************************)
LEMMA InitShared == Init => SharedInv
<1> SUFFICES ASSUME Init PROVE SharedInv
  OBVIOUS
<1>0. World \subseteq Ranks /\ Root \in World
  BY InitLocal, WorldFacts DEF LocalInv
<1>1. ASSUME NEW r \in World PROVE RowsWritten(r) /\ AdjointsAdded(r)
  BY <1>0 DEF Init, RowsWritten, AdjointsAdded, FreshPair
<1>2. Channels
  BY <1>0 DEF Init, Channels, Carried, Sent, Taken
<1>3. Recorded
  BY <1>0, RanksAssumption DEF Init, Recorded, Gathering, Unrecorded, Prefixing
<1> QED
  BY <1>1, <1>2, <1>3 DEF SharedInv

\* Appending to, and taking from, the sequences a channel or a record can be.
LEMMA ShortSequences ==
  ASSUME NEW x, NEW y
  PROVE  /\ Append(<<>>, x) = <<x>> /\ Append(<<x>>, y) = <<x, y>>
         /\ Head(<<x>>) = x /\ Tail(<<x>>) = <<>>
         /\ Head(<<x, y>>) = x /\ Tail(<<x, y>>) = <<y>>
<1> DEFINE S == {x, y}
<1>1. <<x>> \in Seq(S) /\ Len(<<x>>) = 1 /\ <<x>>[1] = x
  OBVIOUS
<1>2. /\ Append(<<x>>, y) \in Seq(S) /\ Len(Append(<<x>>, y)) = 2
      /\ Append(<<x>>, y)[1] = x /\ Append(<<x>>, y)[2] = y
  BY <1>1, AppendProperties
<1>3. <<x, y>> \in Seq(S) /\ Len(<<x, y>>) = 2 /\ <<x, y>>[1] = x /\ <<x, y>>[2] = y
  OBVIOUS
<1>4. \A i \in 1..2 : i = 1 \/ i = 2
  OBVIOUS
<1> HIDE DEF S
<1>5. Append(<<x>>, y) = <<x, y>>
  BY <1>2, <1>3, <1>4, SeqEqual
<1>6. Append(<<>>, x) = <<x>>
  OBVIOUS
<1>7. Head(<<x>>) = x /\ Tail(<<x>>) = <<>>
  OBVIOUS
<1>8. Head(<<x, y>>) = x /\ Tail(<<x, y>>) = <<y>>
  OBVIOUS
<1> QED
  BY <1>5, <1>6, <1>7, <1>8

\* A step that neither sends nor receives.
LEMMA QuietChannels ==
  ASSUME TypeOK, Channels, NEW r \in World, UNCHANGED <<conf, step, chan>>,
         \A q \in World \ {r} : pc'[q] = pc[q],
         \/ ~Exchanging
         \/ World = {r}
         \/ Sent(r)' = Sent(r) /\ Taken(r)' = Taken(r)
  PROVE  Channels'
<1>1. UNCHANGED <<World, Exchanging, Forward, Reverse>>
  BY DEF World, Exchanging, Forward, Reverse
<1>2. ASSUME NEW s \in World, NEW q \in World, Exchanging, s # q PROVE Carried(s, q)'
  <2>1. Sent(s)' = Sent(s) /\ Taken(q)' = Taken(q)
    BY <1>2 DEF Sent, Taken
  <2> QED
    BY <1>1, <1>2, <2>1 DEF Channels, Carried
<1> QED
  BY <1>1, <1>2 DEF Channels

\* Sending appends the message of this step's exchange.
LEMMA SendChannels ==
  ASSUME TypeOK, Channels, NEW r \in World, Exchanging, UNCHANGED <<conf, step>>,
         \A q \in World \ {r} : pc'[q] = pc[q],
         NEW k, NEW v, SendAll(r, k, v), v = step,
         \/ k = "forward" /\ pc[r] = "forward" /\ pc'[r] = "forwardWait"
         \/ k = "reverse" /\ pc[r] = "reverse" /\ pc'[r] = "reverseWait"
  PROVE  Channels'
<1>0. World \subseteq Ranks
  BY WorldFacts
<1>1. UNCHANGED <<World, Exchanging, Forward, Reverse>>
  BY DEF World, Exchanging, Forward, Reverse
<1>2. ASSUME NEW s \in World, NEW q \in World, s # r
      PROVE  chan'[s][q] = chan[s][q]
  BY <1>0, <1>2 DEF SendAll, TypeOK
<1>3. ASSUME NEW q \in World \ {r}
      PROVE  chan'[r][q] = Append(chan[r][q], [kind |-> k, value |-> step])
  BY <1>0, <1>3 DEF SendAll, TypeOK, Others
<1>4. chan'[r][r] = chan[r][r]
  BY <1>0 DEF SendAll, TypeOK, Others
<1>5. Taken(r)' = Taken(r)
  BY DEF Taken
<1>6. ASSUME NEW s \in World, NEW q \in World, s # q PROVE Carried(s, q)'
  <2>0. Carried(s, q)
    BY <1>6 DEF Channels
  <2>1. CASE s # r
    <3>1. Sent(s)' = Sent(s) /\ Taken(q)' = Taken(q) /\ chan'[s][q] = chan[s][q]
      BY <1>2, <1>5, <2>1 DEF Sent, Taken
    <3> QED
      BY <1>1, <2>0, <3>1 DEF Carried
  <2>2. CASE s = r
    <3>1. /\ Taken(q)' = Taken(q)
          /\ chan'[r][q] = Append(chan[r][q], [kind |-> k, value |-> step])
      BY <1>3, <1>6, <2>2 DEF Taken
    <3>2. CASE k = "forward"
      <4>1. Sent(r) = 0 /\ Sent(r)' = 1
        BY <3>2 DEF Sent
      <4>2. chan[r][q] = <<>> /\ Taken(q) = 0
        BY <2>0, <2>2, <4>1 DEF Carried
      <4>3. chan'[r][q] = <<Forward>>
        BY <3>1, <3>2, <4>2 DEF Forward
      <4> QED
        BY <1>1, <2>2, <3>1, <4>1, <4>2, <4>3 DEF Carried
    <3>3. CASE k = "reverse"
      <4>1. Sent(r) = 1 /\ Sent(r)' = 2
        BY <3>3 DEF Sent
      <4>2. \/ chan[r][q] = <<>> /\ Taken(q) = 1
            \/ chan[r][q] = <<Forward>> /\ Taken(q) = 0
        BY <2>0, <2>2, <4>1 DEF Carried
      <4>3. \/ chan'[r][q] = <<Reverse>> /\ Taken(q) = 1
            \/ chan'[r][q] = <<Forward, Reverse>> /\ Taken(q) = 0
        <5>1. Append(<<>>, Reverse) = <<Reverse>>
              /\ Append(<<Forward>>, Reverse) = <<Forward, Reverse>>
          BY ShortSequences
        <5>2. chan'[r][q] = Append(chan[r][q], Reverse)
          BY <3>1, <3>3 DEF Reverse
        <5> QED
          BY <4>2, <5>1, <5>2
      <4> QED
        BY <1>1, <2>2, <3>1, <4>1, <4>3 DEF Carried
    <3> QED
      BY <3>2, <3>3
  <2> QED
    BY <2>1, <2>2
<1> QED
  BY <1>1, <1>2, <1>4, <1>6 DEF Channels

\* Receiving takes the message of this step's exchange from every other rank.
LEMMA ReceiveChannels ==
  ASSUME TypeOK, Channels, NEW r \in World, Exchanging, UNCHANGED <<conf, step>>,
         \A q \in World \ {r} : pc'[q] = pc[q], ReceiveAll(r),
         \/ pc[r] = "forwardWait" /\ pc'[r] = "continue"
         \/ pc[r] = "reverseWait" /\ pc'[r] = "finish"
  PROVE  /\ Channels'
         /\ \A s \in Others(r) : Head(chan[s][r]).value = step
<1>0. World \subseteq Ranks
  BY WorldFacts
<1>1. UNCHANGED <<World, Exchanging, Forward, Reverse>>
  BY DEF World, Exchanging, Forward, Reverse
<1>2. ASSUME NEW s \in World, NEW q \in World, q # r \/ s = r
      PROVE  chan'[s][q] = chan[s][q]
  BY <1>0, <1>2 DEF ReceiveAll, TypeOK, Others
<1>3. ASSUME NEW s \in World \ {r}
      PROVE  chan'[s][r] = Tail(chan[s][r]) /\ chan[s][r] # <<>>
  BY <1>0, <1>3 DEF ReceiveAll, TypeOK, Others
<1>4. Sent(r)' = Sent(r)
  BY DEF Sent
<1>5. ASSUME NEW s \in World \ {r}
      PROVE  Carried(s, r)' /\ Head(chan[s][r]).value = step
  <2>0. Carried(s, r) /\ Sent(s)' = Sent(s)
    BY <1>5 DEF Channels, Sent
  <2>1. Forward.value = step /\ Reverse.value = step
    BY DEF Forward, Reverse
  <2>2. CASE pc[r] = "forwardWait"
    <3>1. Taken(r) = 0 /\ Taken(r)' = 1
      BY <2>2 DEF Taken
    <3>2. \/ Sent(s) = 1 /\ chan[s][r] = <<Forward>>
          \/ Sent(s) = 2 /\ chan[s][r] = <<Forward, Reverse>>
      BY <1>3, <2>0, <3>1 DEF Carried
    <3>3. /\ Head(chan[s][r]) = Forward
          /\ \/ Sent(s) = 1 /\ Tail(chan[s][r]) = <<>>
             \/ Sent(s) = 2 /\ Tail(chan[s][r]) = <<Reverse>>
      <4>1. /\ Head(<<Forward>>) = Forward /\ Tail(<<Forward>>) = <<>>
            /\ Head(<<Forward, Reverse>>) = Forward
            /\ Tail(<<Forward, Reverse>>) = <<Reverse>>
        BY ShortSequences
      <4> QED
        BY <3>2, <4>1, Zenon
    <3> QED
      BY <1>1, <1>3, <2>0, <2>1, <3>1, <3>2, <3>3 DEF Carried
  <2>3. CASE pc[r] = "reverseWait"
    <3>1. Taken(r) = 1 /\ Taken(r)' = 2
      BY <2>3 DEF Taken
    <3>2. Sent(s) = 2 /\ chan[s][r] = <<Reverse>>
      BY <1>3, <2>0, <3>1 DEF Carried
    <3>3. Head(chan[s][r]) = Reverse /\ Tail(chan[s][r]) = <<>>
      BY <3>2
    <3> QED
      BY <1>1, <1>3, <2>0, <2>1, <3>1, <3>2, <3>3 DEF Carried
  <2> QED
    BY <2>2, <2>3
<1>6. ASSUME NEW s \in World, NEW q \in World, s # q PROVE Carried(s, q)'
  <2>1. CASE q = r
    BY <1>5, <1>6, <2>1
  <2>2. CASE q # r
    <3>1. Sent(s)' = Sent(s) /\ Taken(q)' = Taken(q) /\ chan'[s][q] = chan[s][q]
      BY <1>2, <1>4, <2>2 DEF Sent, Taken
    <3> QED
      BY <1>1, <1>6, <3>1 DEF Channels, Carried
  <2> QED
    BY <2>1, <2>2
<1>7. Channels'
  BY <1>1, <1>2, <1>6 DEF Channels
<1> QED
  BY <1>5, <1>7 DEF Others

LEMMA RankChannels ==
  ASSUME LocalInv, SharedInv, NEW r \in Ranks, RankStep(r)
  PROVE  Channels'
<1>0. /\ TypeOK /\ Channels /\ r \in World /\ Placed(r) /\ RowsWritten(r)
      /\ UNCHANGED <<conf, step>> /\ pc \in [Ranks -> Labels]
      /\ \A q \in World \ {r} : pc'[q] = pc[q]
  BY Frame, WorldFacts DEF LocalInv, SharedInv, RInv, TypeOK
<1> USE DEF At, Goto
<1>1. CASE ForwardSend(r)
  <2>1. /\ pc[r] = "forward" /\ pc'[r] = "forwardWait" /\ Exchanging
        /\ SendAll(r, "forward", rows[r][pair[r].h1][r])
    BY <1>0, <1>1 DEF ForwardSend, Placed, Exchanges
  <2>2. rows[r][pair[r].h1][r] = step
    BY <1>0, <2>1 DEF RowsWritten
  <2> QED
    BY <1>0, <2>1, <2>2, SendChannels
<1>2. CASE ReverseSend(r)
  <2>1. /\ pc[r] = "reverse" /\ pc'[r] = "reverseWait" /\ Exchanging
        /\ SendAll(r, "reverse", step)
    BY <1>0, <1>2 DEF ReverseSend, Placed, Exchanges
  <2> QED
    BY <1>0, <2>1, SendChannels
<1>3. CASE ForwardReceive(r) \/ ReverseReceive(r)
  <2>1. /\ Exchanging /\ ReceiveAll(r)
        /\ \/ pc[r] = "forwardWait" /\ pc'[r] = "continue"
           \/ pc[r] = "reverseWait" /\ pc'[r] = "finish"
    BY <1>0, <1>3 DEF ForwardReceive, ReverseReceive, Placed, Exchanges
  <2> QED
    BY <1>0, <2>1, ReceiveChannels
<1>4. ASSUME chan' = chan,
             \/ pc[r] \in Unrecorded \cup {"scatter"}
                /\ pc'[r] \in Unrecorded \cup {"gather", "scatter", "forward"}
             \/ ~Exchanging
             \/ pc[r] = "continue" /\ pc'[r] = "reverse"
             \/ pc[r] = "finish" /\ pc'[r] = "ready"
             \/ Thrown(r)
      PROVE  Channels'
  <2>1. \/ ~Exchanging \/ World = {r}
        \/ Sent(r)' = Sent(r) /\ Taken(r)' = Taken(r)
    <3>1. CASE Thrown(r)
      BY <1>0, <3>1, ThrownSelf, WorldFacts DEF Sent, Taken
    <3>2. CASE ~Thrown(r)
      BY <1>4, <3>2 DEF Sent, Taken, Unrecorded, Prefixing
    <3> QED
      BY <3>1, <3>2
  <2> QED
    BY <1>0, <1>4, <2>1, QuietChannels
<1>5. CASE CountsOverflow(r) \/ PrepareRefused(r) \/ BeginThrows(r) \/ PrepareFails(r)
           \/ ContinueThrows(r) \/ FinishThrows(r)
  BY <1>4, <1>5 DEF CountsOverflow, PrepareRefused, BeginThrows, PrepareFails,
                    ContinueThrows, FinishThrows
<1>6. CASE Enter(r) \/ Prepare(r) \/ PrepareReused(r)
  BY <1>0, <1>4, <1>6 DEF Enter, Prepare, PrepareReused, Unrecorded, Prefixing
<1>7. CASE Begin(r)
  BY <1>0, <1>4, <1>7 DEF Begin, Exchanging, Unrecorded
<1>8. CASE Record(r) \/ Scatter(r)
  BY <1>0, <1>4, <1>8 DEF Record, Scatter, AfterRecord, Unrecorded
<1>9. CASE Continue(r) \/ Finish(r)
  BY <1>0, <1>4, <1>9 DEF Continue, Finish
<1> QED
  BY <1>1, <1>2, <1>3, <1>5, <1>6, <1>7, <1>8, <1>9 DEF RankStep

-----------------------------------------------------------------------------
(***************************************************************************)
(* The capacity records                                                    *)
(***************************************************************************)
LEMMA RankRecorded ==
  ASSUME LocalInv, SharedInv, NEW r \in Ranks, RankStep(r)
  PROVE  Recorded'
<1>0. /\ TypeOK /\ Recorded /\ r \in World /\ Tracked(r)
      /\ UNCHANGED <<conf, step, ago>> /\ pc \in [Ranks -> Labels]
      /\ records \in [Ranks -> Seq(0..MaxStep)]
      /\ \A q \in World \ {r} : pc'[q] = pc[q] /\ records'[q] = records[q]
  BY Frame, WorldFacts DEF LocalInv, SharedInv, RInv, TypeOK
<1>1. UNCHANGED <<World, Prepared>> /\ Root \in World
  BY <1>0, WorldFacts DEF World, Prepared
<1>2. ASSUME records' = records,
             \/ /\ pc'[r] \in Unrecorded <=> pc[r] \in Unrecorded
                /\ pc'[r] = "gather" <=> pc[r] = "gather"
             \/ World = {Root} /\ pc'[r] = "ready" /\ pc[r] # "gather"
      PROVE  Recorded'
  <2>1. CASE /\ pc'[r] \in Unrecorded <=> pc[r] \in Unrecorded
             /\ pc'[r] = "gather" <=> pc[r] = "gather"
    <3>1. \A q \in World : pc'[q] \in Unrecorded <=> pc[q] \in Unrecorded
      BY <1>0, <2>1
    <3>2. Gathering' <=> Gathering
      BY <1>0, <1>1, <2>1 DEF Gathering
    <3> QED
      BY <1>0, <1>1, <1>2, <3>1, <3>2 DEF Recorded
  <2>2. CASE World = {Root} /\ pc'[r] = "ready" /\ pc[r] # "gather"
    <3>1. r = Root /\ records[Root] = <<>>
      BY <1>0, <2>2 DEF Recorded, Gathering
    <3> QED
      BY <1>0, <1>1, <1>2, <2>2, <3>1 DEF Recorded, Gathering, Unrecorded, Prefixing
  <2> QED
    BY <1>2, <2>1, <2>2
<1> USE DEF At, Goto
<1>3. CASE Record(r)
  <2>1. /\ pc[r] = "record" /\ pc'[r] \notin Unrecorded
        /\ pc'[r] = IF Prepared /\ pair[r].rebuild /\ r = Root THEN "gather" ELSE AfterRecord
        /\ records'[r] = IF Prepared /\ pair[r].rebuild THEN Append(records[r], step)
                         ELSE records[r]
    BY <1>0, <1>3 DEF Record, AfterRecord, Unrecorded, Prefixing
  <2>2. Prepared => (pair[r].rebuild <=> ago = 0)
    BY <1>0, <2>1 DEF Tracked
  <2>3. records[r] = <<>>
    BY <1>0, <2>1 DEF Recorded, Unrecorded
  <2>4. records'[r] = IF Prepared /\ ago = 0 THEN <<step>> ELSE <<>>
    BY <2>1, <2>2, <2>3, ShortSequences
  <2>5. Prepared /\ ago = 0 => Gathering
    BY <1>0, <2>1 DEF Recorded, Unrecorded
  <2>6. Prepared /\ ago = 0 => Gathering'
    BY <1>0, <1>1, <2>1, <2>2, <2>5 DEF Gathering
  <2>7. ASSUME NEW q \in World
        PROVE  records'[q] = IF Prepared /\ ago = 0 /\ pc'[q] \notin Unrecorded /\ Gathering'
                             THEN <<step>> ELSE <<>>
    BY <1>0, <2>1, <2>4, <2>5, <2>6 DEF Recorded
  <2> QED
    BY <1>0, <1>1, <2>6, <2>7 DEF Recorded
<1>4. CASE CountsOverflow(r) \/ PrepareRefused(r) \/ BeginThrows(r) \/ PrepareFails(r)
           \/ ContinueThrows(r) \/ FinishThrows(r)
  <2>1. records' = records /\ Thrown(r) /\ pc[r] # "gather"
    BY <1>4 DEF CountsOverflow, PrepareRefused, BeginThrows, PrepareFails,
                ContinueThrows, FinishThrows
  <2> QED
    BY <1>0, <1>2, <2>1, ThrownSelf, WorldFacts
<1>5. CASE Enter(r) \/ Prepare(r) \/ PrepareReused(r)
  BY <1>0, <1>2, <1>5 DEF Enter, Prepare, PrepareReused, Unrecorded, Prefixing
<1>6. CASE Begin(r)
  <2>1. conf.mode = "no_domain_decomposition" => World = {Root}
    BY <1>0 DEF TypeOK, Configurations, World
  <2> QED
    BY <1>0, <1>2, <1>6, <2>1 DEF Begin, Unrecorded
<1>7. CASE Scatter(r) \/ ForwardSend(r) \/ ForwardReceive(r)
  BY <1>0, <1>2, <1>7 DEF Scatter, ForwardSend, ForwardReceive, Unrecorded, Prefixing
<1>8. CASE Continue(r) \/ ReverseSend(r) \/ ReverseReceive(r) \/ Finish(r)
  BY <1>0, <1>2, <1>8
     DEF Continue, ReverseSend, ReverseReceive, Finish, Unrecorded, Prefixing
<1> QED
  BY <1>3, <1>4, <1>5, <1>6, <1>7, <1>8 DEF RankStep

-----------------------------------------------------------------------------
(***************************************************************************)
(* The H1 rows and the adjoint rows                                        *)
(***************************************************************************)
\* Nothing this rank's rows depend on has changed.
LEMMA SameRows ==
  ASSUME NEW r \in World, RowsWritten(r), AdjointsAdded(r),
         UNCHANGED <<conf, step, pair[r], native[r], rows[r], adjoint[r]>>,
         \/ pc'[r] = pc[r]
         \/ pc'[r] \in Outside
         \/ pc[r] \in {"record", "gather"} /\ pc'[r] \in {"gather", "scatter"}
         \/ pc[r] = "forward" /\ pc'[r] = "forwardWait"
         \/ pc[r] = "reverse" /\ pc'[r] = "reverseWait"
         \/ ~Exchanging
  PROVE  RowsWritten(r)' /\ AdjointsAdded(r)'
<1>1. UNCHANGED <<World, Prepared, Exchanging, OwnBuffer(r)>>
  BY DEF World, Prepared, Exchanging, OwnBuffer
<1>2. RowsWritten(r)'
  BY <1>1 DEF RowsWritten, Outside, Prefixing
<1>3. AdjointsAdded(r)'
  BY <1>1 DEF AdjointsAdded, Outside, Prefixing
<1> QED
  BY <1>2, <1>3

LEMMA RankRows ==
  ASSUME LocalInv, SharedInv, NEW r \in Ranks, RankStep(r), NEW q \in World
  PROVE  RowsWritten(q)' /\ AdjointsAdded(q)'
<1>0. /\ TypeOK /\ Channels /\ r \in World /\ Placed(r) /\ q \in Ranks
      /\ RowsWritten(r) /\ AdjointsAdded(r) /\ RowsWritten(q) /\ AdjointsAdded(q)
      /\ UNCHANGED <<conf, step>> /\ \A p \in World \ {r} : pc'[p] = pc[p]
  BY Frame, WorldFacts DEF LocalInv, SharedInv, RInv
<1>1. CASE q # r
  BY <1>0, <1>1, Frame, SameRows
<1>2. /\ native \in [Ranks -> NativeType] /\ pair \in [Ranks -> PairType]
      /\ native[r] \in NativeType /\ pair[r] \in PairType /\ pc \in [Ranks -> Labels]
      /\ adjoint \in [Ranks -> SUBSET (Ranks \X (0..MaxStep))]
      /\ rows \in [Ranks -> [Buffers -> [Ranks -> 0..MaxStep]]]
      /\ OwnBuffer(r) \in Buffers /\ pair[r].h1 \in Buffers
  BY <1>0 DEF TypeOK, NativeType, PairType, OwnBuffer, Buffers
<1>3. UNCHANGED <<World, Prepared, Exchanging>> /\ World \subseteq Ranks
  BY <1>0, WorldFacts DEF World, Prepared, Exchanging
<1>4. ASSUME RowsWritten(r)', AdjointsAdded(r)' PROVE RowsWritten(q)' /\ AdjointsAdded(q)'
  BY <1>1, <1>4
<1>5. ASSUME pair'[r].h1 = pair[r].h1, pc'[r] \in Outside
      PROVE  RowsWritten(r)' /\ AdjointsAdded(r)'
  BY <1>0, <1>3, <1>5 DEF RowsWritten, AdjointsAdded, Outside, Prefixing
<1> USE DEF At, Goto
<1>6. CASE Enter(r) \/ Prepare(r) \/ PrepareReused(r)
  <2>1. pair'[r].h1 = pair[r].h1
    BY <1>2, <1>6 DEF Enter, Prepare, PrepareReused, PairType
  <2>2. pc'[r] \in {"allreduce", "prepare", "begin"}
    BY <1>2, <1>6 DEF Enter, Prepare, PrepareReused
  <2> QED
    BY <1>4, <1>5, <2>1, <2>2 DEF Outside, Prefixing
<1>7. CASE CountsOverflow(r) \/ PrepareRefused(r) \/ BeginThrows(r) \/ PrepareFails(r)
  <2>1. pair' = pair /\ pc[r] \in {"prepare", "begin"} /\ Thrown(r)
    BY <1>7 DEF CountsOverflow, PrepareRefused, BeginThrows, PrepareFails
  <2> QED
    BY <1>0, <1>4, <1>5, <2>1, ThrownSelf DEF Outside, Prefixing
<1>8. CASE ContinueThrows(r) \/ FinishThrows(r)
  <2>1. /\ pair' = pair /\ rows' = rows /\ adjoint' = adjoint /\ Thrown(r) /\ Prepared
        /\ native'[r] = Caught(r)
    BY <1>2, <1>8 DEF ContinueThrows, FinishThrows
  <2>2. native'[r].tiled = native[r].tiled
    BY <1>2, <2>1 DEF Caught, NativeType
  <2>3. OwnBuffer(r)' = OwnBuffer(r)
    BY <1>3, <2>2 DEF OwnBuffer
  <2>4. CASE pc'[r] = pc[r]
    <3>1. RowsWritten(r)'
      BY <1>0, <1>3, <2>1, <2>3, <2>4 DEF RowsWritten
    <3>2. AdjointsAdded(r)'
      BY <1>0, <1>3, <2>1, <2>2, <2>4 DEF AdjointsAdded
    <3> QED
      BY <1>4, <3>1, <3>2
  <2>5. CASE pc'[r] = "ready"
    BY <1>4, <1>5, <2>1, <2>5 DEF Outside
  <2> QED
    BY <1>0, <2>1, <2>4, <2>5, ThrownSelf
<1>9. CASE Begin(r)
  <2>1. CASE ~Exchanging
    BY <1>0, <1>3, <1>4, <1>9, <2>1 DEF Begin, RowsWritten, AdjointsAdded
  <2>2. CASE Exchanging
    <3>1. /\ pair' = pair /\ pc'[r] = "record" /\ native'[r].tiled = native[r].tiled
          /\ rows' = [rows EXCEPT ![r][OwnBuffer(r)][r] = step]
          /\ native[r].tiled => adjoint'[r] = {}
      BY <1>2, <1>9, <2>2 DEF Begin, Exchanging, NativeType
    <3>2. rows'[r][OwnBuffer(r)][r] = step
      BY <1>2, <3>1
    <3>3. OwnBuffer(r)' = OwnBuffer(r)
      BY <1>3, <3>1 DEF OwnBuffer
    <3>4. RowsWritten(r)'
      BY <1>0, <1>3, <3>1, <3>2, <3>3 DEF RowsWritten
    <3>5. AdjointsAdded(r)'
      BY <1>3, <3>1 DEF AdjointsAdded
    <3> QED
      BY <1>4, <3>4, <3>5
  <2> QED
    BY <2>1, <2>2
<1>10. CASE Record(r) \/ ForwardSend(r) \/ ReverseSend(r) \/ Finish(r)
  <2>1. CASE Finish(r)
    BY <1>2, <1>4, <1>5, <2>1 DEF Finish, Outside
  <2>2. CASE Record(r) \/ ForwardSend(r) \/ ReverseSend(r)
    <3>1. /\ UNCHANGED <<pair, native, rows, adjoint>>
          /\ \/ pc[r] \in {"record", "gather"} /\ pc'[r] \in {"gather", "scatter"}
             \/ pc[r] = "forward" /\ pc'[r] = "forwardWait"
             \/ pc[r] = "reverse" /\ pc'[r] = "reverseWait"
             \/ ~Exchanging
      BY <1>2, <2>2 DEF Record, ForwardSend, ReverseSend, AfterRecord
    <3> QED
      BY <1>0, <1>4, <3>1, SameRows
  <2> QED
    BY <1>10, <2>1, <2>2
<1>11. CASE Scatter(r)
  <2>1. /\ pc[r] = "scatter" /\ pc'[r] = "forward" /\ native' = native /\ adjoint' = adjoint
        /\ Exchanging
    BY <1>0, <1>2, <1>11 DEF Scatter, Placed, Exchanges
  <2>2. rows[r][OwnBuffer(r)][r] = step
    BY <1>0, <2>1 DEF RowsWritten
  <2>3. rows'[r][pair'[r].h1][r] = step
    <3>1. CASE Prepared /\ native[r].tiled
      BY <1>2, <1>11, <2>2, <3>1 DEF Scatter, OwnBuffer, PairType
    <3>2. CASE Prepared /\ ~native[r].tiled
      <4>1. PICK h \in {pair[r].h1, "communicated"} :
              /\ pair' = [pair EXCEPT ![r].h1 = h]
              /\ rows' = [rows EXCEPT ![r][h] = [ZeroRows EXCEPT ![r] = rows[r]["prefix"][r]]]
        BY <1>11, <3>2 DEF Scatter
      <4>2. h \in Buffers /\ pair'[r].h1 = h
        BY <1>2, <4>1 DEF PairType, Buffers
      <4>3. rows'[r][h] = [ZeroRows EXCEPT ![r] = rows[r]["prefix"][r]]
        BY <1>2, <4>1, <4>2
      <4>4. rows'[r][h][r] = rows[r]["prefix"][r]
        BY <4>3 DEF ZeroRows
      <4> QED
        BY <2>2, <3>2, <4>2, <4>4 DEF OwnBuffer
    <3>3. CASE ~Prepared
      BY <1>0, <1>11, <2>2, <3>3 DEF Scatter, OwnBuffer, RowsWritten
    <3> QED
      BY <3>1, <3>2, <3>3
  <2>4. ~Prepared => pair'[r].h1 = "communicated"
    BY <1>0, <1>11 DEF Scatter, RowsWritten
  <2>5. RowsWritten(r)' /\ AdjointsAdded(r)'
    BY <1>0, <1>3, <2>1, <2>3, <2>4 DEF RowsWritten, AdjointsAdded
  <2> QED
    BY <1>4, <2>5
<1>12. CASE ForwardReceive(r)
  <2>1. /\ pc[r] = "forwardWait" /\ pc'[r] = "continue" /\ Exchanging /\ ReceiveAll(r)
        /\ UNCHANGED <<pair, native, adjoint>>
    BY <1>0, <1>2, <1>12 DEF ForwardReceive, Placed, Exchanges
  <2>2. \A s \in Others(r) : Head(chan[s][r]).value = step
    BY <1>0, <2>1, ReceiveChannels
  <2>3. rows[r][pair[r].h1][r] = step
    BY <1>0, <2>1 DEF RowsWritten
  <2>4. rows'[r][pair[r].h1] =
          [o \in Ranks |-> IF o \in Others(r) THEN Head(chan[o][r]).value
                           ELSE rows[r][pair[r].h1][o]]
    BY <1>2, <1>12 DEF ForwardReceive
  <2>5. \A o \in World : rows'[r][pair[r].h1][o] = step
    BY <1>3, <2>2, <2>3, <2>4 DEF Others
  <2>6. RowsWritten(r)' /\ AdjointsAdded(r)'
    BY <1>0, <1>3, <2>1, <2>5 DEF RowsWritten, AdjointsAdded
  <2> QED
    BY <1>4, <2>6
<1>13. CASE Continue(r)
  <2>1. /\ pc[r] = "continue" /\ pc'[r] = "reverse" /\ Exchanging /\ pair' = pair
        /\ rows' = rows
        /\ adjoint'[r] = {<<r, step>>} \cup (IF Prepared /\ native[r].tiled THEN adjoint[r]
                                             ELSE {})
    BY <1>0, <1>2, <1>13 DEF Continue, Placed, Exchanges
  <2>2. adjoint'[r] = {<<r, step>>}
    BY <1>0, <2>1 DEF AdjointsAdded
  <2>3. RowsWritten(r)' /\ AdjointsAdded(r)'
    BY <1>0, <1>3, <2>1, <2>2 DEF RowsWritten, AdjointsAdded
  <2> QED
    BY <1>4, <2>3
<1>14. CASE ReverseReceive(r)
  <2>1. /\ pc[r] = "reverseWait" /\ pc'[r] = "finish" /\ Exchanging /\ ReceiveAll(r)
        /\ UNCHANGED <<pair, native, rows>>
        /\ adjoint'[r] = adjoint[r] \cup {<<s, Head(chan[s][r]).value>> : s \in Others(r)}
    BY <1>0, <1>2, <1>14 DEF ReverseReceive, Placed, Exchanges
  <2>2. \A s \in Others(r) : Head(chan[s][r]).value = step
    BY <1>0, <2>1, ReceiveChannels
  <2>3. adjoint[r] = {<<r, step>>}
    BY <1>0, <2>1 DEF AdjointsAdded
  <2>4. {<<s, Head(chan[s][r]).value>> : s \in Others(r)} = Others(r) \X {step}
    BY <2>2
  <2>5. adjoint'[r] = World \X {step}
    BY <1>0, <2>1, <2>3, <2>4 DEF Others
  <2>6. RowsWritten(r)' /\ AdjointsAdded(r)'
    BY <1>0, <1>3, <2>1, <2>5 DEF RowsWritten, AdjointsAdded
  <2> QED
    BY <1>4, <2>6
<1> QED
  BY <1>6, <1>7, <1>8, <1>9, <1>10, <1>11, <1>12, <1>13, <1>14 DEF RankStep

-----------------------------------------------------------------------------
(***************************************************************************)
(* The driver and the collectives                                          *)
(***************************************************************************)
\* When every rank is ready, no message and no record is under way.
LEMMA StartShared ==
  ASSUME LocalInv, SharedInv, Timestep \/ Coeff
  PROVE  SharedInv'
<1>0. /\ TypeOK /\ World \subseteq Ranks /\ Root \in World
      /\ UNCHANGED <<conf, World, Prepared, Exchanging, chan, records>>
  BY WorldFacts DEF LocalInv, Timestep, Coeff, World, Prepared, Exchanging
<1>1. \A r \in World : pc[r] = "ready" /\ pc'[r] = "enter"
  BY <1>0 DEF Timestep, Coeff, StartStep, AllReady
<1>2. \A r \in World :
        Sent(r) = 2 /\ Taken(r) = 2 /\ Sent(r)' = 0 /\ Taken(r)' = 0
  BY <1>1 DEF Sent, Taken
<1>3. \A s, r \in World : chan[s][r] = <<>>
  BY <1>2 DEF SharedInv, Channels, Carried
<1>4. Channels'
  BY <1>0, <1>2, <1>3 DEF Channels, Carried
<1>5. \A r \in World : records[r] = <<>>
  BY <1>0, <1>1 DEF SharedInv, Recorded, Gathering, Unrecorded, Prefixing
<1>6. Recorded'
  BY <1>0, <1>1, <1>5 DEF Recorded, Gathering, Unrecorded, Prefixing
<1>7. ASSUME NEW r \in World PROVE RowsWritten(r)' /\ AdjointsAdded(r)'
  <2>1. pair'[r].h1 \in {pair[r].h1, "communicated"}
    BY <1>0 DEF Timestep, Coeff, FreshPair
  <2>2. ~Prepared => pair'[r].h1 = "communicated"
    BY <2>1 DEF SharedInv, RowsWritten
  <2> QED
    BY <1>0, <1>1, <2>2 DEF RowsWritten, AdjointsAdded
<1> QED
  BY <1>0, <1>4, <1>6, <1>7 DEF SharedInv

LEMMA AllreduceShared ==
  ASSUME LocalInv, SharedInv, Allreduce
  PROVE  SharedInv'
<1>0. /\ TypeOK /\ World \subseteq Ranks /\ Root \in World
      /\ UNCHANGED <<conf, step, ago, pair, native, rows, adjoint, chan, records>>
      /\ \A r \in World : pc[r] = "allreduce" /\ pc'[r] = "prepare"
  BY WorldFacts DEF LocalInv, Allreduce, TypeOK
<1>1. UNCHANGED <<World, Prepared, Exchanging, Forward, Reverse>>
  BY <1>0 DEF World, Prepared, Exchanging, Forward, Reverse
<1>2. \A r \in World : RowsWritten(r)' /\ AdjointsAdded(r)'
  BY <1>0, <1>1, SameRows DEF SharedInv, Outside, Prefixing
<1>3. \A r \in World : Sent(r)' = Sent(r) /\ Taken(r)' = Taken(r)
  BY <1>0 DEF Sent, Taken
<1>4. Channels'
  BY <1>0, <1>1, <1>3 DEF SharedInv, Channels, Carried
<1>5. Recorded'
  BY <1>0, <1>1 DEF SharedInv, Recorded, Gathering, Unrecorded, Prefixing
<1> QED
  BY <1>1, <1>2, <1>4, <1>5 DEF SharedInv

\* The gather takes one record of this step from every rank.
LEMMA GatherShared ==
  ASSUME LocalInv, SharedInv, Gather
  PROVE  SharedInv'
<1>0. /\ TypeOK /\ World \subseteq Ranks /\ Root \in World /\ Root \in Ranks
      /\ UNCHANGED <<conf, step, ago, pair, native, rows, adjoint, chan>>
      /\ pc[Root] = "gather" /\ pc'[Root] = AfterRecord
      /\ \A q \in World \ {Root} : pc'[q] = pc[q]
      /\ \A r \in World : records[r] # <<>> /\ records'[r] = Tail(records[r])
  BY WorldFacts, RanksAssumption DEF LocalInv, Gather, TypeOK, At, Goto
<1>1. UNCHANGED <<World, Prepared, Exchanging>>
  BY <1>0 DEF World, Prepared, Exchanging
<1>2. \A r \in World : RowsWritten(r)' /\ AdjointsAdded(r)'
  BY <1>0, <1>1, SameRows DEF SharedInv, AfterRecord
<1>3. ~Exchanging \/ (Sent(Root)' = Sent(Root) /\ Taken(Root)' = Taken(Root))
  BY <1>0 DEF Sent, Taken, AfterRecord
<1>4. Channels'
  BY <1>0, <1>3, QuietChannels DEF SharedInv
<1>5. \A r \in World : records[r] = <<step>> /\ pc[r] \notin Unrecorded
  BY <1>0 DEF SharedInv, Recorded
<1>6. \A r \in World : records'[r] = <<>>
  BY <1>0, <1>5, ShortSequences
<1>7. pc'[Root] \notin Unrecorded \cup {"gather"}
  BY <1>0 DEF AfterRecord, Unrecorded, Prefixing
<1>8. Recorded'
  BY <1>0, <1>1, <1>5, <1>6, <1>7 DEF Recorded, Gathering
<1> QED
  BY <1>1, <1>2, <1>4, <1>8 DEF SharedInv

LEMMA NextShared == LocalInv /\ SharedInv /\ [Next]_vars => SharedInv'
<1> SUFFICES ASSUME LocalInv, SharedInv, [Next]_vars PROVE SharedInv'
  OBVIOUS
<1>1. CASE UNCHANGED vars
  <2>1. UNCHANGED <<World, Prepared, Exchanging, Forward, Reverse, Gathering>>
    BY <1>1 DEF vars, World, Prepared, Exchanging, Forward, Reverse, Gathering
  <2>2. \A r \in World : RowsWritten(r)' /\ AdjointsAdded(r)'
    BY <1>1, SameRows DEF SharedInv, vars
  <2>3. Channels'
    BY <1>1, <2>1 DEF SharedInv, Channels, Carried, Sent, Taken, vars
  <2>4. Recorded'
    BY <1>1, <2>1 DEF SharedInv, Recorded, vars
  <2> QED
    BY <2>1, <2>2, <2>3, <2>4 DEF SharedInv
<1>2. ASSUME NEW r \in Ranks, RankStep(r) PROVE SharedInv'
  <2>1. World' = World
    BY <1>2, Frame DEF LocalInv, World
  <2> QED
    BY <1>2, <2>1, RankRows, RankChannels, RankRecorded DEF SharedInv
<1> QED
  BY <1>1, <1>2, StartShared, AllreduceShared, GatherShared DEF Next

\* What a rank waits for is what it receives, for any number of ranks, each
\* deciding alone which collectives to enter.
THEOREM Matching == Spec => []ExchangesMatch
<1>1. LocalInv /\ SharedInv => ExchangesMatch
  <2> SUFFICES ASSUME LocalInv, SharedInv PROVE ExchangesMatch
    OBVIOUS
  <2>1. ASSUME NEW r \in World, NEW s \in World, chan[s][r] # <<>>
        PROVE  /\ pc[r] = "forwardWait" => Head(chan[s][r]) = Forward
               /\ pc[r] = "reverseWait" => Head(chan[s][r]) = Reverse
    <3>1. Carried(s, r)
      BY <2>1 DEF SharedInv, Channels
    <3>2. CASE pc[r] = "forwardWait"
      <4>0. Taken(r) = 0
        BY <3>2 DEF Taken
      <4>1. chan[s][r] = <<Forward>> \/ chan[s][r] = <<Forward, Reverse>>
        BY <2>1, <3>1, <4>0 DEF Carried
      <4>2. Head(<<Forward>>) = Forward /\ Head(<<Forward, Reverse>>) = Forward
        BY ShortSequences
      <4> QED
        BY <3>2, <4>1, <4>2
    <3>3. CASE pc[r] = "reverseWait"
      <4>1. chan[s][r] = <<Reverse>>
        BY <2>1, <3>1, <3>3 DEF Carried, Taken
      <4> QED
        BY <3>3, <4>1, ShortSequences
    <3> QED
      BY <3>2, <3>3
  <2>2. ASSUME NEW r \in World, records[r] # <<>> PROVE Head(records[r]) = step
    BY <2>2, ShortSequences DEF SharedInv, Recorded
  <2> QED
    BY <2>1, <2>2 DEF ExchangesMatch, Forward, Reverse
<1> QED
  BY <1>1, InitLocal, InitShared, NextLocal, NextShared, PTL DEF Spec

\* The middle part reads rows of this step only.
THEOREM RowsCurrent == Spec => []GhostRowsCurrent
<1>1. LocalInv /\ SharedInv => GhostRowsCurrent
  BY WorldFacts
     DEF LocalInv, SharedInv, RInv, Placed, Exchanges, RowsWritten, GhostRowsCurrent
<1> QED
  BY <1>1, InitLocal, InitShared, NextLocal, NextShared, PTL DEF Spec

\* The suffix starts from one contribution of this step of every rank.
THEOREM AdjointsCurrent == Spec => []AdjointsComplete
<1>1. LocalInv /\ SharedInv => AdjointsComplete
  BY WorldFacts
     DEF LocalInv, SharedInv, RInv, Placed, Exchanges, AdjointsAdded, AdjointsComplete
<1> QED
  BY <1>1, InitLocal, InitShared, NextLocal, NextShared, PTL DEF Spec
=============================================================================
