---------------------------- MODULE PairExchange ----------------------------
(***************************************************************************)
(* The LAMMPS pair style symmetrix/mace(/kk) on the ranks of an MPI world: *)
(* which steps rebuild the prepared graph, the three-part evaluation       *)
(* (prefix, middle, suffix) around the H1 and H1-adjoint exchanges, the    *)
(* collectives that report capacities, and what an exception leaves        *)
(* behind.                                                                 *)
(*                                                                         *)
(* The numbers a rank computes are abstracted to the step they belong to:  *)
(* row o of an H1 buffer holds the number of the step in which rank o      *)
(* computed it, 0 when it was zeroed or never written.  A rank's atoms     *)
(* (tags, types and their order, ghosts included) and the neighbor list    *)
(* are identities from small sets, so that a topology may also come back.  *)
(***************************************************************************)
EXTENDS Integers, Sequences, FiniteSets

CONSTANTS
  Ranks,     \* the ranks a world is drawn from
  Root,      \* comm->me == 0
  MaxStep    \* bound: the number of force evaluations

ASSUME RanksAssumption == Root \in Ranks /\ IsFiniteSet(Ranks)
ASSUME MaxStepAssumption == MaxStep \in Nat \ {0}

\* The identities that atoms and neighbor lists take.
Shapes == {1, 2}

NoGraph == <<0, 0>>

Modes == {"direct", "generic", "no_domain_decomposition"}

\* What a run is configured with: the model has one or two layers, the style
\* runs prepared ("direct") or unprepared ("generic") message passing or the
\* single-process mode; a driver either aborts the world at the first error
\* (the lmp executable) or catches it and may evaluate again (one process
\* that uses LAMMPS as a library).
Configurations ==
  {c \in [world : {w \in SUBSET Ranks : Root \in w},
          layers : {"single", "dual"}, mode : Modes,
          driver : {"lmp", "library"}] :
     /\ c.mode = "no_domain_decomposition" => c.world = {Root}
     /\ c.mode = "generic" => c.layers = "dual"
     /\ c.driver = "library" => c.world = {Root}}

Kinds == {"forward", "reverse"}

Labels == {"ready", "enter", "allreduce", "prepare", "begin", "record", "gather",
           "scatter", "forward", "forwardWait", "continue", "reverse",
           "reverseWait", "finish"}

VARIABLES
  conf,     \* the configuration, fixed at the start
  step,     \* the number of the current force evaluation
  ago,      \* neighbor->ago: 0 on a step that built a new list
  atoms,    \* per rank: identity of its owned and ghost atoms and their types
  list,     \* identity of the neighbor list
  pc,       \* per rank: where compute_mpi_message_passing stands
  pair,     \* per rank: token, fingerprint, H1 handle and rebuild_topology
  native,   \* per rank: prepared graph, its generation, the plan and the phase
  rows,     \* per rank: the H1 rows of its three buffers
  adjoint,  \* per rank: the contributions added up in its own adjoint rows
  chan,     \* messages between ranks, in order
  records,  \* per rank: the capacity records on their way to the root
  fault     \* "caught": the last evaluation threw; "aborted": MPI_Abort was called

vars == <<conf, step, ago, atoms, list, pc, pair, native, rows, adjoint, chan,
          records, fault>>

World == conf.world
Prepared == conf.mode # "generic"
Exchanging == conf.layers = "dual" /\ conf.mode # "no_domain_decomposition"

Buffers == {"prefix", "communicated", "graph"}
ZeroRows == [o \in Ranks |-> 0]

FreshPair == [token |-> 0, fingerprint |-> 0, h1 |-> "communicated", rebuild |-> FALSE]
FreshNative == [counter |-> 0, generation |-> 0, graph |-> NoGraph,
                tiled |-> FALSE, phase |-> "idle"]

Init ==
  /\ conf \in Configurations
  /\ step = 0
  /\ ago = 0
  /\ atoms = [r \in Ranks |-> 1]
  /\ list = 1
  /\ pc = [r \in Ranks |-> "ready"]
  /\ pair = [r \in Ranks |-> FreshPair]
  /\ native = [r \in Ranks |-> FreshNative]
  /\ rows = [r \in Ranks |-> [b \in Buffers |-> ZeroRows]]
  /\ adjoint = [r \in Ranks |-> {}]
  /\ chan = [s \in Ranks |-> [d \in Ranks |-> <<>>]]
  /\ records = [r \in Ranks |-> <<>>]
  /\ fault = "none"

-----------------------------------------------------------------------------
(***************************************************************************)
(* The driver (external).  LAMMPS's own exchange of positions keeps a rank *)
(* from starting a step before its neighbors have left the previous one.   *)
(* Atoms migrate, and types change, only on a step with a new list, and a  *)
(* driver that caught an error sets up again, with a new list.             *)
(***************************************************************************)
AllReady == \A r \in World : pc[r] = "ready"

StartStep(newAgo) ==
  /\ AllReady
  /\ fault # "aborted"
  /\ fault = "caught" => newAgo = 0
  /\ fault' = "none"
  /\ step < MaxStep
  /\ step' = step + 1
  /\ ago' = newAgo
  /\ pc' = [r \in Ranks |-> IF r \in World THEN "enter" ELSE "ready"]
  /\ IF newAgo = 0
     THEN /\ list' \in Shapes
          /\ atoms' \in {a \in [Ranks -> Shapes] : \A r \in Ranks \ World : a[r] = atoms[r]}
     ELSE UNCHANGED <<list, atoms>>

Timestep ==
  /\ \E a \in IF step = 0 THEN {0} ELSE {0, 1} : StartStep(a)
  /\ UNCHANGED <<conf, pair, native, rows, adjoint, chan, records>>

\* pair_coeff loads the model again and the run that follows sets up with a
\* new list.  The communicated buffer outlives the model; a handle on the old
\* model's graph buffer keeps that memory as the communicated one.
Coeff ==
  /\ step > 0
  /\ StartStep(0)
  /\ pair' = [r \in Ranks |-> FreshPair]
  /\ native' = [r \in Ranks |-> FreshNative]
  /\ rows' = [r \in Ranks |->
                [b \in Buffers |->
                   IF b = "communicated" THEN rows[r][pair[r].h1] ELSE ZeroRows]]
  /\ UNCHANGED <<conf, adjoint, chan, records>>

-----------------------------------------------------------------------------
(***************************************************************************)
(* What an exception does: the lmp executable aborts every rank; a library *)
(* driver gets the rank back outside compute().                            *)
(***************************************************************************)
Thrown(r) ==
  IF conf.driver = "lmp"
  THEN fault' = "aborted" /\ pc' = pc
  ELSE fault' = "caught" /\ pc' = [pc EXCEPT ![r] = "ready"]

Goto(r, label) == pc' = [pc EXCEPT ![r] = label]

At(r, label) == r \in World /\ pc[r] = label /\ fault # "aborted"

\* Mutant: a new list is noticed only by its atoms.
RebuildTopologyIgnoresList(r) ==
  \/ ~Prepared
  \/ pair[r].token = 0
  \/ pair[r].fingerprint # atoms[r]

\* rebuild_topology: the single-process mode compares no fingerprint.
RebuildTopology(r) ==
  \/ ~Prepared
  \/ pair[r].token = 0
  \/ ago = 0
  \/ conf.mode # "no_domain_decomposition" /\ pair[r].fingerprint # atoms[r]

\* Mutant: the ghost bound is reduced when this rank's own atoms changed.
EnterReducesOnOwnChange(r) ==
  /\ At(r, "enter")
  /\ pair' = [pair EXCEPT ![r].rebuild = RebuildTopology(r)]
  /\ Goto(r, IF Exchanging /\ pair[r].fingerprint # atoms[r] THEN "allreduce" ELSE "prepare")
  /\ UNCHANGED <<conf, step, ago, atoms, list, native, rows, adjoint, chan, records, fault>>

\* Up to the reduction of the ghost counts, which a model with one layer and a
\* step without a new list skip.
Enter(r) ==
  /\ At(r, "enter")
  /\ pair' = [pair EXCEPT ![r].rebuild = RebuildTopology(r)]
  /\ Goto(r, IF Exchanging /\ (pair[r].token = 0 \/ ago = 0)
             THEN "allreduce" ELSE "prepare")
  /\ UNCHANGED <<conf, step, ago, atoms, list, native, rows, adjoint, chan, records, fault>>

\* MPI_Allreduce returns once every rank has called it.
Allreduce ==
  /\ fault # "aborted"
  /\ \A r \in World : pc[r] = "allreduce"
  /\ pc' = [r \in Ranks |-> IF r \in World THEN "prepare" ELSE pc[r]]
  /\ UNCHANGED <<conf, step, ago, atoms, list, pair, native, rows, adjoint, chan,
                 records, fault>>

\* Counts beyond INT_MAX: error->one before the model is touched.
CountsOverflow(r) ==
  /\ At(r, "prepare")
  /\ Thrown(r)
  /\ UNCHANGED <<conf, step, ago, atoms, list, pair, native, rows, adjoint, chan, records>>

-----------------------------------------------------------------------------
(***************************************************************************)
(* prepare_factorized_graph_device                                         *)
(***************************************************************************)
Requested(r) == <<atoms[r], list>>

SameIdentity(r) ==
  native[r].generation # 0 /\ native[r].graph = Requested(r)

\* A graph that was replaced takes the next generation and a plan of the
\* planner's choice; field models and the single-process mode aside, either
\* plan may be chosen from the rank's own memory and graph.
PreparedAs(r, tiled) ==
  IF SameIdentity(r) THEN native[r]
  ELSE [counter |-> native[r].counter + 1, generation |-> native[r].counter + 1,
        graph |-> Requested(r), tiled |-> tiled, phase |-> native[r].phase]

Prepare(r) ==
  /\ At(r, "prepare")
  /\ Prepared /\ pair[r].rebuild
  /\ native[r].phase = "idle"
  /\ \E tiled \in BOOLEAN : native' = [native EXCEPT ![r] = PreparedAs(r, tiled)]
  /\ pair' = [pair EXCEPT ![r].token = native'[r].generation,
                          ![r].fingerprint = atoms[r]]
  /\ Goto(r, "begin")
  /\ UNCHANGED <<conf, step, ago, atoms, list, rows, adjoint, chan, records, fault>>

PrepareReused(r) ==
  /\ At(r, "prepare")
  /\ ~(Prepared /\ pair[r].rebuild)
  /\ Goto(r, "begin")
  /\ UNCHANGED <<conf, step, ago, atoms, list, pair, native, rows, adjoint, chan,
                 records, fault>>

\* Refused while a distributed evaluation is active.
PrepareRefused(r) ==
  /\ At(r, "prepare")
  /\ Prepared /\ pair[r].rebuild
  /\ native[r].phase # "idle"
  /\ Thrown(r)
  /\ UNCHANGED <<conf, step, ago, atoms, list, pair, native, rows, adjoint, chan, records>>

\* Mutant: no generation is written as -1.
InvalidatedNegative(r) == [native[r] EXCEPT !.generation = -1, !.graph = NoGraph]

\* invalidate_factorized_prepared_graph, then the planner's new choice.
Invalidated(r) == [native[r] EXCEPT !.generation = 0, !.graph = NoGraph]

\* The planner, a schedule or an allocation fails after the old graph was
\* invalidated; the token and fingerprint of the pair style stay behind.
PrepareFails(r) ==
  /\ At(r, "prepare")
  /\ Prepared /\ pair[r].rebuild
  /\ native[r].phase = "idle"
  /\ ~SameIdentity(r)
  /\ \E tiled \in BOOLEAN :
       native' = [native EXCEPT ![r] = [Invalidated(r) EXCEPT !.tiled = tiled]]
  /\ Thrown(r)
  /\ UNCHANGED <<conf, step, ago, atoms, list, pair, rows, adjoint, chan, records>>

-----------------------------------------------------------------------------
(***************************************************************************)
(* begin_factorized_distributed_evaluation, its variant on positions, and  *)
(* the evaluations of one layer or one process, which never leave idle     *)
(***************************************************************************)
Accepted(r) ==
  /\ native[r].phase = "idle"
  /\ pair[r].token # 0
  /\ pair[r].token = native[r].generation

OwnBuffer(r) ==
  IF ~Prepared THEN "communicated" ELSE IF native[r].tiled THEN "graph" ELSE "prefix"

\* The prefix writes the H1 rows of the owned atoms; the tiled one also clears
\* the adjoint.
Begin(r) ==
  /\ At(r, "begin")
  /\ Prepared => Accepted(r)
  /\ IF Exchanging
     THEN /\ rows' = [rows EXCEPT ![r][OwnBuffer(r)][r] = step]
          /\ adjoint' = [adjoint EXCEPT ![r] = IF native[r].tiled THEN {} ELSE @]
          /\ native' = [native EXCEPT ![r].phase =
                          IF Prepared THEN "prefix_complete" ELSE @]
     ELSE UNCHANGED <<rows, adjoint, native>>
  /\ Goto(r, IF conf.mode = "no_domain_decomposition" THEN "ready" ELSE "record")
  /\ UNCHANGED <<conf, step, ago, atoms, list, pair, chan, records, fault>>

\* A stale token, an evaluation already active, or a failure of the prefix:
\* the phase was or becomes idle, except when another one is active.
BeginThrows(r) ==
  /\ At(r, "begin")
  /\ Prepared
  /\ Thrown(r)
  /\ UNCHANGED <<conf, step, ago, atoms, list, pair, native, rows, adjoint, chan, records>>

-----------------------------------------------------------------------------
(***************************************************************************)
(* The capacity record: every rank that rebuilt sends one to the root by   *)
(* MPI_Gather.  Only the root waits.                                       *)
(***************************************************************************)
AfterRecord == IF Exchanging THEN "scatter" ELSE "ready"

\* Mutant: the root reports capacities only when its own plan is tiled.
RecordRootSkips(r) ==
  /\ At(r, "record")
  /\ LET sends == Prepared /\ pair[r].rebuild /\ (r = Root => native[r].tiled) IN
     /\ records' = [records EXCEPT ![r] = IF sends THEN Append(@, step) ELSE @]
     /\ Goto(r, IF sends /\ r = Root THEN "gather" ELSE AfterRecord)
  /\ UNCHANGED <<conf, step, ago, atoms, list, pair, native, rows, adjoint, chan, fault>>

Record(r) ==
  /\ At(r, "record")
  /\ LET sends == Prepared /\ pair[r].rebuild IN
     /\ records' = [records EXCEPT ![r] = IF sends THEN Append(@, step) ELSE @]
     /\ Goto(r, IF sends /\ r = Root THEN "gather" ELSE AfterRecord)
  /\ UNCHANGED <<conf, step, ago, atoms, list, pair, native, rows, adjoint, chan, fault>>

Gather ==
  /\ At(Root, "gather")
  /\ \A r \in World : records[r] # <<>>
  /\ records' = [r \in Ranks |-> IF r \in World THEN Tail(records[r]) ELSE records[r]]
  /\ Goto(Root, AfterRecord)
  /\ UNCHANGED <<conf, step, ago, atoms, list, pair, native, rows, adjoint, chan, fault>>

-----------------------------------------------------------------------------
(***************************************************************************)
(* The H1 exchange                                                         *)
(***************************************************************************)
\* Mutant: the retained plan communicates whichever view the model holds.
ScatterTakesModelView(r) ==
  /\ At(r, "scatter")
  /\ LET h == OwnBuffer(r) IN
     /\ pair' = [pair EXCEPT ![r].h1 = h]
     /\ rows' = [rows EXCEPT ![r][h] =
          IF Prepared /\ ~native[r].tiled THEN ZeroRows ELSE @]
  /\ Goto(r, "forward")
  /\ UNCHANGED <<conf, step, ago, atoms, list, native, adjoint, chan, records, fault>>

\* The tiled plan communicates the model's own graph buffer.  A retained one
\* keeps the buffer it has, or allocates one when that is too small, zeroes it
\* and copies the owned rows; the unprepared path copies them without zeroing.
Scatter(r) ==
  /\ At(r, "scatter")
  /\ \/ /\ Prepared /\ native[r].tiled
        /\ pair' = [pair EXCEPT ![r].h1 = "graph"]
        /\ rows' = rows
     \/ /\ Prepared /\ ~native[r].tiled
        /\ \E h \in {pair[r].h1, "communicated"} :
             /\ pair' = [pair EXCEPT ![r].h1 = h]
             /\ rows' = [rows EXCEPT ![r][h] =
                           [ZeroRows EXCEPT ![r] = rows[r]["prefix"][r]]]
     \/ /\ ~Prepared
        /\ UNCHANGED <<pair, rows>>
  /\ Goto(r, "forward")
  /\ UNCHANGED <<conf, step, ago, atoms, list, native, adjoint, chan, records, fault>>

Others(r) == World \ {r}

SendAll(r, kind, value) ==
  chan' = [chan EXCEPT ![r] =
             [d \in Ranks |-> IF d \in Others(r)
                              THEN Append(chan[r][d], [kind |-> kind, value |-> value])
                              ELSE chan[r][d]]]

ReceiveAll(r) ==
  /\ \A s \in Others(r) : chan[s][r] # <<>>
  /\ chan' = [s \in Ranks |->
                IF s \in Others(r) THEN [chan[s] EXCEPT ![r] = Tail(@)] ELSE chan[s]]

\* comm->forward_comm: pack the owned rows, then fill the ghost rows.
ForwardSend(r) ==
  /\ At(r, "forward")
  /\ SendAll(r, "forward", rows[r][pair[r].h1][r])
  /\ Goto(r, "forwardWait")
  /\ UNCHANGED <<conf, step, ago, atoms, list, pair, native, rows, adjoint, records, fault>>

ForwardReceive(r) ==
  /\ At(r, "forwardWait")
  /\ ReceiveAll(r)
  /\ rows' = [rows EXCEPT ![r][pair[r].h1] =
                [o \in Ranks |-> IF o \in Others(r) THEN Head(chan[o][r]).value ELSE @[o]]]
  /\ Goto(r, "continue")
  /\ UNCHANGED <<conf, step, ago, atoms, list, pair, native, adjoint, records, fault>>

\* continue_factorized_distributed_evaluation: the rank's own contributions to
\* the adjoint, added to a buffer the tiled prefix cleared and zeroed here by
\* the other plans.
Continue(r) ==
  /\ At(r, "continue")
  /\ Prepared => native[r].phase = "prefix_complete"
  /\ adjoint' = [adjoint EXCEPT ![r] =
                   {<<r, step>>} \cup (IF Prepared /\ native[r].tiled THEN @ ELSE {})]
  /\ native' = [native EXCEPT ![r].phase = IF Prepared THEN "middle_complete" ELSE @]
  /\ Goto(r, "reverse")
  /\ UNCHANGED <<conf, step, ago, atoms, list, pair, rows, chan, records, fault>>

\* Mutant: the tiled plan's catch forgets the phase.
CaughtNowhere(r) == native[r]

\* The tiled plan's catch returns the phase to idle; the others have none.
Caught(r) == IF native[r].tiled THEN [native[r] EXCEPT !.phase = "idle"] ELSE native[r]

ContinueThrows(r) ==
  /\ At(r, "continue")
  /\ Prepared
  /\ native' = [native EXCEPT ![r] = Caught(r)]
  /\ Thrown(r)
  /\ UNCHANGED <<conf, step, ago, atoms, list, pair, rows, adjoint, chan, records>>

\* comm->reverse_comm: pack the ghost rows, then add to the owned rows.
ReverseSend(r) ==
  /\ At(r, "reverse")
  /\ SendAll(r, "reverse", step)
  /\ Goto(r, "reverseWait")
  /\ UNCHANGED <<conf, step, ago, atoms, list, pair, native, rows, adjoint, records, fault>>

\* Mutant: the owned rows are overwritten instead of added to.
ReverseReceiveAssigns(r) ==
  /\ At(r, "reverseWait")
  /\ ReceiveAll(r)
  /\ adjoint' = [adjoint EXCEPT ![r] = {<<s, Head(chan[s][r]).value>> : s \in Others(r)}]
  /\ Goto(r, "finish")
  /\ UNCHANGED <<conf, step, ago, atoms, list, pair, native, rows, records, fault>>

ReverseReceive(r) ==
  /\ At(r, "reverseWait")
  /\ ReceiveAll(r)
  /\ adjoint' = [adjoint EXCEPT ![r] =
                   @ \cup {<<s, Head(chan[s][r]).value>> : s \in Others(r)}]
  /\ Goto(r, "finish")
  /\ UNCHANGED <<conf, step, ago, atoms, list, pair, native, rows, records, fault>>

\* finish_factorized_distributed_evaluation
Finish(r) ==
  /\ At(r, "finish")
  /\ Prepared => native[r].phase = "middle_complete"
  /\ native' = [native EXCEPT ![r].phase = IF Prepared THEN "idle" ELSE @]
  /\ Goto(r, "ready")
  /\ UNCHANGED <<conf, step, ago, atoms, list, pair, rows, adjoint, chan, records, fault>>

FinishThrows(r) ==
  /\ At(r, "finish")
  /\ Prepared
  /\ native' = [native EXCEPT ![r] = Caught(r)]
  /\ Thrown(r)
  /\ UNCHANGED <<conf, step, ago, atoms, list, pair, rows, adjoint, chan, records>>

-----------------------------------------------------------------------------
RankStep(r) ==
  \/ Enter(r) \/ CountsOverflow(r)
  \/ Prepare(r) \/ PrepareReused(r) \/ PrepareRefused(r) \/ PrepareFails(r)
  \/ Begin(r) \/ BeginThrows(r)
  \/ Record(r)
  \/ Scatter(r)
  \/ ForwardSend(r) \/ ForwardReceive(r)
  \/ Continue(r) \/ ContinueThrows(r)
  \/ ReverseSend(r) \/ ReverseReceive(r)
  \/ Finish(r) \/ FinishThrows(r)

Next ==
  \/ Timestep \/ Coeff
  \/ Allreduce \/ Gather
  \/ \E r \in Ranks : RankStep(r)

\* A rank inside compute() keeps running, and MPI delivers and completes what
\* every participant has entered.  The driver may stop at any step.
Fairness ==
  /\ WF_vars(Allreduce) /\ WF_vars(Gather)
  /\ \A r \in Ranks : WF_vars(RankStep(r))

Spec == Init /\ [][Next]_vars /\ Fairness

-----------------------------------------------------------------------------
(***************************************************************************)
(* Properties                                                              *)
(***************************************************************************)
Messages == [kind : Kinds, value : 0..MaxStep]

\* Every variable stays in its domain; in particular a rank never has more
\* than one message of an exchange and one of the next under way to another.
TypeOK ==
  /\ conf \in Configurations
  /\ step \in 0..MaxStep
  /\ ago \in {0, 1}
  /\ atoms \in [Ranks -> Shapes]
  /\ list \in Shapes
  /\ pc \in [Ranks -> Labels]
  /\ pair \in [Ranks -> [token : 0..MaxStep, fingerprint : {0} \cup Shapes,
                         h1 : Buffers, rebuild : BOOLEAN]]
  /\ native \in [Ranks -> [counter : 0..MaxStep, generation : 0..MaxStep,
                           graph : {NoGraph} \cup (Shapes \X Shapes),
                           tiled : BOOLEAN,
                           phase : {"idle", "prefix_complete", "middle_complete"}]]
  /\ rows \in [Ranks -> [Buffers -> [Ranks -> 0..MaxStep]]]
  /\ adjoint \in [Ranks -> SUBSET (Ranks \X (0..MaxStep))]
  /\ chan \in [Ranks -> [Ranks -> Seq(Messages)]]
  /\ records \in [Ranks -> Seq(0..MaxStep)]
  /\ fault \in {"none", "caught", "aborted"}

\* Ranks choose to rebuild, and to reduce and gather, from their own state, yet
\* what a rank receives is always what it waits for: a forward message for a
\* forward exchange and a reverse one for a reverse exchange, packed in the same
\* step, and the root never gathers a record of an earlier step.
ExchangesMatch ==
  /\ \A r, s \in World :
       chan[s][r] # <<>> =>
         /\ pc[r] = "forwardWait" => Head(chan[s][r]) = [kind |-> "forward", value |-> step]
         /\ pc[r] = "reverseWait" => Head(chan[s][r]) = [kind |-> "reverse", value |-> step]
  /\ pc[Root] = "gather" =>
       \A r \in World : records[r] # <<>> => Head(records[r]) = step

\* The middle part reads, for every owned and ghost atom, the H1 row computed in
\* this very step, whichever plan each rank chose and whichever buffer its
\* handle was left on by earlier plans.
GhostRowsCurrent ==
  \A r \in World :
    pc[r] = "continue" => \A o \in World : rows[r][pair[r].h1][o] = step

\* The suffix starts from adjoint rows that hold the contribution of every rank
\* to this step and nothing of an earlier one.
AdjointsComplete ==
  \A r \in World : pc[r] = "finish" => adjoint[r] = World \X {step}

\* Work is done on the graph of the atoms and the list of the step: whatever
\* failed before, a prefix is only ever computed on a graph that matches both.
EvaluatesCurrentGraph ==
  \A r \in World :
    pc[r] \in {"record", "gather", "scatter", "forward", "forwardWait", "continue",
               "reverse", "reverseWait", "finish"} /\ Prepared
      => native[r].graph = <<atoms[r], list>>

\* Outside compute() no distributed evaluation is left active, except where a
\* retained plan failed under a driver that goes on: only there does the code
\* have no catch.
PhaseReleased ==
  \A r \in World :
    pc[r] = "ready" /\ native[r].phase # "idle"
      => conf.driver = "library" /\ ~native[r].tiled

\* Every evaluation that starts comes to its end on every rank, or the world is
\* aborted: no rank waits for a message, a record or a reduction that another
\* rank, deciding from its own state, never enters.
EvaluationsEnd ==
  \A r \in Ranks : (pc[r] = "enter") ~> (pc[r] = "ready" \/ fault = "aborted")
=============================================================================
