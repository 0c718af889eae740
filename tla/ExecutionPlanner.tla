-------------------------- MODULE ExecutionPlanner --------------------------
(***************************************************************************)
(* The native execution planner of MACEKokkos: how the plan and the        *)
(* capacities of a graph follow from the request and from the device's     *)
(* free memory, and the arrays that successive graphs leave behind for     *)
(* each other, across changes of plan and failed allocations.              *)
(*                                                                         *)
(* A graph is its receiver degrees, its number of feature nodes and the    *)
(* number of source segments of its tiled schedule.  Arrays are their      *)
(* extents: in edges, receivers or feature nodes, 0 when there is none.    *)
(* Bytes are linear in those counts, with the coefficients of Cost.        *)
(***************************************************************************)
EXTENDS Integers, Sequences, FiniteSetsExt, Functions

CONSTANTS
  Graphs,        \* bound: the graphs that are prepared
  FreeBytes,     \* bound: what a device-memory query may answer
  Confs,         \* bound: the configurations of the evaluator
  DebugPlans,    \* bound: the debug plans that are requested
  MaxPrepared,   \* bound: preparations, failed ones included
  Total,         \* device bytes
  MinReserve,    \* minimum_reserve
  ReserveShare,  \* the reserve is at least Total \div ReserveShare
  Cost,          \* bytes per receiver, feature node, edge, ...
  Limit,         \* single_/dual_layer_workspace_receiver_limit
  Threshold,     \* y_only_throughput_threshold_edges
  MinSlack,      \* desired_slack: minimum_slack
  Denominator,   \* desired_slack: denominator
  MaxInt         \* std::numeric_limits<int>::max()

Receivers(g) == Len(g.degrees)

SumDegrees(g, rows) == FoldFunctionOnSet(+, 0, g.degrees, rows)

EdgeCounts == [g \in Graphs |-> SumDegrees(g, DOMAIN g.degrees)]
Edges(g) == EdgeCounts[g]

ASSUME GraphsAssumption ==
  \A g \in Graphs : /\ g \in [degrees : Seq(Nat), features : Nat, segments : Nat]
                    /\ Receivers(g) =< g.features
                    /\ g.features < MaxInt
                    /\ Edges(g) < MaxInt
                    /\ g.segments =< Edges(g)
ASSUME DeviceAssumption ==
  /\ FreeBytes \subseteq 0 .. Total
  /\ {Total, MinReserve, Threshold, MinSlack, MaxInt, MaxPrepared} \subseteq Nat
  /\ {ReserveShare, Limit, Denominator} \subseteq Nat \ {0}
ASSUME CostAssumption ==
  Cost \in [base : Nat, receiver : Nat, adjoint : Nat, feature : Nat, edge : Nat,
            geometry : Nat, gradient : Nat, tiledBase : Nat, tiledReceiver : Nat,
            tiledEdge : Nat, tiledState : Nat, tiledFeature : Nat, workspaceRow : Nat,
            workspaceEdge : Nat, segment : Nat]

\* Where the device cannot be queried, or the query fails.
Unknown == -1

Lowest(a, b) == IF a < b THEN a ELSE b
Highest(a, b) == IF a > b THEN a ELSE b

\* What is fixed for an evaluator: whether the model and the build admit the
\* capacity bundle, Y-only harmonics and the tiled plan, whether Y-only is the
\* faster plan for large graphs (CPU, CUDA FP32), FP32 (compact geometry in
\* the bundle) and a two-layer model.
Configurations ==
  {c \in [bundle : BOOLEAN, yOnly : BOOLEAN, tiled : BOOLEAN,
          throughputYOnly : BOOLEAN, compact : BOOLEAN, dual : BOOLEAN] :
     /\ c.tiled => c.yOnly
     /\ c.yOnly => c.bundle
     /\ c.throughputYOnly => c.yOnly}

ASSUME ConfsAssumption == Confs \subseteq Configurations

Profiles == {"speed", "capacity"}
Plans == {"speed", "yOnly", "retained", "tiled"}
ASSUME DebugAssumption == DebugPlans \subseteq Plans \ {"speed"}

VARIABLES
  conf,        \* the configuration
  profile,     \* execution_plan_.requested_profile, low_memory_request
  debug,       \* execution_plan_debug_id_, "none" or a capacity plan
  allowFixed,  \* allow_fixed_workspace_
  graph,       \* the graph of the valid token
  pc,          \* "none", "prepared" or "evaluated": is a token valid, used
  ev,          \* the evaluator's plan and capacities
  arrays,      \* the extents of its arrays
  report,      \* execution_plan_ for that graph: budget, estimates, choice
  prepared     \* preparations so far

vars == <<conf, profile, debug, allowFixed, graph, pc, ev, arrays, report,
          prepared>>

-----------------------------------------------------------------------------
(* Byte estimates. *)

\* Receivers of one batch of the tiled plans and the edges of its largest one.
TileRows(g) == Lowest(Receivers(g), Limit)

TileEdgeCounts ==
  LET Batch(g, k) == k * TileRows(g) + 1 .. Lowest((k + 1) * TileRows(g), Receivers(g))
  IN  [g \in Graphs |->
         Max({0} \cup {SumDegrees(g, Batch(g, k)) : k \in 0 .. Receivers(g) - 1})]
TileEdges(g) == TileEdgeCounts[g]

\* Sums of degrees are counts, and a batch has no more edges than its graph.
ASSUME SumsAssumption ==
  \A g \in Graphs : Edges(g) \in Nat /\ TileEdges(g) \in 0 .. Edges(g)

GradientBytes(bundle) == IF bundle THEN Cost.gradient ELSE 2 * Cost.gradient

estimate_graph_bytes(r, f, e, bundle, gradients) ==
  Cost.base + r * (IF bundle THEN Cost.receiver ELSE Cost.receiver + Cost.adjoint)
  + f * Cost.feature + e * (Cost.edge + Cost.geometry)
  + (IF gradients THEN e * GradientBytes(bundle) ELSE 0)

estimate_geometry_bytes_per_edge(bundle, gradients) ==
  Cost.geometry + (IF gradients THEN GradientBytes(bundle) ELSE 0)

estimate_tiled_graph_bytes(g, segments) ==
  Cost.tiledBase + Receivers(g) * Cost.tiledReceiver + Edges(g) * Cost.tiledEdge
  + g.features * (IF conf.dual THEN Cost.tiledState ELSE Cost.tiledFeature)
  + TileRows(g) * Cost.workspaceRow + TileEdges(g) * Cost.workspaceEdge
  + (IF conf.dual THEN segments * Cost.segment ELSE 0)

Estimate(g, bundle, gradients) ==
  estimate_graph_bytes(Receivers(g), g.features, Edges(g), bundle, gradients)

-----------------------------------------------------------------------------
(* Policies. *)

y_only_admitted(e) == conf.yOnly /\ (conf.compact => e.bundle)

tiled_admitted(e) == conf.tiled /\ y_only_admitted(e)

\* Does preferred_speed_policy keep harmonic gradients?  (Whether it is a
\* capacity bundle is conf.bundle.)
SpeedRetains(e, edges) ==
  ~ (edges >= Threshold /\ conf.throughputYOnly /\ y_only_admitted(e))

\* The evaluator and its arrays change together in what follows.
State == [ev |-> ev, arrays |-> arrays]

\* No geometry capacity is recorded, nor planned.
NoCapacity(e) == [e EXCEPT !.geoCapacity = 0, !.geoPlanned = 0]

\* Mutant: the arrays are dropped though the policy stays.
select_harmonics_always(s, harmonics) ==
  [s EXCEPT !.ev = [NoCapacity(@) EXCEPT !.harmonics = harmonics],
            !.arrays = [@ EXCEPT !.Y = 0, !.gradient = 0, !.geometry = 0]]

select_harmonics(s, harmonics) ==
  IF harmonics = s.ev.harmonics THEN s
  ELSE [s EXCEPT !.ev = [NoCapacity(@) EXCEPT !.harmonics = harmonics],
                 !.arrays = [@ EXCEPT !.Y = 0, !.gradient = 0, !.geometry = 0]]

set_edge_geometry_policy(s, bundle) ==
  IF conf.compact /\ bundle # s.ev.bundle
  THEN [s EXCEPT !.ev = [NoCapacity(@) EXCEPT !.bundle = bundle],
                 !.arrays = [@ EXCEPT !.geometry = 0]]
  ELSE [s EXCEPT !.ev = [@ EXCEPT !.bundle = bundle]]

apply_low_memory_policy(s, bundle, harmonics) ==
  select_harmonics(set_edge_geometry_policy(s, bundle), harmonics)

\* set_harmonic_storage_policy("retained") as set_low_memory(false) calls it.
retained_harmonics(s) ==
  [s EXCEPT !.ev = [NoCapacity(@) EXCEPT !.harmonics = "retained"],
            !.arrays = [@ EXCEPT !.Y = 0, !.gradient = 0]]

\* resolve_execution_plan: set_low_memory and, for speed, the preferred policy.
set_low_memory(s, enabled) ==
  LET retained == apply_low_memory_policy(s, TRUE, "retained")
      disabled == retained_harmonics(apply_low_memory_policy(s, FALSE, "retained"))
      applied ==
        IF ~ enabled THEN apply_low_memory_policy(disabled, conf.bundle, "retained")
        ELSE IF y_only_admitted(retained.ev)
        THEN apply_low_memory_policy(retained, TRUE, "yOnly")
        ELSE retained
  IN  [applied EXCEPT !.ev = [@ EXCEPT !.selected = 0, !.policy = "pending"]]

-----------------------------------------------------------------------------
(* The choice of a plan: select_low_memory_policy_for_graph.  e is the     *)
(* evaluator as the preparation finds it.                                  *)

Reserve == Highest(MinReserve, Total \div ReserveShare)

\* The planner takes the estimate of its last plan for bytes it gives back.
Available(e, free) ==
  LET reclaimable == IF e.selected > Total - free THEN Total
                     ELSE free + e.selected
  IN  IF free = Unknown THEN 0 ELSE Highest(reclaimable - Reserve, 0)

Estimates(e, g) ==
  [speed |-> Estimate(g, conf.bundle, SpeedRetains(e, Edges(g))),
   yOnly |-> Estimate(g, TRUE, FALSE),
   retained |-> Estimate(g, TRUE, TRUE),
   tiled |-> estimate_tiled_graph_bytes(g, Edges(g))]

selected_capacity_policy(e) == IF y_only_admitted(e) THEN "yOnly" ELSE "retained"

\* Mutant: the tiled plan wherever it is smaller, though Y-only fits.
ChooseSmaller(e, g, free) ==
  LET est == Estimates(e, g)
  IN  IF debug # "none" THEN debug
      ELSE IF profile = "speed" THEN "speed"
      ELSE IF free = Unknown THEN selected_capacity_policy(e)
      ELSE IF est.speed =< Available(e, free) THEN "speed"
      ELSE IF allowFixed /\ tiled_admitted(e) /\ est.tiled < est.yOnly THEN "tiled"
      ELSE selected_capacity_policy(e)

Choose(e, g, free) ==
  LET est == Estimates(e, g)
      available == Available(e, free)
      fixedWorkspace == /\ allowFixed /\ tiled_admitted(e)
                        /\ est.yOnly > available
                        /\ est.tiled < est.yOnly
  IN  IF debug # "none" THEN debug
      ELSE IF profile = "speed" THEN "speed"
      ELSE IF free = Unknown THEN selected_capacity_policy(e)
      ELSE IF est.speed =< available THEN "speed"
      ELSE IF fixedWorkspace THEN "tiled"
      ELSE selected_capacity_policy(e)

\* A debug plan that is not admitted is refused.
Qualified(e, plan) ==
  /\ plan = "yOnly" => y_only_admitted(e)
  /\ plan = "tiled" => tiled_admitted(e)

Retains(e, plan, g) ==
  plan = "retained" \/ (plan = "speed" /\ SpeedRetains(e, Edges(g)))

\* Mutant: the report does not look at the fixed-workspace candidate.
BoundaryIgnoresTiled(e, est, available) ==
  est.speed > available /\ est.yOnly > available /\ est.retained > available

BoundaryAttempt(e, est, available) ==
  /\ est.speed > available /\ est.yOnly > available /\ est.retained > available
  /\ \/ ~ (allowFixed \/ debug = "tiled")
     \/ ~ tiled_admitted(e)
     \/ est.tiled > available

\* refresh_execution_plan_report, which the schedule of a tiled plan runs once
\* more with the segments it found.
Report(e, g, free) ==
  LET plan == Choose(e, g, free)
      available == Available(e, free)
      est == [Estimates(e, g) EXCEPT
                !.tiled = IF plan = "tiled" THEN estimate_tiled_graph_bytes(g, g.segments)
                          ELSE @]
  IN  [plan |-> plan, known |-> free # Unknown,
       available |-> available, estimates |-> est,
       boundary |-> /\ free # Unknown /\ profile = "capacity"
                    /\ BoundaryAttempt(e, est, available)]

\* Capacity by doubling, capped at the largest int.
GeometricCapacity(e, edges) ==
  LET doubled == IF e.geoCapacity > MaxInt \div 2 THEN MaxInt ELSE 2 * e.geoCapacity
  IN  IF edges =< e.geoCapacity THEN e.geoCapacity
      ELSE Highest(edges, Highest(1, doubled))

\* Mutant: the slack is not capped at the largest int.
DesiredSlackUncapped(active) ==
  Highest(MinSlack, (active + Denominator - 1) \div Denominator)

DesiredSlack(active) ==
  Lowest(Highest(MinSlack, (active + Denominator - 1) \div Denominator),
         MaxInt - active)

\* Mutant: high-water capacity is admitted whether or not its bytes remain.
AdmitAll(active, previous, bytes, remaining) ==
  IF bytes = 0 THEN 0
  ELSE IF previous >= active THEN previous - active ELSE DesiredSlack(active)

\* How much capacity beyond the active count is planned.
Admit(active, previous, bytes, remaining) ==
  LET requested == IF previous >= active THEN previous
                   ELSE active + DesiredSlack(active)
  IN  IF bytes = 0 \/ remaining < bytes THEN 0
      ELSE Lowest(requested - active, remaining \div bytes)

\* The repeated-run high-water: edges first, then receivers and feature nodes,
\* together when the graph has as many of one as of the other.
HighWater(previous, g, gradients, exact, available) ==
  LET r == Receivers(g)
      f == g.features
      e == Edges(g)
      more(dr, df, de) ==
        estimate_graph_bytes(r + dr, f + df, e + de, TRUE, gradients) - exact
      edgeBytes == more(0, 0, 1)
      featureBytes == more(0, 1, 0)
      receiverBytes == IF f = r THEN more(1, 1, 0) - featureBytes ELSE more(1, 0, 0)
      remaining == Highest(available - exact, 0)
      edges == Admit(e, previous.edges, edgeBytes, remaining)
      left == remaining - edges * edgeBytes
      both == Admit(r, Lowest(previous.receivers, previous.features),
                    receiverBytes + featureBytes, left)
      receivers == IF r = f THEN both
                   ELSE Admit(r, previous.receivers, receiverBytes, left)
      features == IF r = f THEN both
                  ELSE Admit(f, previous.features, featureBytes,
                             left - receivers * receiverBytes)
  IN  [planned |-> [receivers |-> r + receivers, features |-> f + features,
                    edges |-> e + edges],
       geometry |-> e + edges,
       bytes |-> exact + edges * edgeBytes + receivers * receiverBytes
                 + features * featureBytes]

\* What follows from the choice of a plan.
Decision(e, g, plan) ==
  [plan |-> plan, retains |-> Retains(e, plan, g), exact |-> Estimates(e, g)[plan],
   bundle |-> plan # "speed" \/ conf.bundle]

\* Without high water, the geometry alone grows, where that fits.
Growth(e, g, d, free, available, geometric) ==
  LET grown == d.exact + (geometric - Edges(g))
                         * estimate_geometry_bytes_per_edge(d.bundle, d.retains)
      grows == IF free = Unknown THEN d.plan # "tiled"
               ELSE ~ d.bundle /\ (Edges(g) =< e.geoCapacity \/ grown =< available)
  IN  [planned |-> [receivers |-> Receivers(g), features |-> g.features,
                    edges |-> Edges(g)],
       geometry |-> IF grows THEN geometric ELSE Edges(g),
       bytes |-> IF grows THEN grown ELSE d.exact]

Capacities(e, previous, g, d, free, available) ==
  IF free # Unknown /\ profile = "capacity" /\ d.bundle /\ d.plan # "tiled"
  THEN HighWater(previous, g, d.retains, d.exact, available)
  ELSE Growth(e, g, d, free, available, GeometricCapacity(e, Edges(g)))

WithCapacities(s, plan, c) ==
  [s EXCEPT !.ev = [@ EXCEPT !.policy = plan, !.planned = c.planned,
                             !.geoPlanned = c.geometry, !.selected = c.bytes]]

\* The policy of the plan, and capacities for the arrays that it leaves; s is
\* the state before and after the policy was applied.
SelectAs(s, applied, g, free, d, available) ==
  WithCapacities(applied, d.plan,
                 Capacities(applied.ev, s.ev.planned, g, d, free, available))

ApplyDecision(s, d) ==
  apply_low_memory_policy(s, d.bundle, IF d.retains THEN "retained" ELSE "yOnly")

SelectDecision(s, g, free, d) ==
  SelectAs(s, ApplyDecision(s, d), g, free, d, Available(s.ev, free))

\* The planner's part of a preparation: policy, capacities and estimate.
Select(s, g, free) ==
  SelectDecision(s, g, free, Decision(s.ev, g, Choose(s.ev, g, free)))

-----------------------------------------------------------------------------
(* Arrays. *)

NoView == [home |-> "none", rows |-> 0]

NoArrays ==
  [geometry |-> 0, Y |-> 0, gradient |-> 0, types |-> 0, energies |-> 0,
   forces |-> 0, atomForces |-> 0, arena |-> 0, graphH1 |-> 0, local |-> 0,
   A0 |-> NoView, A1 |-> NoView]

\* release_dual_layer_source_schedule: the schedule of the last tiled graph.
Released(s) ==
  [s EXCEPT !.ev = [@ EXCEPT !.selected = Highest(s.ev.selected - s.ev.schedule, 0),
                             !.schedule = 0]]

\* The tiled schedule of a two-layer model replaces the estimate by one for
\* the segments it has.
Scheduled(s, g) ==
  IF s.ev.policy = "tiled" /\ conf.dual
  THEN [s EXCEPT !.ev = [@ EXCEPT
              !.schedule = g.segments * Cost.segment,
              !.selected = estimate_tiled_graph_bytes(g, g.segments)]]
  ELSE s

TileHigh(s, g) ==
  [s EXCEPT !.ev = [@ EXCEPT !.tileEdges = Highest(s.ev.tileEdges, TileEdges(g))]]

\* Mutant: the recorded capacity stands for the arena itself.
ArenaFitsByRecord(s, g) == s.ev.arenaPlanned >= TileRows(g)

ArenaFits(s, g) == s.arrays.arena > 0 /\ s.ev.arenaPlanned >= TileRows(g)

WorkspaceFits(s, g) ==
  /\ ArenaFits(s, g)
  /\ conf.dual => /\ s.arrays.graphH1 >= g.features
                  /\ s.arrays.local >= s.ev.tileEdges

\* The steps of prepare_{single,dual}_layer_tiled_workspace after its release
\* of the old state: the arena, the graph's H1 and the tile-local receivers,
\* of which the first n are done.
WorkspaceSteps(s, g, n) ==
  LET grows == ~ ArenaFits(s, g)
  IN  [s EXCEPT
         !.ev = [@ EXCEPT
            !.arenaPlanned = IF grows /\ n > 0 THEN TileRows(g) ELSE s.ev.arenaPlanned],
         !.arrays = [@ EXCEPT
            !.A0 = NoView,
            !.A1 = IF conf.dual THEN NoView ELSE s.arrays.A1,
            !.arena = IF ~ grows THEN s.arrays.arena
                      ELSE IF n > 0 THEN TileRows(g) ELSE 0,
            !.graphH1 = IF conf.dual /\ n > 1 THEN Highest(s.arrays.graphH1, g.features)
                        ELSE s.arrays.graphH1,
            !.local = IF conf.dual /\ n > 2 THEN Highest(s.arrays.local, s.ev.tileEdges)
                      ELSE s.arrays.local]]

Bound(s, g) ==
  [s EXCEPT !.arrays =
     [@ EXCEPT !.A0 = [home |-> "arena", rows |-> TileRows(g)]]]

Workspace(s, g) ==
  LET high == TileHigh(s, g)
  IN  IF s.ev.policy # "tiled" THEN s
      ELSE IF ~ WorkspaceFits(high, g)
      THEN Bound(WorkspaceSteps(high, g, 3), g)
      ELSE IF conf.dual THEN Bound(high, g) ELSE high

\* Does reserve_execution_geometry_workspace find everything in place?
GeometryCovers(s, g) ==
  LET tiled == s.ev.policy = "tiled"
      tile == s.ev.tileEdges
  IN  /\ Edges(g) =< s.ev.geoCapacity
      /\ s.arrays.Y >= (IF tiled THEN tile ELSE Edges(g))
      /\ tiled => s.arrays.geometry >= tile /\ s.arrays.types >= tile

GeometryReleased(s) ==
  [s EXCEPT !.ev = [@ EXCEPT !.geoCapacity = 0],
            !.arrays = [@ EXCEPT !.geometry = 0, !.types = 0, !.Y = 0,
                                 !.gradient = 0]]

reserve_geometry(s, g) ==
  LET capacity == IF s.ev.geoPlanned >= Edges(g) THEN s.ev.geoPlanned
                  ELSE GeometricCapacity(s.ev, Edges(g))
      tiled == s.ev.policy = "tiled"
      extent == IF tiled THEN s.ev.tileEdges ELSE capacity
  IN  IF GeometryCovers(s, g) THEN s
      ELSE [s EXCEPT
              !.ev = [@ EXCEPT !.geoCapacity = capacity, !.geoPlanned = capacity],
              !.arrays = [@ EXCEPT
                 !.geometry = extent,
                 !.types = IF tiled THEN extent ELSE 0,
                 !.Y = extent,
                 !.gradient = IF s.ev.harmonics = "retained" THEN extent ELSE 0]]

ResultEdges(s, g) ==
  IF s.ev.policy = "tiled" THEN s.ev.tileEdges
  ELSE Highest(Edges(g), s.ev.planned.edges)

ResultsFit(s, g) ==
  /\ s.arrays.energies >= Highest(Receivers(g), s.ev.planned.receivers)
  /\ s.arrays.forces >= ResultEdges(s, g)
  /\ s.ev.policy = "tiled" =>
       s.arrays.atomForces >= Highest(g.features, s.ev.planned.features)

\* The allocations of ensure_execution_result_capacity, the first n of them.
ResultSteps(s, g, n) ==
  [s EXCEPT !.arrays = [@ EXCEPT
     !.energies = IF n > 0 THEN Highest(Receivers(g), s.ev.planned.receivers) ELSE 0,
     !.forces = IF n > 1 THEN ResultEdges(s, g) ELSE 0,
     !.atomForces = IF n > 2 /\ s.ev.policy = "tiled"
                    THEN Highest(g.features, s.ev.planned.features)
                    ELSE s.arrays.atomForces]]

ensure_results(s, g) ==
  IF ResultsFit(s, g) THEN s ELSE ResultSteps(s, g, 3)

StateRows(s, g) == Highest(Receivers(g), s.ev.planned.receivers)

\* ensure_mh0_a0_forward_capacity and its sibling for A1: a view that is long
\* enough is kept, whatever memory it looks at.
Ensured(view, rows) == IF view.rows >= rows THEN view
                       ELSE [home |-> "own", rows |-> rows]

\* The receivers of the last batch.
LastBatch(g) == ((Receivers(g) - 1) % TileRows(g)) + 1

\* The receiver state that an evaluation leaves: batches of the arena in the
\* tiled plans, where the two-layer plan binds A0 and A1 to one slot.
Evaluated(s, g) ==
  LET batch == [home |-> "arena", rows |-> LastBatch(g)]
      rows == StateRows(s, g)
  IN  [s EXCEPT !.arrays = [@ EXCEPT
         !.A0 = IF s.ev.policy = "tiled" THEN batch ELSE Ensured(s.arrays.A0, rows),
         !.A1 = IF ~ conf.dual THEN s.arrays.A1
                ELSE IF s.ev.policy = "tiled" THEN batch ELSE Ensured(s.arrays.A1, rows)]]

-----------------------------------------------------------------------------
(* Operations. *)

Becomes(s) == ev' = s.ev /\ arrays' = s.arrays

NoReport == [plan |-> "none"]
NoGraph == [degrees |-> <<>>, features |-> 0, segments |-> 0]

\* invalidate_factorized_prepared_graph.
Invalidated ==
  /\ pc' = "none"
  /\ graph' = NoGraph
  /\ report' = NoReport

Init ==
  /\ conf \in Confs
  /\ profile = "speed"
  /\ debug = "none"
  /\ allowFixed = FALSE
  /\ graph = NoGraph
  /\ pc = "none"
  /\ ev = [bundle |-> FALSE, harmonics |-> "retained", policy |-> "pending",
           selected |-> 0, schedule |-> 0, geoCapacity |-> 0, geoPlanned |-> 0,
           planned |-> [receivers |-> 0, features |-> 0, edges |-> 0],
           tileEdges |-> 0, arenaPlanned |-> 0]
  /\ arrays = NoArrays
  /\ report = NoReport
  /\ prepared = 0

\* set_execution_plan_request and resolve_execution_plan.
Resolve(p, d) ==
  /\ p = "capacity" => conf.bundle
  /\ d # "none" => p = "capacity"
  /\ Becomes(set_low_memory(State, p = "capacity"))
  /\ profile' = p
  /\ debug' = d
  /\ Invalidated
  /\ UNCHANGED <<conf, allowFixed, prepared>>

set_allow_fixed_workspace ==
  /\ allowFixed' = ~ allowFixed
  /\ Invalidated
  /\ UNCHANGED <<conf, profile, debug, ev, arrays, prepared>>

\* The planner has chosen a plan for g and the schedule of g is built.
Planned(g, free) == Scheduled(Select(Released(State), g, free), g)

\* Preparing the graph at hand again changes nothing.
NewGraph(g) == prepared < MaxPrepared /\ (pc # "none" => g # graph)

\* Is the plan for g one that can run?  A debug plan may not be admitted, and
\* the tiled plans refuse a graph without receivers.
Accepts(g, free) ==
  /\ Qualified(Released(State).ev, Choose(Released(State).ev, g, free))
  /\ Choose(Released(State).ev, g, free) = "tiled" => Receivers(g) > 0

PrepareTo(s) ==
  /\ prepared' = prepared + 1
  /\ Becomes(s)
  /\ UNCHANGED <<conf, profile, debug, allowFixed>>

\* prepare_factorized_graph.
Prepare(g, free) ==
  /\ NewGraph(g)
  /\ Accepts(g, free)
  /\ PrepareTo(reserve_geometry(Workspace(Planned(g, free), g), g))
  /\ graph' = g
  /\ pc' = "prepared"
  /\ report' = Report(Released(State).ev, g, free)

\* The planner refuses its debug plan, or the workspace refuses the graph.
PrepareRefused(g, free) ==
  /\ NewGraph(g)
  /\ ~ Accepts(g, free)
  /\ PrepareTo(IF Qualified(Released(State).ev, Choose(Released(State).ev, g, free))
                  THEN Planned(g, free) ELSE Released(State))
  /\ Invalidated

\* An allocation of the tiled workspace fails.
WorkspaceLacks(s, g, n) ==
  /\ s.ev.policy = "tiled"
  /\ \/ n = 0 /\ ~ ArenaFits(s, g)
     \/ n = 1 /\ conf.dual /\ s.arrays.graphH1 < g.features
     \/ n = 2 /\ conf.dual /\ s.arrays.local < s.ev.tileEdges

WorkspaceFails(g, free, n) ==
  /\ NewGraph(g)
  /\ Accepts(g, free)
  /\ WorkspaceLacks(TileHigh(Planned(g, free), g), g, n)
  /\ PrepareTo(WorkspaceSteps(TileHigh(Planned(g, free), g), g, n))
  /\ Invalidated

\* An allocation of the geometry fails.  With no capacity recorded, whatever
\* was allocated before it is replaced by the next reservation.
GeometryFails(g, free) ==
  /\ NewGraph(g)
  /\ Accepts(g, free)
  /\ ~ GeometryCovers(Workspace(Planned(g, free), g), g)
  /\ PrepareTo(GeometryReleased(Workspace(Planned(g, free), g)))
  /\ Invalidated

\* The evaluator as compute_node_energies_forces finds it.
Begun == reserve_geometry(State, graph)

\* One evaluation of the prepared graph.
Evaluate ==
  /\ pc # "none"
  /\ Becomes(Evaluated(ensure_results(Begun, graph), graph))
  /\ pc' = "evaluated"
  /\ UNCHANGED <<conf, profile, debug, allowFixed, graph, report,
                 prepared>>

\* An allocation of the results fails, or of A0 or A1 after them; the token
\* stays valid.
EvaluateFails(n) ==
  LET done == ensure_results(Begun, graph)
  IN  /\ pc # "none"
      /\ \/ /\ ~ ResultsFit(Begun, graph)
            /\ n < 2 \/ (n = 2 /\ ev.policy = "tiled")
            /\ Becomes(ResultSteps(Begun, graph, n))
         \/ /\ n = 3 /\ ev.policy # "tiled"
            /\ arrays.A0.rows < StateRows(done, graph)
            /\ Becomes([done EXCEPT !.arrays = [@ EXCEPT !.A0 = NoView]])
         \/ /\ n = 4 /\ ev.policy # "tiled" /\ conf.dual
            /\ arrays.A1.rows < StateRows(done, graph)
            /\ Becomes([done EXCEPT
                 !.arrays = [@ EXCEPT !.A0 = Ensured(done.arrays.A0, StateRows(done, graph)),
                                      !.A1 = NoView]])
      /\ pc' = "prepared"
      /\ UNCHANGED <<conf, profile, debug, allowFixed, graph, report,
                 prepared>>

Next ==
  \/ \E p \in Profiles, d \in DebugPlans \cup {"none"} : Resolve(p, d)
  \/ set_allow_fixed_workspace
  \/ \E g \in Graphs, free \in FreeBytes \cup {Unknown} :
       \/ Prepare(g, free)
       \/ PrepareRefused(g, free)
       \/ \E n \in 0 .. 2 : WorkspaceFails(g, free, n)
       \/ GeometryFails(g, free)
  \/ Evaluate
  \/ \E n \in 0 .. 4 : EvaluateFails(n)

Spec == Init /\ [][Next]_vars

-----------------------------------------------------------------------------
(* Properties. *)

Counts == 0 .. MaxInt

Evaluators ==
  [bundle : BOOLEAN, harmonics : {"retained", "yOnly"}, policy : Plans \cup {"pending"},
   selected : Nat, schedule : Nat, geoCapacity : Counts, geoPlanned : Counts,
   planned : [receivers : Counts, features : Counts, edges : Counts],
   tileEdges : Counts, arenaPlanned : Counts]

Views == [home : {"none", "own", "arena"}, rows : Counts]

Extents ==
  [geometry : Counts, Y : Counts, gradient : Counts, types : Counts, energies : Counts,
   forces : Counts, atomForces : Counts, arena : Counts, graphH1 : Counts,
   local : Counts, A0 : Views, A1 : Views]

\* Every capacity the planner records and every extent of an array is a count
\* that an int holds, with the slack of 0.25 % and the doubling of the
\* geometry near the largest int too.
TypeOK ==
  /\ conf \in Configurations /\ profile \in Profiles /\ allowFixed \in BOOLEAN
  /\ debug \in Plans \cup {"none"} /\ pc \in {"none", "prepared", "evaluated"}
  /\ prepared \in 0 .. MaxPrepared
  /\ ev \in Evaluators
  /\ arrays \in Extents

\* A graph with a valid token has arrays that hold it, whatever plans and
\* failed allocations came before it: the geometry and harmonics of its edges,
\* or of its largest batch, the workspace of a tiled plan, and after an
\* evaluation the results and the receiver state.
ArraysCover ==
  LET tiled == ev.policy = "tiled"
      edges == IF tiled THEN TileEdges(graph) ELSE Edges(graph)
  IN  /\ pc # "none" =>
           /\ arrays.geometry >= edges /\ arrays.Y >= edges
           /\ ev.harmonics = "retained" => arrays.gradient >= edges
           /\ tiled => arrays.types >= edges /\ arrays.arena >= TileRows(graph)
           /\ tiled /\ conf.dual => /\ arrays.graphH1 >= graph.features
                                    /\ arrays.local >= edges
      /\ pc = "evaluated" =>
           /\ arrays.energies >= Receivers(graph)
           /\ arrays.forces >= edges
           /\ tiled => arrays.atomForces >= graph.features
           /\ ~ tiled => arrays.A0.rows >= Receivers(graph)
           /\ ~ tiled /\ conf.dual => arrays.A1.rows >= Receivers(graph)

\* The candidates of the report, fastest first.
Candidates(e) ==
  <<"speed", selected_capacity_policy(e)>>
  \o (IF allowFixed /\ tiled_admitted(e) THEN <<"tiled">> ELSE <<>>)

Budgeted == pc # "none" /\ report.known /\ profile = "capacity"

Fitting(e) == {i \in DOMAIN Candidates(e) :
                 report.estimates[Candidates(e)[i]] =< report.available}

\* A capacity request runs the fastest qualified plan whose estimate fits the
\* budget, and the smallest one where none fits.
FastestFit ==
  Budgeted /\ debug = "none" =>
    IF Fitting(ev) # {} THEN report.plan = Candidates(ev)[Min(Fitting(ev))]
    ELSE \A i \in DOMAIN Candidates(ev) :
           report.estimates[report.plan] =< report.estimates[Candidates(ev)[i]]

\* A boundary attempt is reported only where no qualified candidate fits.
BoundaryHonest ==
  pc # "none" /\ report.known /\ report.boundary => Fitting(ev) = {}

\* Capacity kept for later graphs never takes a capacity request past its
\* budget: where the graph itself fits, so does all that is planned for it.
WithinBudget ==
  Budgeted /\ report.estimates[report.plan] =< report.available =>
    ev.selected =< report.available

\* Is g within every capacity that the last evaluation left?  The harmonics
\* are asked for themselves: after a tiled plan they may hold one batch, while
\* the recorded geometry capacity is that of the whole graph.
InCapacity(g) ==
  /\ Receivers(g) =< ev.planned.receivers /\ g.features =< ev.planned.features
  /\ Edges(g) =< Lowest(ev.planned.edges, ev.geoCapacity)
  /\ ev.policy # "tiled" => Edges(g) =< arrays.Y
  /\ ev.policy = "tiled" =>
       /\ TileEdges(g) =< ev.tileEdges /\ TileRows(g) =< ev.arenaPlanned

\* After an evaluation, a smaller graph under the same plan is prepared
\* without replacing an array, and what is planned for it lets its evaluation
\* replace none either: repeated runs do not allocate.
InCapacityReuses ==
  [][pc = "evaluated" /\ pc' = "prepared" /\ graph' # graph
     /\ InCapacity(graph') /\ ev'.policy = ev.policy
     /\ ev'.harmonics = ev.harmonics /\ ev'.bundle = ev.bundle
     => /\ ev'.geoCapacity = ev.geoCapacity
        /\ [arrays' EXCEPT !.A0 = NoView] = [arrays EXCEPT !.A0 = NoView]
        /\ ResultsFit(State, graph)'
        /\ ev.policy # "tiled" => (arrays.A0.rows >= StateRows(State, graph))']_vars

\* What pair_symmetrix/README.md promises of repeated runs, "alias-safe
\* exceptional growth" across ownership and topology changes: after an
\* evaluation that keeps the whole forward state of both layers, A0 and A1 are
\* not both views of the tiled plan's arena, where they share one slot.
StateDistinct ==
  pc = "evaluated" /\ conf.dual /\ ev.policy # "tiled" /\ Receivers(graph) > 0 =>
    ~ (arrays.A0.home = "arena" /\ arrays.A1.home = "arena")
=============================================================================
