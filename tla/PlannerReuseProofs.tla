------------------------- MODULE PlannerReuseProofs -------------------------
(***************************************************************************)
(* Repeated runs do not allocate: the action property InCapacityReuses of  *)
(* ExecutionPlanner, for any graphs, costs, devices and configurations.    *)
(***************************************************************************)
EXTENDS ExecutionPlannerProofs

-----------------------------------------------------------------------------
(***************************************************************************)
(* What a preparation leaves alone                                         *)
(***************************************************************************)

\* What is recorded of the arrays stays.
Recorded(s, t) ==
  /\ t.ev.bundle = s.ev.bundle /\ t.ev.harmonics = s.ev.harmonics
  /\ t.ev.geoCapacity = s.ev.geoCapacity /\ t.ev.tileEdges = s.ev.tileEdges
  /\ t.ev.arenaPlanned = s.ev.arenaPlanned

\* The plan and the counts that it is for stay.
SamePlan(s, t) == t.ev.planned = s.ev.planned /\ t.ev.policy = s.ev.policy

\* The arrays stay, but for the view A0.
ArraysStay(s, t) == t.arrays = [s.arrays EXCEPT !.A0 = t.arrays.A0]

LEMMA ReleasedKeeps ==
  ASSUME NEW s, Stored(s), NEW t, t = Released(s)
  PROVE  Recorded(s, t) /\ SamePlan(s, t) /\ t.arrays = s.arrays
<1>1. s \in States /\ s.ev \in Evaluators /\ s.arrays \in Extents
  BY StateParts DEF Stored
<1>2. PICK n : n = Highest(s.ev.selected - s.ev.schedule, 0)
  OBVIOUS
<1>3. PICK e : e = [s.ev EXCEPT !.selected = n, !.schedule = 0]
  OBVIOUS
<1>4. /\ e.bundle = s.ev.bundle /\ e.harmonics = s.ev.harmonics
      /\ e.geoCapacity = s.ev.geoCapacity /\ e.tileEdges = s.ev.tileEdges
      /\ e.arenaPlanned = s.ev.arenaPlanned
      /\ e.planned = s.ev.planned /\ e.policy = s.ev.policy
  BY <1>1, <1>3 DEF Evaluators
<1>5. t = [s EXCEPT !.ev = e]
  BY <1>2, <1>3, Zenon DEF Released
<1>6. t.ev = e /\ t.arrays = s.arrays
  BY <1>1, <1>5 DEF States
<1> QED
  BY <1>4, <1>6 DEF Recorded, SamePlan

\* A policy that is in force already changes nothing.
LEMMA PolicyKeeps ==
  ASSUME NEW s, Stored(s), NEW t, t = apply_low_memory_policy(s, s.ev.bundle, s.ev.harmonics)
  PROVE  t = s
<1>1. s \in States /\ s.ev \in Evaluators
  BY StateParts DEF Stored
<1>2. PICK u : u = set_edge_geometry_policy(s, s.ev.bundle)
  OBVIOUS
<1>3. u = s
  <2>1. u = [s EXCEPT !.ev = [s.ev EXCEPT !.bundle = s.ev.bundle]]
    BY <1>2 DEF set_edge_geometry_policy
  <2>2. [s.ev EXCEPT !.bundle = s.ev.bundle] = s.ev
    BY <1>1 DEF Evaluators
  <2>3. [s EXCEPT !.ev = s.ev] = s
    BY <1>1 DEF States
  <2> QED
    BY <2>1, <2>2, <2>3
<1>4. t = select_harmonics(s, s.ev.harmonics)
  BY <1>2, <1>3, Zenon DEF apply_low_memory_policy
<1> QED
  BY <1>4, Zenon DEF select_harmonics

\* The choice of a plan under the policy in force, for a graph within the
\* planned counts.
LEMMA SelectKeeps ==
  ASSUME NEW s, Stored(s), NEW g \in Graphs, conf \in Configurations, NEW d, Decided(d, g),
         NEW free \in Answers, NEW t, t = SelectDecision(s, g, free, d)
  PROVE  /\ t.ev.policy = d.plan
         /\ Spared(t.ev, s.ev.planned, Receivers(g), g.features, Edges(g))
         /\ d.plan = "tiled" => t.ev.planned.features = g.features
         /\ t.ev.bundle = s.ev.bundle /\ t.ev.harmonics = s.ev.harmonics =>
              Recorded(s, t) /\ t.arrays = s.arrays
<1>1. s.ev \in Evaluators /\ s.ev.selected \in Nat /\ s.ev.planned \in PlannedCounts
  BY StateParts DEF Stored, Evaluators, PlannedCounts
<1>2. PICK available \in Nat : available = Available(s.ev, free)
  BY <1>1, AvailableFacts
<1>3. PICK h \in {"retained", "yOnly"} : h = IF d.retains THEN "retained" ELSE "yOnly"
  OBVIOUS
<1>4. PICK u : u = apply_low_memory_policy(s, d.bundle, h)
  OBVIOUS
<1>5. d.bundle \in BOOLEAN
  BY DEF Decided
<1>6. Stored(u) /\ u.ev.bundle = d.bundle /\ u.ev.harmonics = h
  BY <1>4, <1>5, PolicyFacts
<1>7. u \in States /\ u.ev \in Evaluators /\ u.arrays \in Extents /\ u.ev.geoCapacity \in Counts
  BY <1>6, StateParts DEF Stored, Evaluators
<1>8. PICK c : c = Capacities(u.ev, s.ev.planned, g, d, free, available)
  OBVIOUS
<1>9. /\ Spared(c, s.ev.planned, Receivers(g), g.features, Edges(g))
      /\ d.plan = "tiled" => Least(c, g)
  BY <1>1, <1>7, <1>8, CapacityFacts
<1>10. PICK e : e = [u.ev EXCEPT !.policy = d.plan, !.planned = c.planned,
                                 !.geoPlanned = c.geometry, !.selected = c.bytes]
  OBVIOUS
<1>11. /\ e.policy = d.plan /\ e.planned = c.planned
       /\ e.bundle = u.ev.bundle /\ e.harmonics = u.ev.harmonics
       /\ e.geoCapacity = u.ev.geoCapacity /\ e.tileEdges = u.ev.tileEdges
       /\ e.arenaPlanned = u.ev.arenaPlanned
  BY <1>7, <1>10 DEF Evaluators
<1>12. t.ev = e /\ t.arrays = u.arrays
  <2>1. t = WithCapacities(u, d.plan, c)
    BY <1>2, <1>3, <1>4, <1>8, Zenon DEF SelectDecision, SelectAs, ApplyDecision
  <2>2. t = [u EXCEPT !.ev = e]
    BY <1>10, <2>1, Zenon DEF WithCapacities
  <2> QED
    BY <1>7, <2>2 DEF States
<1>13. Spared(t.ev, s.ev.planned, Receivers(g), g.features, Edges(g))
  BY <1>9, <1>11, <1>12 DEF Spared
<1>14. ASSUME t.ev.bundle = s.ev.bundle, t.ev.harmonics = s.ev.harmonics
       PROVE  Recorded(s, t) /\ t.arrays = s.arrays
  <2>1. d.bundle = s.ev.bundle /\ h = s.ev.harmonics
    BY <1>6, <1>11, <1>12, <1>14
  <2>2. u = s
    BY <1>4, <2>1, PolicyKeeps
  <2> QED
    BY <1>11, <1>12, <2>2 DEF Recorded
<1> QED
  BY <1>9, <1>11, <1>12, <1>13, <1>14 DEF Least

LEMMA ScheduledKeeps ==
  ASSUME NEW s, Stored(s), NEW g, NEW t, t = Scheduled(s, g)
  PROVE  Recorded(s, t) /\ SamePlan(s, t) /\ t.arrays = s.arrays
<1>1. s \in States /\ s.ev \in Evaluators /\ s.arrays \in Extents
  BY StateParts DEF Stored
<1>2. CASE s.ev.policy = "tiled" /\ conf.dual
  <2>1. PICK m, n : m = g.segments * Cost.segment /\ n = estimate_tiled_graph_bytes(g, g.segments)
    OBVIOUS
  <2>2. PICK e : e = [s.ev EXCEPT !.schedule = m, !.selected = n]
    OBVIOUS
  <2>3. /\ e.bundle = s.ev.bundle /\ e.harmonics = s.ev.harmonics
        /\ e.geoCapacity = s.ev.geoCapacity /\ e.tileEdges = s.ev.tileEdges
        /\ e.arenaPlanned = s.ev.arenaPlanned
        /\ e.planned = s.ev.planned /\ e.policy = s.ev.policy
    BY <1>1, <2>2 DEF Evaluators
  <2>4. t = [s EXCEPT !.ev = e]
    BY <1>2, <2>1, <2>2, Zenon DEF Scheduled
  <2>5. t.ev = e /\ t.arrays = s.arrays
    BY <1>1, <2>4 DEF States
  <2> QED
    BY <2>3, <2>5 DEF Recorded, SamePlan
<1>3. CASE ~(s.ev.policy = "tiled" /\ conf.dual)
  BY <1>3 DEF Scheduled, Recorded, SamePlan
<1> QED
  BY <1>2, <1>3

\* The high water of batches stays for a graph with smaller ones.
LEMMA TileHighKeeps ==
  ASSUME NEW s, Stored(s), NEW g \in Graphs, NEW t, t = TileHigh(s, g)
  PROVE  /\ SamePlan(s, t) /\ t.arrays = s.arrays
         /\ TileEdges(g) =< s.ev.tileEdges => Recorded(s, t)
<1>1. s \in States /\ s.ev \in Evaluators /\ s.ev.tileEdges \in Nat
  BY StateParts, CountFacts DEF Stored, Evaluators
<1>2. PICK n : n = Highest(s.ev.tileEdges, TileEdges(g))
  OBVIOUS
<1>3. TileEdges(g) =< s.ev.tileEdges => n = s.ev.tileEdges
  BY <1>1, <1>2, GraphFacts DEF Highest
<1>4. PICK e : e = [s.ev EXCEPT !.tileEdges = n]
  OBVIOUS
<1>5. /\ e.bundle = s.ev.bundle /\ e.harmonics = s.ev.harmonics
      /\ e.geoCapacity = s.ev.geoCapacity /\ e.tileEdges = n
      /\ e.arenaPlanned = s.ev.arenaPlanned
      /\ e.planned = s.ev.planned /\ e.policy = s.ev.policy
  BY <1>1, <1>4 DEF Evaluators
<1>6. t = [s EXCEPT !.ev = e]
  BY <1>2, <1>4, Zenon DEF TileHigh
<1>7. t.ev = e /\ t.arrays = s.arrays
  BY <1>1, <1>6 DEF States
<1> QED
  BY <1>3, <1>5, <1>7 DEF Recorded, SamePlan

LEMMA StepsPlan ==
  ASSUME NEW s, Stored(s), NEW g, NEW n, NEW t, t = WorkspaceSteps(s, g, n)
  PROVE  SamePlan(s, t)
<1>1. s \in States /\ s.ev \in Evaluators
  BY StateParts DEF Stored
<1>2. PICK p : p = IF ~ArenaFits(s, g) /\ n > 0 THEN TileRows(g) ELSE s.ev.arenaPlanned
  OBVIOUS
<1>3. PICK e : e = [s.ev EXCEPT !.arenaPlanned = p]
  OBVIOUS
<1>4. e.planned = s.ev.planned /\ e.policy = s.ev.policy
  BY <1>1, <1>3 DEF Evaluators
<1>5. t.ev = e
  BY <1>1, <1>2, <1>3 DEF WorkspaceSteps, States
<1> QED
  BY <1>4, <1>5 DEF SamePlan

LEMMA BoundKeeps ==
  ASSUME NEW s, Stored(s), NEW g, NEW t, t = Bound(s, g)
  PROVE  t.ev = s.ev /\ ArraysStay(s, t)
<1>1. s \in States /\ s.arrays \in Extents
  BY StateParts DEF Stored
<1>2. PICK v : v = [home |-> "arena", rows |-> TileRows(g)]
  OBVIOUS
<1>3. PICK a : a = [s.arrays EXCEPT !.A0 = v]
  OBVIOUS
<1>4. t = [s EXCEPT !.arrays = a]
  BY <1>2, <1>3, Zenon DEF Bound
<1>5. t.ev = s.ev /\ t.arrays = a
  BY <1>1, <1>4 DEF States
<1>6. a.A0 = v
  BY <1>1, <1>3 DEF Extents
<1> QED
  BY <1>3, <1>5, <1>6 DEF ArraysStay

\* The workspace is the plan's business alone.
LEMMA WorkspacePlan ==
  ASSUME NEW s, Stored(s), NEW g \in Graphs, NEW t, t = Workspace(s, g)
  PROVE  SamePlan(s, t)
<1>1. CASE s.ev.policy # "tiled"
  BY <1>1 DEF Workspace, SamePlan
<1>2. CASE s.ev.policy = "tiled"
  <2>1. PICK u : u = TileHigh(s, g)
    OBVIOUS
  <2>2. Stored(u) /\ SamePlan(s, u)
    BY <2>1, TileHighFacts, TileHighKeeps
  <2>3. PICK n \in Stages : n = 3
    BY DEF Stages
  <2>4. PICK w : w = WorkspaceSteps(u, g, n)
    OBVIOUS
  <2>5. Stored(w) /\ SamePlan(u, w)
    BY <2>2, <2>3, <2>4, WorkspaceStepFacts, StepsPlan
  <2>6. t = Bound(w, g) \/ t = Bound(u, g) \/ t = u
    BY <1>2, <2>1, <2>3, <2>4 DEF Workspace
  <2>7. Bound(w, g).ev = w.ev /\ Bound(u, g).ev = u.ev
    BY <2>2, <2>5, BoundKeeps
  <2> QED
    BY <2>2, <2>5, <2>6, <2>7 DEF SamePlan
<1> QED
  BY <1>1, <1>2

\* The workspace holds a graph: what WorkspaceFits asks once the high water of
\* batches stays.
Roomy(s, g) ==
  s.ev.policy = "tiled" =>
    /\ TileEdges(g) =< s.ev.tileEdges /\ ArenaFits(s, g)
    /\ conf.dual => s.arrays.graphH1 >= g.features /\ s.arrays.local >= s.ev.tileEdges

LEMMA WorkspaceKeeps ==
  ASSUME NEW s, Stored(s), NEW g \in Graphs, Roomy(s, g), NEW t, t = Workspace(s, g)
  PROVE  /\ Recorded(s, t) /\ ArraysStay(s, t)
         /\ s.ev.policy # "tiled" => t.arrays = s.arrays
<1>0. s.arrays \in Extents
  BY StateParts DEF Stored
<1>1. s.arrays = [s.arrays EXCEPT !.A0 = s.arrays.A0]
  BY <1>0 DEF Extents
<1>2. CASE s.ev.policy # "tiled"
  <2>1. t = s
    BY <1>2 DEF Workspace
  <2> QED
    BY <1>1, <2>1 DEF Recorded, ArraysStay
<1>3. CASE s.ev.policy = "tiled"
  <2>1. PICK u : u = TileHigh(s, g)
    OBVIOUS
  <2>2. Stored(u) /\ Recorded(s, u) /\ u.arrays = s.arrays
    BY <1>3, <2>1, TileHighFacts, TileHighKeeps DEF Roomy
  <2>3. WorkspaceFits(u, g)
    BY <1>3, <2>2 DEF Roomy, Recorded, WorkspaceFits, ArenaFits
  <2>4. t = Bound(u, g) \/ t = u
    BY <1>3, <2>1, <2>3 DEF Workspace
  <2>5. CASE t = u
    BY <1>1, <1>3, <2>2, <2>5 DEF ArraysStay
  <2>6. CASE t = Bound(u, g)
    <3>1. t.ev = u.ev /\ ArraysStay(u, t)
      BY <2>2, <2>6, BoundKeeps
    <3> QED
      BY <1>3, <2>2, <3>1 DEF Recorded, ArraysStay
  <2> QED
    BY <2>4, <2>5, <2>6
<1> QED
  BY <1>2, <1>3

\* Arrays that stay but for A0 have their extents.
LEMMA StayExtents ==
  ASSUME NEW s, Stored(s), NEW t, ArraysStay(s, t)
  PROVE  /\ t.arrays.geometry = s.arrays.geometry /\ t.arrays.Y = s.arrays.Y
         /\ t.arrays.types = s.arrays.types /\ t.arrays.energies = s.arrays.energies
         /\ t.arrays.forces = s.arrays.forces /\ t.arrays.atomForces = s.arrays.atomForces
         /\ [t.arrays EXCEPT !.A0 = NoView] = [s.arrays EXCEPT !.A0 = NoView]
<1>1. s.arrays \in Extents
  BY StateParts DEF Stored
<1>2. PICK v : t.arrays = [s.arrays EXCEPT !.A0 = v]
  BY DEF ArraysStay
<1> QED
  BY <1>1, <1>2 DEF Extents

-----------------------------------------------------------------------------
(***************************************************************************)
(* What an evaluation leaves for the next graph                            *)
(***************************************************************************)

\* A reservation finds everything in place afterwards.
LEMMA ReserveCovers ==
  ASSUME NEW s, Stored(s), NEW g \in Graphs, NEW t, t = reserve_geometry(s, g)
  PROVE  GeometryCovers(t, g)
<1>1. CASE GeometryCovers(s, g)
  BY <1>1 DEF reserve_geometry
<1>2. CASE ~GeometryCovers(s, g)
  <2>1. s \in States /\ s.ev \in Evaluators /\ s.arrays \in Extents
    BY StateParts DEF Stored
  <2>2. s.ev.geoCapacity \in Counts /\ s.ev.geoPlanned \in Counts /\ s.ev.tileEdges \in Counts
    BY <2>1 DEF Evaluators
  <2>3. PICK capacity \in Counts :
          /\ capacity = IF s.ev.geoPlanned >= Edges(g) THEN s.ev.geoPlanned
                        ELSE GeometricCapacity(s.ev, Edges(g))
          /\ capacity >= Edges(g)
    <3>1. /\ GeometricCapacity(s.ev, Edges(g)) \in Counts
          /\ GeometricCapacity(s.ev, Edges(g)) >= Edges(g)
      BY <2>2, GraphFacts, GeometricFacts
    <3> QED
      BY <2>2, <3>1
  <2>4. PICK extent \in Counts : extent = IF s.ev.policy = "tiled" THEN s.ev.tileEdges ELSE capacity
    BY <2>2
  <2>5. PICK types : /\ types = IF s.ev.policy = "tiled" THEN extent ELSE 0
                     /\ s.ev.policy = "tiled" => types = extent
    OBVIOUS
  <2>6. PICK gradient : gradient = IF s.ev.harmonics = "retained" THEN extent ELSE 0
    OBVIOUS
  <2>7. PICK e : e = [s.ev EXCEPT !.geoCapacity = capacity, !.geoPlanned = capacity]
    OBVIOUS
  <2>8. e.geoCapacity = capacity /\ e.policy = s.ev.policy /\ e.tileEdges = s.ev.tileEdges
    BY <2>1, <2>7 DEF Evaluators
  <2>9. PICK a : a = [s.arrays EXCEPT !.geometry = extent, !.types = types, !.Y = extent,
                                      !.gradient = gradient]
    OBVIOUS
  <2>10. a.geometry = extent /\ a.types = types /\ a.Y = extent
    BY <2>1, <2>9 DEF Extents
  <2>11. t.ev = e /\ t.arrays = a
    <3>1. t = [s EXCEPT !.ev = e, !.arrays = a]
      BY <1>2, <2>3, <2>4, <2>5, <2>6, <2>7, <2>9, Zenon DEF reserve_geometry
    <3> QED
      BY <2>1, <3>1 DEF States
  <2>12. capacity \in Nat /\ extent \in Nat /\ s.ev.tileEdges \in Nat /\ Edges(g) \in Nat
    BY <2>2, CountFacts, GraphFacts
  <2> QED
    BY <2>3, <2>4, <2>5, <2>8, <2>10, <2>11, <2>12 DEF GeometryCovers
<1> QED
  BY <1>1, <1>2

\* The results fit once they are ensured.
LEMMA EnsureFits ==
  ASSUME NEW s, Stored(s), NEW g \in Graphs, Tiled(s, g), NEW t, t = ensure_results(s, g)
  PROVE  ResultsFit(t, g)
<1>1. CASE ResultsFit(s, g)
  BY <1>1 DEF ensure_results
<1>2. CASE ~ResultsFit(s, g)
  <2>1. s \in States /\ s.arrays \in Extents
    BY StateParts DEF Stored
  <2>2. PICK x \in Nat : x = Highest(Receivers(g), s.ev.planned.receivers)
    BY ResultCounts, CountFacts
  <2>3. PICK y \in Nat : y = ResultEdges(s, g)
    BY ResultCounts, CountFacts
  <2>4. PICK m \in Nat : m = Highest(g.features, s.ev.planned.features)
    BY ResultCounts, CountFacts
  <2>5. PICK z : /\ z = IF s.ev.policy = "tiled" THEN m ELSE s.arrays.atomForces
                 /\ s.ev.policy = "tiled" => z = m
    OBVIOUS
  <2>6. PICK a : a = [s.arrays EXCEPT !.energies = x, !.forces = y, !.atomForces = z]
    OBVIOUS
  <2>7. a.energies = x /\ a.forces = y /\ a.atomForces = z
    BY <2>1, <2>6 DEF Extents
  <2>8. t = [s EXCEPT !.arrays = a]
    <3>1. t = ResultSteps(s, g, 3)
      BY <1>2 DEF ensure_results
    <3>2. 3 > 0 /\ 3 > 1 /\ 3 > 2
      OBVIOUS
    <3> QED
      BY <2>2, <2>3, <2>4, <2>5, <2>6, <3>1, <3>2, Zenon DEF ResultSteps
  <2>9. t.ev = s.ev /\ t.arrays = a
    BY <2>1, <2>8 DEF States
  <2>10. ResultEdges(t, g) = y
    BY <2>3, <2>9 DEF ResultEdges
  <2> QED
    BY <2>2, <2>4, <2>5, <2>7, <2>9, <2>10 DEF ResultsFit
<1> QED
  BY <1>1, <1>2

\* The view A0 has a row for every receiver that is planned.
LEMMA EvaluatedRows ==
  ASSUME NEW s, Stored(s), NEW g \in Graphs, Tiled(s, g), s.ev.policy # "tiled",
         NEW t, t = Evaluated(s, g)
  PROVE  t.arrays.A0.rows >= StateRows(s, g)
<1>1. s \in States /\ s.arrays \in Extents /\ s.arrays.A0 \in Views
  BY StateParts DEF Stored, Extents
<1>2. PICK n \in Nat : n = StateRows(s, g) /\ n \in Counts
  BY ResultCounts, CountFacts
<1>3. PICK v : v = Ensured(s.arrays.A0, n)
  OBVIOUS
<1>4. PICK w : w = IF ~conf.dual THEN s.arrays.A1 ELSE Ensured(s.arrays.A1, n)
  OBVIOUS
<1>5. PICK a : a = [s.arrays EXCEPT !.A0 = v, !.A1 = w]
  OBVIOUS
<1>6. a.A0 = v
  BY <1>1, <1>5 DEF Extents
<1>7. t = [s EXCEPT !.arrays = a]
  BY <1>2, <1>3, <1>4, <1>5, Zenon DEF Evaluated
<1>8. t.arrays = a
  BY <1>1, <1>7 DEF States
<1>9. v.rows >= n
  BY <1>1, <1>2, <1>3, EnsuredFacts
<1> QED
  BY <1>2, <1>6, <1>8, <1>9

-----------------------------------------------------------------------------
(***************************************************************************)
(* The invariant                                                           *)
(***************************************************************************)

\* A tiled plan keeps no capacity for more feature nodes than its graph has.
Exact == pc # "none" /\ ev.policy = "tiled" => ev.planned.features = graph.features

\* After an evaluation the arrays hold all that is planned.
Enough(s, g) ==
  /\ GeometryCovers(s, g) /\ ResultsFit(s, g)
  /\ s.ev.policy # "tiled" => s.arrays.A0.rows >= StateRows(s, g)

Ample == pc = "evaluated" => Enough(State, graph)

AInv == PInv /\ Exact /\ Ample

\* An evaluation makes them ample.
LEMMA EvaluationAmple ==
  ASSUME PInv, Evaluate
  PROVE  Ample'
<1>1. /\ pc # "none" /\ Becomes(Evaluated(ensure_results(Begun, graph), graph))
      /\ graph' = graph /\ conf' = conf
  BY DEF Evaluate
<1>2. PICK b : b = Begun
  OBVIOUS
<1>3. Stored(b) /\ Tiled(b, graph) /\ Laid(b, graph) /\ graph \in Graphs /\ TiledYOnly(b)
  BY <1>1, <1>2, BegunFacts
<1>4. GeometryCovers(b, graph)
  BY <1>2, <1>3, ReserveCovers DEF Begun, PInv, Sound
<1>5. PICK d : d = ensure_results(b, graph)
  OBVIOUS
<1>6. Stored(d) /\ Beside(b, d) /\ ResultsFit(d, graph)
  BY <1>3, <1>5, EnsureFacts, EnsureFits
<1>7. Tiled(d, graph)
  BY <1>3, <1>6, BesideFacts
<1>8. PICK t : t = Evaluated(d, graph)
  OBVIOUS
<1>9. /\ Stored(t) /\ Beside(d, t)
      /\ t.arrays.energies = d.arrays.energies /\ t.arrays.forces = d.arrays.forces
      /\ t.arrays.atomForces = d.arrays.atomForces
  BY <1>3, <1>6, <1>7, <1>8, EvaluatedFacts
<1>10. GeometryCovers(t, graph)
  BY <1>4, <1>6, <1>9 DEF GeometryCovers, Beside
<1>11. ResultsFit(t, graph)
  <2>1. ResultEdges(t, graph) = ResultEdges(d, graph)
    BY <1>9 DEF ResultEdges, Beside
  <2> QED
    BY <1>6, <1>9, <2>1 DEF ResultsFit, Beside
<1>12. t.ev.policy # "tiled" => t.arrays.A0.rows >= StateRows(t, graph)
  <2>1. StateRows(t, graph) = StateRows(d, graph) /\ t.ev = d.ev
    BY <1>9 DEF StateRows, Beside
  <2> QED
    BY <1>3, <1>6, <1>7, <1>8, <2>1, EvaluatedRows
<1>13. State' = t
  <2>1. Becomes(t)
    BY <1>1, <1>2, <1>5, <1>8
  <2>2. TiledYOnly(t)
    BY <1>3, <1>6, <1>9 DEF TiledYOnly, Beside
  <2> QED
    BY <1>9, <2>1, <2>2, StateBecomes
<1>14. Enough(State, graph)'
  BY <1>1, <1>10, <1>11, <1>12, <1>13
     DEF Enough, GeometryCovers, ResultsFit, ResultEdges, StateRows
<1> QED
  BY <1>14 DEF Ample

\* The planner's part: policy, capacities and schedule.
LEMMA PlannedKeeps ==
  ASSUME PInv, NEW g \in Graphs, NEW free \in Answers, NEW t, t = Planned(g, free)
  PROVE  /\ Spared(t.ev, ev.planned, Receivers(g), g.features, Edges(g))
         /\ t.ev.policy = "tiled" => t.ev.planned.features = g.features
         /\ t.ev.bundle = ev.bundle /\ t.ev.harmonics = ev.harmonics =>
              Recorded(State, t) /\ t.arrays = arrays
<1>1. Stored(State) /\ conf \in Configurations /\ debug \in Plans \cup {"none"}
  BY DEF PInv, Sound, TypeOK
<1>2. PICK s : s = Released(State)
  OBVIOUS
<1>3. Stored(s) /\ Recorded(State, s) /\ SamePlan(State, s) /\ s.arrays = arrays
  BY <1>1, <1>2, ReleasedFacts, ReleasedKeeps, StateIs
<1>4. PICK plan \in Plans : plan = Choose(s.ev, g, free)
  BY <1>1, ChooseFacts
<1>5. PICK d : d = Decision(s.ev, g, plan)
  OBVIOUS
<1>6. Decided(d, g) /\ d.plan = plan
  <2>1. PICK e : e = s.ev
    OBVIOUS
  <2>2. d = Decision(e, g, plan)
    BY <1>5, <2>1
  <2>3. /\ Decided(d, g) /\ d.plan = plan /\ d.exact = Estimates(e, g)[plan]
        /\ d.bundle = (plan # "speed" \/ conf.bundle)
    BY <1>1, <2>2, DecisionFacts
  <2> QED
    BY <2>3
<1>7. PICK u : u = SelectDecision(s, g, free, d)
  OBVIOUS
<1>8. /\ Stored(u)
      /\ u.ev.policy = d.plan
      /\ Spared(u.ev, s.ev.planned, Receivers(g), g.features, Edges(g))
      /\ d.plan = "tiled" => u.ev.planned.features = g.features
      /\ u.ev.bundle = s.ev.bundle /\ u.ev.harmonics = s.ev.harmonics =>
           Recorded(s, u) /\ u.arrays = s.arrays
  BY <1>1, <1>3, <1>6, <1>7, SelectFacts, SelectKeeps
<1>9. t = Scheduled(u, g)
  BY <1>2, <1>4, <1>5, <1>7 DEF Planned, Select
<1>10. Recorded(u, t) /\ SamePlan(u, t) /\ t.arrays = u.arrays
  BY <1>8, <1>9, ScheduledKeeps
<1>11. Spared(t.ev, ev.planned, Receivers(g), g.features, Edges(g))
  BY <1>3, <1>8, <1>10, StateIs DEF Spared, SamePlan
<1>12. t.ev.policy = "tiled" => t.ev.planned.features = g.features
  BY <1>8, <1>10 DEF SamePlan
<1>13. ASSUME t.ev.bundle = ev.bundle, t.ev.harmonics = ev.harmonics
       PROVE  Recorded(State, t) /\ t.arrays = arrays
  BY <1>3, <1>8, <1>10, <1>13, StateIs DEF Recorded
<1> QED
  BY <1>11, <1>12, <1>13

\* The three parts of a preparation.
LEMMA PrepareParts ==
  ASSUME PInv, NEW g \in Graphs, NEW free \in Answers, Prepare(g, free),
         NEW u, u = Planned(g, free), NEW w, w = Workspace(u, g),
         NEW t, t = reserve_geometry(w, g)
  PROVE  /\ Stored(u) /\ Stored(w) /\ Stored(t) /\ SamePlan(u, w) /\ SamePlan(w, t)
         /\ Kept(u, w) /\ Kept(w, t)
         /\ State' = t /\ graph' = g /\ conf' = conf
<1>1. PICK e : e = Released(State).ev
  OBVIOUS
<1>2. PlannedWell(u, e, g, free)
  BY <1>1, PlannedFacts
<1>3. Stored(u)
  BY <1>2 DEF PlannedWell
<1>4. Choose(e, g, free) = "tiled" => Receivers(g) > 0
  BY <1>1 DEF Prepare, Accepts
<1>5. Stored(w) /\ Kept(u, w) /\ TiledYOnly(w) /\ Tiled(w, g)
  BY <1>2, <1>4, WorkspaceReady
<1>6. Stored(t) /\ Kept(w, t) /\ t.ev.planned = w.ev.planned
  BY <1>5, ReserveFacts
<1>7. SamePlan(u, w)
  BY <1>3, WorkspacePlan
<1>8. TiledYOnly(t)
  BY <1>5, <1>6, KeptYOnly
<1>9. Becomes(t) /\ graph' = g /\ conf' = conf
  BY DEF Prepare, PrepareTo
<1>10. State' = t
  BY <1>6, <1>8, <1>9, StateBecomes
<1> QED
  BY <1>3, <1>5, <1>6, <1>7, <1>9, <1>10 DEF SamePlan, Kept

LEMMA AmpleInductive == AInv /\ [Next]_vars => AInv'
<1> SUFFICES ASSUME AInv, [Next]_vars PROVE AInv'
  OBVIOUS
<1>1. PInv /\ PInv'
  BY Inductive DEF AInv
<1> SUFFICES Exact' /\ Ample'
  BY <1>1 DEF AInv
<1>2. ASSUME NEW g \in Graphs, NEW free \in Answers, Prepare(g, free)
      PROVE  Exact' /\ Ample'
  <2>1. PICK u : u = Planned(g, free)
    OBVIOUS
  <2>2. PICK w : w = Workspace(u, g)
    OBVIOUS
  <2>3. PICK t : t = reserve_geometry(w, g)
    OBVIOUS
  <2>4. SamePlan(u, w) /\ SamePlan(w, t) /\ State' = t /\ graph' = g
    BY <1>1, <1>2, <2>1, <2>2, <2>3, PrepareParts
  <2>5. u.ev.policy = "tiled" => u.ev.planned.features = g.features
    BY <1>1, <2>1, PlannedKeeps
  <2>6. ev' = t.ev
    BY <2>4 DEF State
  <2>7. Exact'
    BY <2>4, <2>5, <2>6 DEF Exact, SamePlan
  <2>8. pc' = "prepared"
    BY <1>2 DEF Prepare
  <2> QED
    BY <2>7, <2>8 DEF Ample
<1>3. ASSUME pc' = "none"
      PROVE  Exact' /\ Ample'
  BY <1>3 DEF Exact, Ample
<1>4. ASSUME NEW p \in Profiles, NEW d \in DebugPlans \cup {"none"}, Resolve(p, d)
      PROVE  Exact' /\ Ample'
  BY <1>3, <1>4 DEF Resolve, Invalidated
<1>5. CASE set_allow_fixed_workspace
  BY <1>3, <1>5 DEF set_allow_fixed_workspace, Invalidated
<1>6. ASSUME NEW g \in Graphs, NEW free \in FreeBytes \cup {Unknown},
             \/ Prepare(g, free) \/ PrepareRefused(g, free)
             \/ \E n \in 0 .. 2 : WorkspaceFails(g, free, n)
             \/ GeometryFails(g, free)
      PROVE  Exact' /\ Ample'
  <2>1. CASE Prepare(g, free)
    BY <1>2, <2>1 DEF Answers
  <2>2. CASE PrepareRefused(g, free)
    BY <1>3, <2>2 DEF PrepareRefused, Invalidated
  <2>3. ASSUME NEW n \in 0 .. 2, WorkspaceFails(g, free, n) PROVE Exact' /\ Ample'
    BY <1>3, <2>3 DEF WorkspaceFails, Invalidated
  <2>4. CASE GeometryFails(g, free)
    BY <1>3, <2>4 DEF GeometryFails, Invalidated
  <2> QED
    BY <1>6, <2>1, <2>2, <2>3, <2>4
<1>7. ASSUME Standing, graph' = graph, pc # "none"
      PROVE  Exact'
  BY <1>7 DEF Standing, Exact, AInv
<1>8. CASE Evaluate
  <2>1. Standing /\ graph' = graph /\ pc # "none"
    BY <1>1, <1>8, Evaluation DEF Evaluate
  <2> QED
    BY <1>1, <1>7, <1>8, <2>1, EvaluationAmple
<1>9. ASSUME NEW n \in 0 .. 4, EvaluateFails(n) PROVE Exact' /\ Ample'
  <2>1. Standing
    BY <1>1, <1>9, EvaluationFailing
  <2>2. graph' = graph /\ pc # "none" /\ pc' = "prepared"
    BY <1>9, Zenon DEF EvaluateFails
  <2> QED
    BY <1>7, <2>1, <2>2 DEF Ample
<1>10. CASE UNCHANGED vars
  BY <1>10 DEF vars, AInv, Exact, Ample, Enough, GeometryCovers, ResultsFit, ResultEdges,
               StateRows, State
<1> QED
  BY <1>4, <1>5, <1>6, <1>8, <1>9, <1>10 DEF Next

LEMMA AmpleInitially == Init => AInv
  BY Initially DEF Init, AInv, Exact, Ample

-----------------------------------------------------------------------------
(***************************************************************************)
(* Repeated runs                                                           *)
(***************************************************************************)

\* A graph in capacity finds room under the plan in force.
LEMMA CapacityRoomy ==
  ASSUME AInv, pc = "evaluated", NEW g \in Graphs, InCapacity(g)
  PROVE  Roomy(State, g)
<1> SUFFICES ASSUME ev.policy = "tiled" PROVE Roomy(State, g)
  BY StateIs DEF Roomy
<1>1. /\ graph \in Graphs /\ Tiled(State, graph) /\ ev \in Evaluators /\ arrays \in Extents
  BY DEF AInv, PInv, Token, TypeOK
<1>2. /\ arrays.arena \in Nat /\ arrays.graphH1 \in Nat /\ arrays.local \in Nat
      /\ ev.tileEdges \in Nat /\ ev.arenaPlanned \in Nat
  BY <1>1, CountFacts DEF Evaluators, Extents
<1>3. Receivers(graph) > 0 /\ Housed(State, graph)
  BY <1>1, StateIs DEF Tiled
<1>4. arrays.arena > 0
  BY <1>1, <1>2, <1>3, GraphFacts, StateIs DEF Housed
<1>5. TileEdges(g) =< ev.tileEdges /\ TileRows(g) =< ev.arenaPlanned
  BY DEF InCapacity
<1>6. ArenaFits(State, g)
  BY <1>2, <1>4, <1>5, GraphFacts, StateIs DEF ArenaFits
<1>7. ASSUME conf.dual
      PROVE  arrays.graphH1 >= g.features /\ arrays.local >= ev.tileEdges
  <2>1. arrays.graphH1 >= graph.features /\ arrays.local >= ev.tileEdges
    BY <1>3, <1>7, StateIs DEF Housed
  <2>2. ev.planned.features = graph.features
    BY DEF AInv, Exact
  <2>3. g.features =< ev.planned.features
    BY DEF InCapacity
  <2> QED
    BY <1>1, <1>2, <2>1, <2>2, <2>3, GraphFacts
<1> QED
  BY <1>5, <1>6, <1>7, StateIs DEF Roomy

\* Its geometry is in place.
LEMMA CapacityCovers ==
  ASSUME AInv, pc = "evaluated", NEW g \in Graphs, InCapacity(g), NEW w,
         Recorded(State, w), w.ev.policy = ev.policy, ArraysStay(State, w)
  PROVE  GeometryCovers(w, g)
<1>1. /\ Stored(State) /\ ev \in Evaluators /\ arrays \in Extents /\ graph \in Graphs
      /\ GeometryCovers(State, graph)
  BY DEF AInv, PInv, Sound, TypeOK, Token, Ample, Enough
<1>2. /\ w.arrays.geometry = arrays.geometry /\ w.arrays.Y = arrays.Y
      /\ w.arrays.types = arrays.types
  BY <1>1, StayExtents, StateIs
<1>3. w.ev.geoCapacity = ev.geoCapacity /\ w.ev.tileEdges = ev.tileEdges
  BY StateIs DEF Recorded
<1>4. /\ ev.geoCapacity \in Nat /\ ev.tileEdges \in Nat /\ arrays.Y \in Nat
      /\ ev.planned.edges \in Nat /\ Edges(g) \in Nat
  BY <1>1, CountFacts, GraphFacts DEF Evaluators, Extents
<1>5. Edges(g) =< ev.geoCapacity
  BY <1>4 DEF InCapacity, Lowest
<1>6. CASE ev.policy = "tiled"
  <2>1. /\ arrays.Y >= ev.tileEdges /\ arrays.geometry >= ev.tileEdges
        /\ arrays.types >= ev.tileEdges
    BY <1>1, <1>6, StateIs DEF GeometryCovers
  <2> QED
    BY <1>2, <1>3, <1>5, <1>6, <2>1 DEF GeometryCovers
<1>7. CASE ev.policy # "tiled"
  <2>1. arrays.Y >= Edges(g)
    BY <1>4, <1>7 DEF InCapacity
  <2> QED
    BY <1>2, <1>3, <1>5, <1>7, <2>1 DEF GeometryCovers
<1> QED
  BY <1>6, <1>7

\* Its results fit, whatever is planned for it within the counts of before.
LEMMA CapacityFits ==
  ASSUME AInv, pc = "evaluated", NEW g \in Graphs, InCapacity(g), NEW t,
         t.ev \in Evaluators, Recorded(State, t), t.ev.policy = ev.policy,
         ArraysStay(State, t),
         Spared(t.ev, ev.planned, Receivers(g), g.features, Edges(g))
  PROVE  /\ ResultsFit(t, g)
         /\ ev.policy # "tiled" => arrays.A0.rows >= StateRows(t, g)
<1>1. /\ Stored(State) /\ ev \in Evaluators /\ arrays \in Extents /\ graph \in Graphs
      /\ Enough(State, graph)
  BY DEF AInv, PInv, Sound, TypeOK, Token, Ample
<1>2. /\ t.arrays.energies = arrays.energies /\ t.arrays.forces = arrays.forces
      /\ t.arrays.atomForces = arrays.atomForces /\ t.ev.tileEdges = ev.tileEdges
  <2>1. /\ t.arrays.energies = State.arrays.energies
        /\ t.arrays.forces = State.arrays.forces
        /\ t.arrays.atomForces = State.arrays.atomForces
    BY <1>1, StayExtents, Zenon
  <2>2. t.ev.tileEdges = State.ev.tileEdges
    BY DEF Recorded
  <2> QED
    BY <2>1, <2>2, StateIs
<1>3. PICK r \in Nat, f \in Nat, e \in Nat : r = Receivers(g) /\ f = g.features /\ e = Edges(g)
  BY GraphFacts
<1>4. PICK pr \in Nat, pf \in Nat, pe \in Nat :
        pr = ev.planned.receivers /\ pf = ev.planned.features /\ pe = ev.planned.edges
  BY <1>1, CountFacts DEF Evaluators
<1>5. PICK qr \in Nat, qf \in Nat, qe \in Nat :
        qr = t.ev.planned.receivers /\ qf = t.ev.planned.features /\ qe = t.ev.planned.edges
  BY CountFacts DEF Evaluators
<1>6. r =< pr /\ f =< pf /\ e =< pe
  <2>1. ev.geoCapacity \in Nat
    BY <1>1, CountFacts DEF Evaluators
  <2> QED
    BY <1>3, <1>4, <2>1 DEF InCapacity, Lowest
<1>7. qr =< pr /\ qf =< pf /\ qe =< pe
  BY <1>3, <1>4, <1>5, <1>6 DEF Spared
<1>8. PICK er \in Nat, ef \in Nat, ee \in Nat :
        er = arrays.energies /\ ef = arrays.atomForces /\ ee = arrays.forces
  BY <1>1, CountFacts DEF Extents
<1>9. arrays.A0.rows \in Nat
  BY <1>1, CountFacts DEF Extents, Views
<1>10. /\ Receivers(graph) \in Nat /\ graph.features \in Nat /\ Edges(graph) \in Nat
       /\ ev.tileEdges \in Nat
  BY <1>1, GraphFacts, CountFacts DEF Evaluators
<1>11. /\ er >= Highest(Receivers(graph), pr) /\ ee >= ResultEdges(State, graph)
       /\ ev.policy = "tiled" => ef >= Highest(graph.features, pf)
       /\ ev.policy # "tiled" => arrays.A0.rows >= Highest(Receivers(graph), pr)
  BY <1>1, <1>4, <1>8, StateIs DEF Enough, ResultsFit, StateRows
<1>12. er >= pr /\ (ev.policy = "tiled" => ef >= pf)
       /\ (ev.policy # "tiled" => arrays.A0.rows >= pr)
  BY <1>9, <1>10, <1>11 DEF Highest
<1>13. ee >= ResultEdges(t, g)
  <2>1. CASE ev.policy = "tiled"
    BY <1>2, <1>11, <2>1, StateIs DEF ResultEdges
  <2>2. CASE ev.policy # "tiled"
    <3>1. ResultEdges(State, graph) = Highest(Edges(graph), pe)
      BY <1>4, <2>2, StateIs DEF ResultEdges
    <3>2. ResultEdges(t, g) = Highest(e, qe)
      BY <1>3, <1>5, <2>2 DEF ResultEdges
    <3>3. ee >= pe
      BY <1>10, <1>11, <3>1 DEF Highest
    <3> QED
      BY <1>6, <1>7, <3>2, <3>3 DEF Highest
  <2> QED
    BY <2>1, <2>2
<1>14. Highest(r, qr) =< pr /\ Highest(f, qf) =< pf
  BY <1>6, <1>7 DEF Highest
<1>15. Highest(r, qr) \in Nat /\ Highest(f, qf) \in Nat
  BY DEF Highest
<1>16. er >= Highest(r, qr) /\ (ev.policy = "tiled" => ef >= Highest(f, qf))
       /\ (ev.policy # "tiled" => arrays.A0.rows >= Highest(r, qr))
  BY <1>9, <1>12, <1>14, <1>15
<1> QED
  BY <1>2, <1>3, <1>5, <1>8, <1>13, <1>16 DEF ResultsFit, StateRows

\* A preparation in capacity replaces no array, and neither will the
\* evaluation after it.
Reused ==
  /\ ev'.geoCapacity = ev.geoCapacity
  /\ [arrays' EXCEPT !.A0 = NoView] = [arrays EXCEPT !.A0 = NoView]
  /\ ResultsFit(State, graph)'
  /\ ev.policy # "tiled" => (arrays.A0.rows >= StateRows(State, graph))'

LEMMA PrepareReuses ==
  ASSUME AInv, pc = "evaluated", NEW g \in Graphs, NEW free \in Answers, Prepare(g, free),
         InCapacity(g), ev'.policy = ev.policy, ev'.harmonics = ev.harmonics,
         ev'.bundle = ev.bundle
  PROVE  Reused
<1>1. PInv /\ Stored(State)
  BY DEF AInv, PInv, Sound
<1>2. PICK u : u = Planned(g, free)
  OBVIOUS
<1>3. PICK w : w = Workspace(u, g)
  OBVIOUS
<1>4. PICK t : t = reserve_geometry(w, g)
  OBVIOUS
<1>5. /\ Stored(u) /\ Stored(w) /\ Stored(t) /\ SamePlan(u, w) /\ SamePlan(w, t)
      /\ Kept(u, w) /\ Kept(w, t) /\ State' = t /\ graph' = g /\ conf' = conf
  BY <1>1, <1>2, <1>3, <1>4, PrepareParts
<1>6. ev' = t.ev /\ arrays' = t.arrays
  BY <1>5 DEF State
<1>7. u.ev.policy = ev.policy /\ u.ev.bundle = ev.bundle /\ u.ev.harmonics = ev.harmonics
  BY <1>5, <1>6 DEF Kept
<1>8. /\ Recorded(State, u) /\ u.arrays = arrays
      /\ Spared(u.ev, ev.planned, Receivers(g), g.features, Edges(g))
  BY <1>1, <1>2, <1>7, PlannedKeeps
<1>9. Roomy(u, g)
  <2>1. Roomy(State, g)
    BY CapacityRoomy
  <2> QED
    BY <1>7, <1>8, <2>1, StateIs DEF Roomy, Recorded, ArenaFits
<1>10. /\ Recorded(u, w) /\ ArraysStay(u, w)
       /\ u.ev.policy # "tiled" => w.arrays = u.arrays
  BY <1>3, <1>5, <1>9, WorkspaceKeeps
<1>11. Recorded(State, w) /\ ArraysStay(State, w) /\ w.ev.policy = ev.policy
  <2>1. Recorded(State, w)
    BY <1>8, <1>10 DEF Recorded
  <2>2. ArraysStay(State, w)
    BY <1>8, <1>10, StateIs DEF ArraysStay
  <2> QED
    BY <1>5, <1>7, <2>1, <2>2 DEF SamePlan
<1>12. t = w
  BY <1>4, <1>11, CapacityCovers DEF reserve_geometry
<1>13. Spared(t.ev, ev.planned, Receivers(g), g.features, Edges(g))
  BY <1>5, <1>8 DEF Spared, SamePlan
<1>14. t.ev \in Evaluators
  BY <1>5, StateParts DEF Stored
<1>15. /\ ResultsFit(t, g)
       /\ ev.policy # "tiled" => arrays.A0.rows >= StateRows(t, g)
  BY <1>11, <1>12, <1>13, <1>14, CapacityFits
<1>16. ev'.geoCapacity = ev.geoCapacity
  BY <1>6, <1>11, <1>12, StateIs DEF Recorded
<1>17. [arrays' EXCEPT !.A0 = NoView] = [arrays EXCEPT !.A0 = NoView]
  BY <1>1, <1>6, <1>11, <1>12, StayExtents, StateIs
<1>18. ResultsFit(State, graph)'
  BY <1>5, <1>15 DEF ResultsFit, ResultEdges
<1>19. ev.policy # "tiled" => (arrays.A0.rows >= StateRows(State, graph))'
  <2> SUFFICES ASSUME ev.policy # "tiled"
               PROVE  (arrays.A0.rows >= StateRows(State, graph))'
    OBVIOUS
  <2>1. arrays' = arrays
    BY <1>6, <1>7, <1>8, <1>10, <1>12
  <2>2. arrays.A0.rows >= StateRows(t, g)
    BY <1>15
  <2> QED
    BY <1>5, <2>1, <2>2 DEF StateRows
<1> QED
  BY <1>16, <1>17, <1>18, <1>19 DEF Reused

\* Only a preparation leads from an evaluation to another graph's token.
LEMMA NextPrepares ==
  ASSUME Next, pc = "evaluated", pc' = "prepared", graph' # graph
  PROVE  \E g \in Graphs, free \in Answers : Prepare(g, free) /\ graph' = g
<1>1. ASSUME NEW p \in Profiles, NEW d \in DebugPlans \cup {"none"}, Resolve(p, d)
      PROVE  FALSE
  BY <1>1 DEF Resolve, Invalidated
<1>2. ~set_allow_fixed_workspace
  BY DEF set_allow_fixed_workspace, Invalidated
<1>3. ASSUME NEW g \in Graphs, NEW free \in FreeBytes \cup {Unknown},
             \/ PrepareRefused(g, free)
             \/ \E n \in 0 .. 2 : WorkspaceFails(g, free, n)
             \/ GeometryFails(g, free)
      PROVE  FALSE
  BY <1>3 DEF PrepareRefused, WorkspaceFails, GeometryFails, Invalidated
<1>4. ~Evaluate
  BY DEF Evaluate
<1>5. ASSUME NEW n \in 0 .. 4, EvaluateFails(n) PROVE FALSE
  <2>1. graph' = graph
    BY <1>5, Zenon DEF EvaluateFails
  <2> QED
    BY <2>1
<1>6. PICK g \in Graphs, free \in FreeBytes \cup {Unknown} : Prepare(g, free)
  BY <1>1, <1>2, <1>3, <1>4, <1>5 DEF Next
<1>7. graph' = g
  BY <1>6 DEF Prepare
<1> QED
  BY <1>6, <1>7 DEF Answers

\* InCapacityReuses: after an evaluation, a graph within every capacity that is
\* left is prepared under the same plan without replacing an array, and its
\* evaluation will replace none either.
THEOREM RunsReuse == Spec => InCapacityReuses
<1>1. ASSUME AInv, Next, pc = "evaluated", pc' = "prepared", graph' # graph,
             InCapacity(graph'), ev'.policy = ev.policy, ev'.harmonics = ev.harmonics,
             ev'.bundle = ev.bundle
      PROVE  Reused
  <2>1. PICK g \in Graphs, free \in Answers : Prepare(g, free) /\ graph' = g
    BY <1>1, NextPrepares
  <2>2. InCapacity(g)
    BY <1>1, <2>1
  <2> QED
    BY <1>1, <2>1, <2>2, PrepareReuses
<1>2. AInv /\ [Next]_vars =>
        [pc = "evaluated" /\ pc' = "prepared" /\ graph' # graph
         /\ InCapacity(graph') /\ ev'.policy = ev.policy
         /\ ev'.harmonics = ev.harmonics /\ ev'.bundle = ev.bundle
         => /\ ev'.geoCapacity = ev.geoCapacity
            /\ [arrays' EXCEPT !.A0 = NoView] = [arrays EXCEPT !.A0 = NoView]
            /\ ResultsFit(State, graph)'
            /\ ev.policy # "tiled" => (arrays.A0.rows >= StateRows(State, graph))']_vars
  BY <1>1 DEF Reused
<1> QED
  BY <1>2, AmpleInitially, AmpleInductive, PTL DEF Spec, InCapacityReuses
=============================================================================
