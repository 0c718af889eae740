---------------------------- MODULE NeighborCache ----------------------------
(***************************************************************************)
(* How one evaluation of the ASE calculator (calculator.py) meets the      *)
(* prepared state of the native evaluator (libsymmetrix,                   *)
(* mace_kokkos_factorized_lifecycle.cpp).                                  *)
(*                                                                         *)
(* The calculator keeps a neighbor cache: a candidate graph built for some *)
(* structure (the topology snapshot), reused while the structure stays     *)
(* within the neighbor skin, with the cell it was last brought to.  The    *)
(* evaluator keeps the graph arrays and the reference geometry, guarded by *)
(* generation tokens.  The two sides are kept in step only by numbers:     *)
(* build and geometry generations on one side, graph tokens on the other,  *)
(* and the identities the calculator remembers of what it handed over.     *)
(* Every native call may fail, and the evaluator may be reconfigured       *)
(* between two evaluations, so the sides may be out of step at any point.  *)
(* Without a skin an evaluation may take an exact list of its own instead, *)
(* and then the cache is whatever earlier evaluations left, or absent.     *)
(***************************************************************************)
EXTENDS Naturals

CONSTANTS
  Kind,         \* the species and the periodicity of a structure
  Full, Open,   \* the kinds periodic along all axes, and along none
  Cell,         \* cell matrices
  Singular,     \* those without an inverse
  Pos,          \* positions
  Near(_, _, _),  \* Near(s, t, a): the test that a graph built for t serves a,
                \* with a skin (s) or without
  Pairs(_),     \* node types, degrees and sources of a structure's graph
  Tiled,        \* graphs that fit a fixed-workspace plan only
  Setups,       \* the evaluators under the calculator, see Setup
  MaxUpdates,   \* bound on geometry updates and native graphs
  None

RequestKinds ==
  {"native",    \* native geometry, any graph
   "edges",     \* native geometry, but host edge lists (legacy BEC reduction)
   "explicit"}  \* edge vectors computed by the calculator

FaultKinds ==
  {"graph",     \* prepare_graph throws
   "geometry",  \* prepare_geometry throws half way
   "device",    \* the device builder throws after it dropped the old graph
   "reject",    \* the device builder throws before that
   "tables",    \* prepare_factorized_model throws
   "policy"}    \* launch overrides and planner settings change

\* An evaluator, what is evaluated with it and what may go wrong there.
Setup == [mode : {"direct", "generic"},  \* streamed_edges_mode
          field : BOOLEAN,               \* the model has field coupling (MACEField)
          single : BOOLEAN,              \* single_layer_readout
          skin : BOOLEAN,                \* neighbor_skin > 0
          tiled : BOOLEAN,               \* fixed-workspace plans are permitted
          kinds : SUBSET Kind,           \* the kinds of structures evaluated
          device : SUBSET Kind,          \* those built on the device when eligible
          requests : SUBSET RequestKinds,  \* what evaluations ask for
          faults : SUBSET FaultKinds]      \* what may fail or be reconfigured

Atoms == [kind : Kind, cell : Cell, pos : Pos]

Geometries == {"cartesian", "fractional", "shift"}

Graphs == {Pairs(a) : a \in Atoms}

VARIABLES
  setup,     \* the evaluator, chosen once
  atoms,     \* the structure to evaluate
  pc,        \* where the evaluation is
  req,       \* what it asks for
  tuned,     \* _apply_kernel_launch_tuning has run in this evaluation
  cache,     \* _neighbor_cache, or None
  builds,    \* neighbor_cache_build_count
  updates,   \* neighbor_cache_geometry_update_count
  graphId,   \* generic: <<cache generation, token>> of the prepared graph
  geomId,    \* _execution_native_geometry_identity: <<token, stamp, kind>>
  cellId,    \* _execution_native_cell_identity: <<token, stamp>>
  bare,      \* the edges of this evaluation are an exact list of its own
  xyz,       \* explicit edge vectors: the cell they were computed in, or None
  token,     \* the graph generation this evaluation uses
  graph,     \* native graph: token (0: none), counter, arrays, types, tables
  geom,      \* native geometry: token (0: none), form, snapshot and cell
  plan,      \* execution_plan_report names a fixed-workspace plan
  used,      \* what the last evaluation computed with, None while it runs
  failure    \* why the last evaluation failed, None if it did not

python == <<cache, builds, updates, graphId, geomId, cellId>>
native == <<graph, geom, plan>>
vars == <<setup, atoms, pc, req, tuned, cache, builds, updates, graphId, geomId, cellId,
          bare, xyz, token, graph, geom, plan, used, failure>>

Cache == [topo : Atoms,           \* the structure the graph was built for
          cell : Cell,            \* the cell of the reference positions
          native : BOOLEAN,       \* native_geometry_eligible
          fractional : BOOLEAN,   \* fractional_geometry_eligible
          gen : Nat,              \* generation
          geomGen : Nat,          \* geometry_generation
          hostGen : Nat,          \* host_geometry_generation
          hostCell : Cell \cup {None},   \* the cell reference_xyz is for
          dev : Nat,              \* device_graph_generation
          devGeom : Nat]          \* device_geometry_generation

Graph == [gen : Nat, counter : Nat,
          arrays : Graphs \cup {None},
          host : BOOLEAN,                \* host copies kept for comparison
          sched : BOOLEAN,               \* dual-layer source schedule present
          types : Kind \cup {None},      \* active_types
          tables : Kind \cup {None}]     \* the types the radial tables are for

Geom == [gen : Nat, form : Geometries \cup {None},
         snap : Atoms \cup {None},       \* None: partly overwritten
         cell : Cell \cup {None}]

Failures ==
  {"graph", "geometry", "device",  \* a native call threw
   "stale",      \* a token the evaluator no longer honours
   "hostless",   \* host geometry asked of a graph on the device
   "cacheless",  \* a fixed-workspace plan without a neighbor cache
   "extents"}    \* shift geometry that does not fit the graph

Points == {"idle", "inputs", "served", "graph", "geometry", "compute"}

Evaluation == [at : Atoms, arrays : Graphs \cup {None}, snap : Atoms \cup {None},
               cell : Cell \cup {None}, tables : Kind \cup {None}]

ASSUME NeighborAssumption ==
  /\ Full \subseteq Kind /\ Open \subseteq Kind /\ Full \cap Open = {}
  /\ Singular \subseteq Cell
  /\ Setups \subseteq Setup
     \* what the evaluator binds decides the requests of the generic mode
  /\ \A s \in Setups :
       s.mode = "generic" /\ "explicit" \in s.requests => s.requests = {"explicit"}
  /\ MaxUpdates \in Nat
  /\ None \notin Kind /\ None \notin Cell /\ None \notin Atoms
  /\ None \notin Cache
  /\ None # "stale"
  /\ None \notin Nat \X Nat /\ None \notin Nat \X Nat \X Geometries

Mode == setup.mode
Field == setup.field
SingleLayer == setup.single
Faults == setup.faults

TypeOK ==
  /\ setup \in Setups
  /\ atoms \in Atoms
  /\ pc \in Points
  /\ req \in RequestKinds \cup {None}
  /\ tuned \in BOOLEAN /\ bare \in BOOLEAN /\ plan \in BOOLEAN
  /\ cache \in Cache \cup {None}
  /\ builds \in Nat /\ updates \in Nat
  /\ graphId \in (Nat \X Nat) \cup {None}
  /\ geomId \in (Nat \X Nat \X Geometries) \cup {None}
  /\ cellId \in (Nat \X Nat) \cup {None}
  /\ xyz \in Cell \cup {None}
  /\ token \in Nat
  /\ graph \in Graph
  /\ geom \in Geom
  /\ used \in Evaluation \cup {None}
  /\ failure \in Failures \cup {None}

Init ==
  /\ setup \in Setups
  /\ atoms \in Atoms /\ atoms.kind \in setup.kinds
  /\ pc = "idle" /\ req = None /\ tuned = FALSE /\ bare = FALSE
  /\ cache = None /\ builds = 0 /\ updates = 0
  /\ graphId = None /\ geomId = None /\ cellId = None
  /\ xyz = None /\ token = 0
  /\ graph = [gen |-> 0, counter |-> 0, arrays |-> None, host |-> FALSE,
              sched |-> FALSE, types |-> None, tables |-> None]
  /\ geom = [gen |-> 0, form |-> None, snap |-> None, cell |-> None]
  /\ plan = FALSE
  /\ used = None /\ failure = None

-----------------------------------------------------------------------------
\* Native state changes shared by several calls.

\* invalidate_factorized_prepared_graph, which also covers the schedule_dirty
\* flag: the code never sets that flag without dropping the graph.
NoGraph(g) == [g EXCEPT !.gen = 0]
NoGeom == [geom EXCEPT !.gen = 0]

\* The planner selects a fixed-workspace tiled plan for graph g: direct mode
\* only, never with field coupling, and where such plans are permitted.
FixedWorkspace(g) == Mode = "direct" /\ ~Field /\ setup.tiled /\ g \in Tiled

\* prepare_active_types for a structure of kind k.  New types rebuild the
\* tables; in direct mode a two-layer model drops the graph on the way.
Drops(k) == graph.types # k /\ Mode = "direct" /\ ~SingleLayer

WithTypes(g, k) == [g EXCEPT !.types = k, !.tables = IF g.types = k THEN @ ELSE k]

\* The evaluation raises: nothing it has not already stored survives it.
Raise(why) ==
  /\ pc' = "idle"
  /\ failure' = why
  /\ UNCHANGED <<setup, atoms, req, tuned, bare, xyz, token, used>>

Goto(l) == pc' = l /\ UNCHANGED <<setup, atoms, req, bare, used, failure>>

-----------------------------------------------------------------------------
\* _mace_inputs and _cached_neighbor_geometry

\* _can_use_native_geometry: without a skin only a single layer, or a plan
\* selected earlier, brings native geometry.
NativeAsked == req # "explicit" /\ (setup.skin \/ SingleLayer \/ plan)

\* The neighbor cache serves the evaluation.
UsesCache == setup.skin \/ NativeAsked

\* Otherwise an exact list is made; the cache is neither read nor refreshed.
ExactList ==
  /\ pc = "inputs"
  /\ ~UsesCache
  /\ pc' = "graph"
  /\ bare' = TRUE /\ xyz' = atoms.cell
  /\ UNCHANGED <<setup, atoms, req, used, failure, python, native, tuned, token>>

\* The cache serves the structure: same atoms, a graph of the kind asked for,
\* and the skin test against the topology snapshot.  A changed cell is only
\* followed where the topology is kept in fractional coordinates.
Reusable ==
  /\ cache # None
  /\ atoms.kind = cache.topo.kind
  /\ req # "edges" \/ cache.dev = 0
  /\ IF cache.fractional
     THEN atoms.cell \notin Singular
     ELSE /\ atoms.cell = cache.cell
          /\ atoms.kind \in Open \/ atoms.cell \notin Singular
  /\ Near(setup.skin, cache.topo, atoms)

Invertible == atoms.cell \notin Singular
FractionalEligible == atoms.kind \in Full /\ Invertible
NativeEligible == atoms.kind \in Open \/ Invertible

\* use_device_graph
OnDevice ==
  /\ setup.skin
  /\ Mode = "direct"
  /\ req = "native"
  /\ FractionalEligible
  /\ atoms.kind \in setup.device

Reuse ==
  /\ pc = "inputs"
  /\ UsesCache
  /\ Reusable
  /\ atoms.cell = cache.cell
  /\ Goto("served")
  /\ UNCHANGED <<python, native, tuned, xyz, token>>

\* The cell changed within the skin: new reference positions, same graph.
CellUpdate ==
  /\ pc = "inputs"
  /\ UsesCache
  /\ Reusable
  /\ atoms.cell # cache.cell
  /\ updates' = updates + 1
  /\ cache' = [cache EXCEPT !.cell = atoms.cell, !.geomGen = updates + 1,
                            !.native = TRUE]
  /\ Goto("served")
  /\ UNCHANGED <<builds, graphId, geomId, cellId, native, tuned, xyz, token>>

NewCache(dev) ==
  [topo |-> atoms, cell |-> atoms.cell,
   native |-> NativeEligible, fractional |-> FractionalEligible,
   gen |-> builds + 1, geomGen |-> updates + 1,
   hostGen |-> 0, hostCell |-> None,
   dev |-> dev, devGeom |-> IF dev = 0 THEN 0 ELSE updates + 1]

Rebuilt(dev) ==
  /\ cache' = NewCache(dev)
  /\ builds' = builds + 1
  /\ updates' = updates + 1
  /\ Goto("served")
  /\ UNCHANGED <<graphId, geomId, cellId, tuned, xyz, token>>

BuildHost ==
  /\ pc = "inputs"
  /\ UsesCache
  /\ ~Reusable
  /\ ~OnDevice
  /\ Rebuilt(0)
  /\ UNCHANGED native

\* The native graph and geometry that _prepare_periodic_factorized_graph leaves.
DeviceGraph ==
  [WithTypes(graph, atoms.kind) EXCEPT
     !.gen = graph.counter + 1, !.counter = @ + 1, !.arrays = Pairs(atoms),
     !.host = FALSE, !.sched = FixedWorkspace(Pairs(atoms))]

DeviceGeom ==
  [gen |-> graph.counter + 1, snap |-> atoms, cell |-> atoms.cell,
   form |-> IF FixedWorkspace(Pairs(atoms)) THEN "shift" ELSE "fractional"]

BuildDevice ==
  /\ pc = "inputs"
  /\ ~Reusable
  /\ OnDevice
  /\ graph' = DeviceGraph
  /\ geom' = DeviceGeom
  /\ plan' = FixedWorkspace(Pairs(atoms))
  /\ Rebuilt(graph.counter + 1)

\* The builder throws in or after its callback, having dropped the old graph,
\* or the calculator rejects what it built; the old cache stays.
BuildDeviceFails ==
  /\ "device" \in Faults
  /\ pc = "inputs"
  /\ ~Reusable
  /\ OnDevice
  /\ \/ /\ graph' = [NoGraph(WithTypes(graph, atoms.kind)) EXCEPT !.sched = FALSE]
        /\ geom' = [NoGeom EXCEPT !.snap = None]
        /\ plan' \in {plan, FixedWorkspace(Pairs(atoms))}
     \/ /\ graph' = DeviceGraph /\ geom' = DeviceGeom
        /\ plan' = FixedWorkspace(Pairs(atoms))
  /\ Raise("device")
  /\ UNCHANGED python

\* The builder throws before its callback (a non-finite position, no memory):
\* prepare_active_types and release_dual_layer_source_schedule have run.
BuildDeviceRejected ==
  /\ "reject" \in Faults
  /\ pc = "inputs"
  /\ ~Reusable
  /\ OnDevice
  /\ LET g == [WithTypes(graph, atoms.kind) EXCEPT !.sched = FALSE]
     IN IF Drops(atoms.kind)
        THEN graph' = NoGraph(g) /\ geom' = NoGeom
        ELSE graph' = g /\ UNCHANGED geom
  /\ Raise("device")
  /\ UNCHANGED <<python, plan>>

\* Native geometry is returned as such; otherwise the edge vectors are made.
Native == req # "explicit" /\ cache.native

\* _materialize_neighbor_cache_geometry: recomputed when the generation moved.
Materialized ==
  IF cache.hostGen = cache.geomGen THEN cache
  ELSE [cache EXCEPT !.hostGen = cache.geomGen, !.hostCell = cache.cell]

\* The cache holds a graph built on the device.
Resident == cache # None /\ cache.dev # 0

\* "A device-resident neighbor graph has no host edge geometry."
NoHostGeometry ==
  /\ pc = "served"
  /\ ~Native
  /\ Resident
  /\ Raise("hostless")
  /\ UNCHANGED <<python, native>>

\* The inputs, then _apply_kernel_launch_tuning with no change of policy.
Serve ==
  /\ pc = "served"
  /\ Native \/ ~Resident
  /\ IF Native
     THEN xyz' = None /\ UNCHANGED cache
     ELSE cache' = Materialized /\ xyz' = cache'.hostCell
  /\ Goto("graph")
  /\ UNCHANGED <<builds, updates, graphId, geomId, cellId, native, tuned, token>>

\* _apply_kernel_launch_tuning changes the launch overrides, which drops the
\* prepared graph; a device graph is then rebuilt, once.
Tune ==
  /\ "policy" \in Faults
  /\ pc = "graph"
  /\ ~tuned
  /\ Mode = "direct"
  /\ graph' = NoGraph(graph) /\ geom' = NoGeom
  /\ tuned' = TRUE
  /\ IF Resident
     THEN cache' = None /\ Goto("inputs")
     ELSE UNCHANGED <<cache, setup, atoms, pc, req, bare, used, failure>>
  /\ UNCHANGED <<builds, updates, graphId, geomId, cellId, plan, xyz, token>>

-----------------------------------------------------------------------------
\* _compute_mace and _compute_macefield: the graph

\* The structure whose lists the calculator hands over.
Listed == IF bare THEN atoms ELSE cache.topo

DeviceToken ==
  /\ pc = "graph"
  /\ Resident
  /\ token' = cache.dev
  /\ Goto("geometry")
  /\ UNCHANGED <<python, native, tuned, xyz>>

\* generic: the graph prepared for this cache generation is not prepared again.
Known == IF graphId = None THEN FALSE ELSE graphId[1] = cache.gen

NeedsGraph ==
  /\ pc = "graph"
  /\ ~Resident
  /\ Mode = "generic" => xyz = None /\ ~Known

KnownGraph ==
  /\ pc = "graph"
  /\ Mode = "generic" /\ xyz = None
  /\ Known
  /\ token' = graphId[2]
  /\ Goto("geometry")
  /\ UNCHANGED <<python, native, tuned, xyz>>

\* prepare_factorized_graph and prepare_all_interactions_graph, after
\* prepare_active_types: equal arrays keep their token and their plan.
PrepareGraph ==
  /\ NeedsGraph
  /\ LET g == WithTypes(graph, atoms.kind)
         same == /\ ~Drops(atoms.kind) /\ graph.gen # 0
                 /\ graph.host /\ graph.arrays = Pairs(Listed)
     IN IF same
        THEN graph' = g /\ UNCHANGED <<geom, plan>>
        ELSE /\ graph' = [g EXCEPT !.gen = graph.counter + 1, !.counter = @ + 1,
                                   !.arrays = Pairs(Listed), !.host = TRUE,
                                   !.sched = FixedWorkspace(Pairs(Listed))]
             /\ geom' = NoGeom
             /\ plan' = FixedWorkspace(Pairs(Listed))
  /\ token' = graph'.gen
  /\ graphId' = IF Mode = "generic" THEN <<cache.gen, graph'.gen>> ELSE graphId
  /\ Goto("geometry")
  /\ UNCHANGED <<cache, builds, updates, geomId, cellId, tuned, xyz>>

\* An allocation fails after the old graph was dropped, before or after the
\* planner selected for the new one.
PrepareGraphFails ==
  /\ "graph" \in Faults
  /\ NeedsGraph
  /\ graph' = [NoGraph(WithTypes(graph, atoms.kind)) EXCEPT !.sched = FALSE]
  /\ geom' = NoGeom
  /\ plan' \in {plan, FixedWorkspace(Pairs(Listed))}
  /\ Raise("graph")
  /\ UNCHANGED python

\* prepare_factorized_model throws in prepare_active_types: the tables are
\* already those of the new types, active_types still holds the old ones.
TablesFail ==
  /\ "tables" \in Faults
  /\ NeedsGraph
  /\ Drops(atoms.kind)
  /\ graph' = [NoGraph(graph) EXCEPT !.tables = atoms.kind]
  /\ geom' = NoGeom
  /\ Raise("graph")
  /\ UNCHANGED <<python, plan>>

-----------------------------------------------------------------------------
\* The geometry

\* The form the calculator hands over for a graph built on the host.
Form ==
  IF plan THEN "shift"
  ELSE IF Mode = "direct" /\ ~Field /\ cache.fractional THEN "fractional"
  ELSE "cartesian"

\* The forms other than the fractional one depend on the cell as well.
Stamp(form) == IF form = "fractional" THEN cache.gen ELSE cache.geomGen

\* Mutant: the identity leaves out the cache generation.
GeomIdentityOfToken == <<token, 0, Form>>

GeomIdentity == <<token, Stamp(Form), Form>>

CellIdentity == <<token, cache.geomGen>>

\* A graph built on the host whose edge vectors come from positions: under a
\* fixed-workspace plan they do so even when explicit vectors were made.
FromPositions == ~Resident /\ (xyz = None \/ plan)

\* The calculator has the reference geometry to hand over.
FromCache == FromPositions /\ cache # None

PrepareGeometry ==
  /\ pc = "geometry"
  /\ FromCache
  /\ geomId # GeomIdentity
  /\ token = graph.gen
  /\ cache' = IF Form = "cartesian" THEN Materialized ELSE cache
  /\ geom' = [gen |-> token, form |-> Form, snap |-> cache.topo,
              cell |-> IF Form = "cartesian" THEN cache'.hostCell ELSE cache.cell]
  /\ geomId' = GeomIdentity
  /\ cellId' = IF Form = "fractional" THEN CellIdentity ELSE None
  /\ Goto("compute")
  /\ UNCHANGED <<builds, updates, graphId, graph, plan, tuned, xyz, token>>

\* Mutant: the identity is remembered before the call.
PrepareGeometryFailsLate ==
  /\ "geometry" \in Faults
  /\ pc = "geometry"
  /\ FromCache
  /\ geomId # GeomIdentity
  /\ geom' = [geom EXCEPT !.snap = None]
  /\ cache' = IF Form = "cartesian" THEN Materialized ELSE cache
  /\ geomId' = GeomIdentity
  /\ Raise("geometry")
  /\ UNCHANGED <<builds, updates, graphId, cellId, graph, plan>>

\* The call throws between its copies; the geometry token keeps its value.
PrepareGeometryFails ==
  /\ "geometry" \in Faults
  /\ pc = "geometry"
  /\ FromCache
  /\ geomId # GeomIdentity
  /\ geom' = [geom EXCEPT !.snap = None]
  /\ cache' = IF Form = "cartesian" THEN Materialized ELSE cache
  /\ Raise("geometry")
  /\ UNCHANGED <<builds, updates, graphId, geomId, cellId, graph, plan>>

\* Mutant: the wrong identity is remembered.
UpdateCellMisnamed ==
  /\ pc = "geometry"
  /\ FromCache
  /\ geomId = GeomIdentity
  /\ Form = "fractional" /\ cellId # CellIdentity
  /\ token = graph.gen /\ token = geom.gen
  /\ geom' = [geom EXCEPT !.cell = cache.cell]
  /\ cellId' = GeomIdentity
  /\ Goto("compute")
  /\ UNCHANGED <<cache, builds, updates, graphId, geomId, graph, plan, tuned, xyz, token>>

\* update_factorized_cell on a fractional geometry handed over before.
UpdateCell ==
  /\ pc = "geometry"
  /\ FromCache
  /\ geomId = GeomIdentity
  /\ Form = "fractional" /\ cellId # CellIdentity
  /\ token = graph.gen /\ token = geom.gen
  /\ geom' = [geom EXCEPT !.cell = cache.cell]
  /\ cellId' = CellIdentity
  /\ Goto("compute")
  /\ UNCHANGED <<cache, builds, updates, graphId, geomId, graph, plan, tuned, xyz, token>>

KeepGeometry ==
  /\ pc = "geometry"
  /\ FromCache
  /\ geomId = GeomIdentity
  /\ Form = "fractional" => cellId = CellIdentity
  /\ Goto("compute")
  /\ UNCHANGED <<python, native, tuned, xyz, token>>

\* "Fixed-workspace tiled execution requires shift geometry, atoms, and a
\* prepared neighbor cache": an exact list under such a plan, nothing cached.
ShiftCacheless ==
  /\ pc = "geometry"
  /\ FromPositions
  /\ cache = None
  /\ Raise("cacheless")
  /\ UNCHANGED <<python, native>>

\* The same with the cache of another structure, which has other edges: their
\* shifts are refused where they are not as many.
ShiftMismatch ==
  /\ pc = "geometry"
  /\ FromCache
  /\ bare
  /\ geomId # GeomIdentity
  /\ graph.arrays # Pairs(cache.topo)
  /\ Raise("extents")
  /\ UNCHANGED <<python, native>>

\* The device graph follows the cell through update_factorized_cell.
DeviceGeometry ==
  /\ pc = "geometry"
  /\ Resident
  /\ IF cache.devGeom = cache.geomGen
     THEN UNCHANGED <<cache, geom>>
     ELSE /\ token = graph.gen /\ token = geom.gen
          /\ geom' = [geom EXCEPT !.cell = cache.cell]
          /\ cache' = [cache EXCEPT !.devGeom = cache.geomGen]
  /\ Goto("compute")
  /\ UNCHANGED <<builds, updates, graphId, geomId, cellId, graph, plan, tuned, xyz, token>>

\* Explicit edge vectors need no native reference geometry.
ExplicitGeometry ==
  /\ pc = "geometry"
  /\ ~Resident
  /\ ~FromPositions
  /\ Goto("compute")
  /\ UNCHANGED <<python, native, tuned, xyz, token>>

\* A token the native side no longer honours: an exception.
StaleCell ==
  /\ pc = "geometry"
  /\ Resident
  /\ cache.devGeom # cache.geomGen
  /\ token # graph.gen \/ token # geom.gen
  /\ Raise("stale")
  /\ UNCHANGED <<python, native>>

-----------------------------------------------------------------------------
\* The evaluation

Completed(e) ==
  /\ pc' = "idle"
  /\ used' = e
  /\ failure' = None
  /\ UNCHANGED <<setup, atoms, req, tuned, bare, xyz, token, python>>

\* The tokens of update_prepared_positions_geometry; a tiled two-layer plan
\* also needs its source schedule.
TokensCurrent ==
  /\ token # 0 /\ token = graph.gen /\ token = geom.gen
  /\ FixedWorkspace(graph.arrays) /\ ~SingleLayer => graph.sched

ComputePositions ==
  /\ pc = "compute"
  /\ FromPositions \/ Resident
  /\ TokensCurrent
  /\ Completed([at |-> atoms, arrays |-> graph.arrays, snap |-> geom.snap,
                cell |-> geom.cell, tables |-> graph.tables])
  /\ UNCHANGED native

StaleTokens ==
  /\ pc = "compute"
  /\ FromPositions \/ Resident
  /\ ~TokensCurrent
  /\ Raise("stale")
  /\ UNCHANGED <<python, native>>

\* compute_prepared_factorized: the vectors overwrite the edge workspace only.
ComputeExplicit ==
  /\ pc = "compute"
  /\ ~Resident /\ ~FromPositions
  /\ token = graph.gen
  /\ Completed([at |-> atoms, arrays |-> graph.arrays, snap |-> Listed,
                cell |-> xyz, tables |-> graph.tables])
  /\ UNCHANGED native

\* Without prepared execution the edges are passed with the call.
ComputeUnprepared ==
  /\ pc = "graph"
  /\ Mode = "generic" /\ xyz # None
  /\ graph' = WithTypes(graph, atoms.kind)
  /\ Completed([at |-> atoms, arrays |-> Pairs(Listed), snap |-> Listed,
                cell |-> xyz, tables |-> graph'.tables])
  /\ UNCHANGED <<geom, plan>>

-----------------------------------------------------------------------------
\* Between evaluations

Bounded == updates < MaxUpdates /\ graph.counter < MaxUpdates

Move ==
  /\ pc = "idle"
  /\ atoms' \in Atoms /\ atoms'.kind \in setup.kinds
  /\ used' = None /\ failure' = None
  /\ UNCHANGED <<setup, pc, req, tuned, bare, python, xyz, token, native>>

Calculate ==
  /\ pc = "idle"
  /\ Bounded
  /\ req' \in setup.requests
  /\ pc' = "inputs"
  /\ tuned' = FALSE /\ bare' = FALSE /\ xyz' = None /\ token' = 0
  /\ used' = None /\ failure' = None
  /\ UNCHANGED <<setup, atoms, python, native>>

\* A setter of the evaluator (planner budget, reverse cache, harmonic storage,
\* launch policy...) drops the prepared graph.
Reconfigure ==
  /\ "policy" \in Faults
  /\ pc = "idle"
  /\ Mode = "direct"
  /\ graph' = NoGraph(graph) /\ geom' = NoGeom
  /\ UNCHANGED <<setup, atoms, pc, req, tuned, bare, python, plan, xyz, token, used, failure>>

Next ==
  \/ Move \/ Calculate \/ Reconfigure
  \/ ExactList \/ Reuse \/ CellUpdate \/ BuildHost \/ BuildDevice
  \/ BuildDeviceFails \/ BuildDeviceRejected
  \/ NoHostGeometry \/ Serve \/ Tune
  \/ DeviceToken \/ KnownGraph \/ PrepareGraph \/ PrepareGraphFails \/ TablesFail
  \/ PrepareGeometry \/ PrepareGeometryFails \/ UpdateCell \/ KeepGeometry
  \/ ShiftCacheless \/ ShiftMismatch
  \/ DeviceGeometry \/ ExplicitGeometry \/ StaleCell
  \/ ComputePositions \/ StaleTokens \/ ComputeExplicit \/ ComputeUnprepared

Spec == Init /\ [][Next]_vars

-----------------------------------------------------------------------------
\* Properties

\* An exact list evaluated under a fixed-workspace plan: the geometry is taken
\* from a neighbor cache that this evaluation has not refreshed
\* (_compute_fixed_workspace_shift_geometry).
Mixed == bare /\ plan

\* Every evaluation that completes used a graph built for a structure within
\* the skin of the current one, the edges of that same graph, the current cell
\* and the tables of the current species, whatever failed or was reconfigured
\* before (_cached_neighbor_geometry, _compute_mace and the native tokens).
\* It says nothing of the mixed ones: those may take the geometry of another
\* structure, and without the scope TLC shows one.
Faithful ==
  used # None /\ ~Mixed =>
    /\ used.snap # None
    /\ used.arrays = Pairs(used.snap)
    /\ used.snap.kind = used.at.kind
    /\ used.snap = used.at \/ Near(setup.skin, used.snap, used.at)
    /\ used.cell = used.at.cell
    /\ used.tables = used.at.kind

\* With a graph built on the host an evaluation fails only because one of its
\* own native calls failed: prepare_graph is repeated in every evaluation, so a
\* dropped graph is never met with a token from before.  The one exception is
\* a fixed-workspace graph whose source schedule a rejected device build has
\* released (release_dual_layer_source_schedule leaves the token valid).
HostNeverStale ==
  failure = "stale" =>
    /\ cache # None
    /\ cache.dev # 0 \/ (FixedWorkspace(graph.arrays) /\ ~graph.sched)

\* The tables in use are those of the species evaluated: a failed preparation
\* does not expose "partially updated state" (docs/streamed_edge_execution.md).
TablesMatch == used # None => used.tables = used.at.kind
=============================================================================
