------------------------- MODULE NeighborCacheProofs -------------------------
(***************************************************************************)
(* Proofs about NeighborCache for any structures, skin test, graphs and    *)
(* setups, and without the bound on updates: the types, that an evaluation *)
(* on a host graph never meets a stale token, and that what an evaluation  *)
(* computes with belongs to the structure it was asked for.                *)
(***************************************************************************)
EXTENDS NeighborCache, TLAPS

Serving == {"served", "graph", "geometry", "compute"}

\* The setups whose radial tables cannot fall behind active_types: only a
\* preparation of the tables that throws, or a device build that a model with
\* one layer rejects after it took the new types, can part the tables from the
\* graph, and neither does when there is only one kind of structure to take.
TablesSafe ==
  /\ "tables" \in setup.faults => \A j, k \in setup.kinds : j = k
  /\ "reject" \in setup.faults /\ setup.single
       => \A j, k \in setup.kinds \cap setup.device : j = k

\* Every number the calculator remembers was given out before.
Issued ==
  /\ graph.gen <= graph.counter
  /\ geomId # None =>
       /\ geomId[1] # 0 /\ geomId[1] <= graph.counter
       /\ geomId[2] <= IF geomId[3] = "fractional" THEN builds ELSE updates
  /\ cellId # None => cellId[2] <= updates
  /\ graphId # None => graphId[1] <= builds
  /\ cache # None =>
       /\ cache.gen <= builds /\ cache.geomGen <= updates
       /\ cache.hostGen <= updates /\ cache.devGeom <= updates
       /\ cache.dev <= graph.counter

\* The cache describes the topology snapshot it was built for.
CacheSound ==
  /\ atoms.kind \in setup.kinds
  /\ graph.types \in setup.kinds \cup {None}
  /\ cache # None =>
       /\ cache.hostGen = cache.geomGen => cache.hostCell = cache.cell
       /\ cache.dev # 0 =>
            setup.skin /\ Mode = "direct" /\ cache.topo.kind \in setup.device
       /\ cache.topo.kind \in setup.kinds

\* Once served, the evaluation has an exact list of its own or a cache within
\* the skin of its structure.
CacheServes ==
  /\ cache # None
  /\ atoms.cell = cache.cell /\ atoms.kind = cache.topo.kind
  /\ cache.topo = atoms \/ Near(setup.skin, cache.topo, atoms)

ListServes == ~setup.skin /\ xyz = atoms.cell /\ (req = "explicit" \/ ~setup.single)

Served ==
  /\ pc # "idle" => used = None /\ failure = None /\ req \in setup.requests
  /\ pc \in {"inputs", "served"} => ~bare
  /\ pc \in Serving => IF bare THEN ListServes ELSE CacheServes
  /\ pc \in {"graph", "geometry", "compute"} /\ ~bare /\ xyz # None => xyz = cache.cell
  /\ pc \in {"served", "graph"} /\ ~bare /\ Mode = "generic" => setup.skin \/ setup.single
  /\ pc = "graph" /\ xyz = None => req # "explicit"

\* The graph in use: prepared in this evaluation, or known to be the one that
\* the generic mode prepared for this very cache, where it makes no lists.
KnownHere ==
  /\ graphId # None =>
       /\ Mode = "generic" /\ "explicit" \notin setup.requests
       /\ setup.skin \/ setup.single
  /\ graphId # None /\ cache # None /\ graphId[1] = cache.gen =>
       /\ graphId[2] = graph.gen /\ graph.gen # 0
       /\ graph.arrays = Pairs(cache.topo) /\ graph.types = cache.topo.kind

PlanSound == plan => Mode = "direct"

TokenReady ==
  pc \in {"geometry", "compute"} =>
    IF Resident
    THEN token = cache.dev
    ELSE /\ token = graph.gen /\ token # 0
         /\ graph.arrays = Pairs(Listed) /\ graph.types = atoms.kind

\* The geometry identity is that of the cache and the graph of now.
Live ==
  /\ cache # None /\ geomId # None
  /\ cache.dev = 0
  /\ geomId[1] = graph.gen /\ geomId[2] = Stamp(Form) /\ geomId[3] = Form

\* Then the native geometry is that of the topology snapshot.
GeometryLive ==
  Live =>
    /\ geom.gen = graph.gen /\ geom.snap = cache.topo
    /\ Form # "fractional" \/ cellId = <<graph.gen, cache.geomGen>>
         => geom.cell = cache.cell

GeometryReady ==
  pc = "compute" /\ FromPositions =>
    cache # None /\ geom.gen = token /\ geom.snap = cache.topo /\ geom.cell = cache.cell

\* A device graph that still has its token is that of its cache.
DeviceLive ==
  cache # None /\ cache.dev # 0 /\ cache.dev = graph.gen =>
    /\ graph.arrays = Pairs(cache.topo)
    /\ TablesSafe => graph.types = cache.topo.kind
    /\ geom.gen = graph.gen =>
         /\ geom.snap = cache.topo
         /\ cache.devGeom = cache.geomGen => geom.cell = cache.cell

DeviceReady ==
  pc = "compute" /\ Resident => cache.devGeom = cache.geomGen

TablesFollow == TablesSafe /\ graph.types # None => graph.tables = graph.types

\* What holds at every point, and what holds of the evaluation under way.
Standing ==
  /\ Issued /\ CacheSound /\ KnownHere /\ PlanSound
  /\ GeometryLive /\ DeviceLive /\ TablesFollow
Running == Served /\ TokenReady /\ GeometryReady /\ DeviceReady

NInv == TypeOK /\ Standing /\ Running

-----------------------------------------------------------------------------
(***************************************************************************)
(* Types                                                                   *)
(***************************************************************************)
\* What prepare_active_types does to the graph record.
LEMMA WithTypesFacts ==
  ASSUME NEW g \in Graph, NEW k \in Kind
  PROVE  /\ WithTypes(g, k) \in Graph
         /\ WithTypes(g, k).gen = g.gen /\ WithTypes(g, k).counter = g.counter
         /\ WithTypes(g, k).arrays = g.arrays /\ WithTypes(g, k).host = g.host
         /\ WithTypes(g, k).sched = g.sched /\ WithTypes(g, k).types = k
         /\ WithTypes(g, k).tables = IF g.types = k THEN g.tables ELSE k
  BY DEF WithTypes, Graph

\* Fields of the native graph that the calls set.
LEMMA GraphFields ==
  ASSUME NEW g \in Graph
  PROVE  /\ NoGraph(g) \in Graph
         /\ NoGraph(g).gen = 0 /\ NoGraph(g).counter = g.counter
         /\ NoGraph(g).arrays = g.arrays /\ NoGraph(g).types = g.types
         /\ NoGraph(g).tables = g.tables /\ NoGraph(g).sched = g.sched
         /\ \A b \in BOOLEAN :
              LET h == [g EXCEPT !.sched = b]
              IN /\ h \in Graph
                 /\ h.gen = g.gen /\ h.counter = g.counter /\ h.arrays = g.arrays
                 /\ h.types = g.types /\ h.tables = g.tables
         /\ \A k \in Kind :
              LET h == [g EXCEPT !.tables = k]
              IN /\ h \in Graph
                 /\ h.gen = g.gen /\ h.counter = g.counter /\ h.arrays = g.arrays
                 /\ h.types = g.types /\ h.tables = k
<1>1. /\ NoGraph(g) \in Graph
      /\ NoGraph(g).gen = 0 /\ NoGraph(g).counter = g.counter
      /\ NoGraph(g).arrays = g.arrays /\ NoGraph(g).types = g.types
      /\ NoGraph(g).tables = g.tables /\ NoGraph(g).sched = g.sched
  BY DEF NoGraph, Graph
<1>2. ASSUME NEW b \in BOOLEAN
      PROVE  LET h == [g EXCEPT !.sched = b]
             IN /\ h \in Graph
                /\ h.gen = g.gen /\ h.counter = g.counter /\ h.arrays = g.arrays
                /\ h.types = g.types /\ h.tables = g.tables
  BY DEF Graph
<1>3. ASSUME NEW k \in Kind
      PROVE  LET h == [g EXCEPT !.tables = k]
             IN /\ h \in Graph
                /\ h.gen = g.gen /\ h.counter = g.counter /\ h.arrays = g.arrays
                /\ h.types = g.types /\ h.tables = k
  BY DEF Graph
<1> QED
  BY <1>1, <1>2, <1>3

\* A graph that takes the next generation.
Renewed(g, c, a, h, s) ==
  [g EXCEPT !.gen = c + 1, !.counter = @ + 1, !.arrays = a, !.host = h, !.sched = s]

LEMMA NextGraph ==
  ASSUME NEW g \in Graph, NEW c, c = g.counter, NEW a \in Graphs, NEW h \in BOOLEAN,
         NEW s \in BOOLEAN
  PROVE  /\ Renewed(g, c, a, h, s) \in Graph
         /\ Renewed(g, c, a, h, s).gen = c + 1 /\ Renewed(g, c, a, h, s).counter = c + 1
         /\ Renewed(g, c, a, h, s).arrays = a
         /\ Renewed(g, c, a, h, s).types = g.types
         /\ Renewed(g, c, a, h, s).tables = g.tables
<1>1. /\ Renewed(g, c, a, h, s).gen = c + 1 /\ Renewed(g, c, a, h, s).counter = c + 1
      /\ Renewed(g, c, a, h, s).arrays = a
      /\ Renewed(g, c, a, h, s).types = g.types
      /\ Renewed(g, c, a, h, s).tables = g.tables
  BY DEF Graph, Renewed
<1>2. \A i, j \in Nat :
        [g EXCEPT !.gen = i, !.counter = j, !.arrays = a, !.host = h, !.sched = s] \in Graph
  BY DEF Graph
<1>3. c + 1 \in Nat /\ g.counter + 1 \in Nat
  BY DEF Graph
<1>4. Renewed(g, c, a, h, s) \in Graph
  BY <1>2, <1>3 DEF Renewed
<1> QED
  BY <1>1, <1>4

\* Plans are selected in direct mode only.
LEMMA PlanTypes ==
  ASSUME NEW g
  PROVE  FixedWorkspace(g) \in BOOLEAN /\ (FixedWorkspace(g) => Mode = "direct")
  BY DEF FixedWorkspace

\* The records the calculator makes.
LEMMA CacheFields ==
  ASSUME TypeOK
  PROVE  /\ \A d \in Nat : NewCache(d) \in Cache
         /\ cache # None =>
              /\ cache \in Cache /\ Materialized \in Cache
              /\ Materialized.topo = cache.topo /\ Materialized.cell = cache.cell
              /\ Materialized.fractional = cache.fractional
              /\ Materialized.gen = cache.gen /\ Materialized.geomGen = cache.geomGen
              /\ Materialized.dev = cache.dev /\ Materialized.devGeom = cache.devGeom
              /\ Materialized.hostGen = cache.geomGen
              /\ Materialized.hostCell = IF cache.hostGen = cache.geomGen
                                         THEN cache.hostCell ELSE cache.cell
<1>1. ASSUME NEW d \in Nat PROVE NewCache(d) \in Cache
  BY DEF TypeOK, NewCache, Cache, Atoms, NativeEligible, FractionalEligible, Invertible
<1>2. ASSUME cache # None
      PROVE  /\ cache \in Cache /\ Materialized \in Cache
             /\ Materialized.topo = cache.topo /\ Materialized.cell = cache.cell
             /\ Materialized.fractional = cache.fractional
             /\ Materialized.gen = cache.gen /\ Materialized.geomGen = cache.geomGen
             /\ Materialized.dev = cache.dev /\ Materialized.devGeom = cache.devGeom
             /\ Materialized.hostGen = cache.geomGen
             /\ Materialized.hostCell = IF cache.hostGen = cache.geomGen
                                        THEN cache.hostCell ELSE cache.cell
  <2>1. cache \in Cache
    BY <1>2 DEF TypeOK
  <2>2. CASE cache.hostGen = cache.geomGen
    BY <2>1, <2>2 DEF Materialized
  <2>3. CASE cache.hostGen # cache.geomGen
    BY <2>1, <2>3 DEF Materialized, Cache
  <2> QED
    BY <2>1, <2>2, <2>3
<1> QED
  BY <1>1, <1>2

\* The values the native calls leave are native values.
LEMMA NativeTypes ==
  ASSUME TypeOK
  PROVE  /\ DeviceGraph \in Graph /\ DeviceGeom \in Geom /\ NoGeom \in Geom
         /\ [geom EXCEPT !.snap = None] \in Geom
         /\ [NoGeom EXCEPT !.snap = None] \in Geom
         /\ \A c \in Cell : [geom EXCEPT !.cell = c] \in Geom
         /\ DeviceGraph.gen = graph.counter + 1 /\ DeviceGraph.counter = graph.counter + 1
         /\ DeviceGraph.arrays = Pairs(atoms) /\ DeviceGraph.types = atoms.kind
         /\ DeviceGraph.tables = IF graph.types = atoms.kind THEN graph.tables
                                 ELSE atoms.kind
<1>0. /\ atoms \in Atoms /\ atoms.kind \in Kind /\ atoms.cell \in Cell /\ graph \in Graph
      /\ geom \in Geom /\ Pairs(atoms) \in Graphs /\ graph.counter \in Nat
  BY DEF TypeOK, Atoms, Graphs, Graph
<1>1. FixedWorkspace(Pairs(atoms)) \in BOOLEAN
  BY DEF FixedWorkspace
<1>2. /\ WithTypes(graph, atoms.kind) \in Graph
      /\ WithTypes(graph, atoms.kind).counter = graph.counter
      /\ WithTypes(graph, atoms.kind).types = atoms.kind
      /\ WithTypes(graph, atoms.kind).tables = IF graph.types = atoms.kind THEN graph.tables
                                               ELSE atoms.kind
  BY <1>0, WithTypesFacts
<1>3. /\ DeviceGraph \in Graph
      /\ DeviceGraph.gen = graph.counter + 1 /\ DeviceGraph.counter = graph.counter + 1
      /\ DeviceGraph.arrays = Pairs(atoms)
      /\ DeviceGraph.types = WithTypes(graph, atoms.kind).types
      /\ DeviceGraph.tables = WithTypes(graph, atoms.kind).tables
  <2>1. PICK b \in BOOLEAN : b = FixedWorkspace(Pairs(atoms))
    BY <1>1
  <2>2. PICK h \in BOOLEAN : h = FALSE
    OBVIOUS
  <2>3. DeviceGraph =
          Renewed(WithTypes(graph, atoms.kind), graph.counter, Pairs(atoms), h, b)
    BY <2>1, <2>2 DEF DeviceGraph, Renewed
  <2> QED
    BY <1>0, <1>2, <2>3, NextGraph
<1>4. DeviceGeom \in Geom
  BY <1>0 DEF DeviceGeom, Geom, Geometries
<1>5. NoGeom \in Geom /\ [geom EXCEPT !.snap = None] \in Geom
      /\ \A c \in Cell : [geom EXCEPT !.cell = c] \in Geom
  BY <1>0 DEF NoGeom, Geom
<1>6. [NoGeom EXCEPT !.snap = None] \in Geom
  BY <1>5 DEF Geom
<1> QED
  BY <1>2, <1>3, <1>4, <1>5, <1>6

\* The parts of TypeOK, to be shown of the next state.
PythonTypes ==
  /\ cache \in Cache \cup {None}
  /\ builds \in Nat /\ updates \in Nat
  /\ graphId \in (Nat \X Nat) \cup {None}
  /\ geomId \in (Nat \X Nat \X Geometries) \cup {None}
  /\ cellId \in (Nat \X Nat) \cup {None}
  /\ xyz \in Cell \cup {None}
  /\ token \in Nat
EvaluationTypes ==
  /\ setup \in Setups /\ atoms \in Atoms /\ pc \in Points
  /\ req \in RequestKinds \cup {None} /\ tuned \in BOOLEAN /\ bare \in BOOLEAN
  /\ used \in Evaluation \cup {None}
  /\ failure \in Failures \cup {None}
NativeParts == graph \in Graph /\ geom \in Geom /\ plan \in BOOLEAN

LEMMA TypeParts ==
  /\ TypeOK <=> PythonTypes /\ EvaluationTypes /\ NativeParts
  /\ TypeOK' <=> PythonTypes' /\ EvaluationTypes' /\ NativeParts'
  BY DEF TypeOK, PythonTypes, EvaluationTypes, NativeParts

\* Raising and completing keep the types.
LEMMA EndTypes ==
  ASSUME TypeOK
  PROVE  /\ \A why \in Failures :
              Raise(why) => EvaluationTypes' /\ UNCHANGED <<xyz, token>>
         /\ \A l \in Points : Goto(l) /\ tuned' \in BOOLEAN => EvaluationTypes'
         /\ \A e \in Evaluation : Completed(e) => EvaluationTypes' /\ PythonTypes'
<1>1. ASSUME NEW why \in Failures, Raise(why)
      PROVE  EvaluationTypes' /\ UNCHANGED <<xyz, token>>
  BY <1>1 DEF Raise, TypeOK, EvaluationTypes, Points
<1>2. ASSUME NEW l \in Points, Goto(l), tuned' \in BOOLEAN PROVE EvaluationTypes'
  BY <1>2 DEF Goto, TypeOK, EvaluationTypes
<1>3. ASSUME NEW e \in Evaluation, Completed(e) PROVE EvaluationTypes' /\ PythonTypes'
  BY <1>3 DEF Completed, TypeOK, EvaluationTypes, PythonTypes, Points, python
<1> QED
  BY <1>1, <1>2, <1>3

-----------------------------------------------------------------------------
(***************************************************************************)
(* What keeps the standing invariant                                       *)
(***************************************************************************)
\* Form, its stamp and whether the geometry is live depend on little.
LEMMA FormKept ==
  ASSUME UNCHANGED <<setup, plan>>, cache'.fractional = cache.fractional
  PROVE  Form' = Form
  BY DEF Form, Mode, Field

\* The calculator's and the evaluator's state stay as they are.
LEMMA StandingKept ==
  ASSUME Standing, UNCHANGED <<setup, python, native>>, atoms'.kind \in setup.kinds
  PROVE  Standing'
<1> USE DEF python, native
<1>1. Issued' /\ CacheSound' /\ KnownHere' /\ PlanSound'
  BY DEF Standing, Issued, CacheSound, KnownHere, PlanSound, Mode
<1>2. TablesSafe' <=> TablesSafe
  BY DEF TablesSafe
<1>3. DeviceLive' /\ TablesFollow'
  BY <1>2 DEF Standing, DeviceLive, TablesFollow
<1>4. GeometryLive'
  BY DEF Standing, GeometryLive, Live, Stamp, Form, Mode, Field
<1> QED
  BY <1>1, <1>3, <1>4 DEF Standing

\* The prepared graph is dropped: no token the calculator has is honoured.
LEMMA StandingDropped ==
  ASSUME TypeOK, Standing, UNCHANGED <<setup, atoms, builds, updates, graphId, geomId, cellId>>,
         cache' \in {cache, None}, graph' \in Graph, graph'.gen = 0,
         graph'.counter = graph.counter, graph'.types \in setup.kinds \cup {None},
         TablesSafe /\ graph'.types # None => graph'.tables = graph'.types,
         graphId = None \/ (cache # None => graphId[1] # cache.gen), PlanSound'
  PROVE  Standing'
<1>0. TablesSafe' <=> TablesSafe
  BY DEF TablesSafe
<1>1. graph.counter \in Nat
  BY DEF TypeOK, Graph
<1>2. Issued'
  BY <1>1 DEF Standing, Issued
<1>3. CacheSound' /\ KnownHere'
  BY DEF Standing, CacheSound, KnownHere, Mode
<1>4. ~Live'
  BY DEF Live, Standing, Issued
<1>5. GeometryLive' /\ DeviceLive' /\ TablesFollow'
  BY <1>0, <1>4 DEF GeometryLive, DeviceLive, TablesFollow
<1> QED
  BY <1>2, <1>3, <1>5 DEF Standing

\* A graph with a new generation under the same cache: the tokens and
\* identities from before do not match it.
LEMMA StandingRenewed ==
  ASSUME TypeOK, Standing, UNCHANGED <<setup, atoms, cache, builds, updates, geomId, cellId>>,
         graph' \in Graph, graph'.gen = graph.counter + 1,
         graph'.counter = graph.counter + 1, graph'.types = atoms.kind,
         TablesSafe => graph'.tables = graph'.types,
         KnownHere', PlanSound', graphId' # None => graphId'[1] <= builds
  PROVE  Standing'
<1>0. TablesSafe' <=> TablesSafe
  BY DEF TablesSafe
<1>1. graph.counter \in Nat /\ graph.gen \in Nat
      /\ (geomId # None => geomId[1] \in Nat) /\ (cache # None => cache.dev \in Nat)
  BY DEF TypeOK, Graph, Cache
<1>2. Issued'
  BY <1>1 DEF Standing, Issued
<1>3. CacheSound'
  BY DEF Standing, CacheSound, Mode
<1>4. ~Live'
  BY <1>1 DEF Live, Standing, Issued
<1>5. cache' # None => cache'.dev # graph'.gen
  BY <1>1 DEF Standing, Issued
<1>6. GeometryLive' /\ DeviceLive' /\ TablesFollow'
  BY <1>0, <1>4, <1>5 DEF GeometryLive, DeviceLive, TablesFollow
<1> QED
  BY <1>2, <1>3, <1>6 DEF Standing

\* Outside an evaluation, and at its start, nothing runs.
LEMMA NotRunning ==
  ASSUME \/ pc' = "idle"
         \/ /\ pc' = "inputs" /\ used' = None /\ failure' = None /\ ~bare'
            /\ req' \in setup'.requests
  PROVE  Running'
  BY DEF Running, Served, TokenReady, GeometryReady, DeviceReady, Serving

-----------------------------------------------------------------------------
(***************************************************************************)
(* The steps, by what they change                                          *)
(***************************************************************************)
\* Types that the steps use: the cache is a record while it serves, and none
\* on the device serves next to an exact list.
LEMMA ServedTypes ==
  ASSUME NInv
  PROVE  /\ graph \in Graph /\ geom \in Geom /\ atoms \in Atoms
         /\ atoms.kind \in Kind /\ atoms.cell \in Cell /\ atoms.cell # None
         /\ graph.gen \in Nat /\ graph.counter \in Nat
         /\ atoms.kind \in setup.kinds
         /\ pc \in Serving /\ ~bare => cache # None
         /\ pc \in Serving /\ bare => ~Resident /\ xyz # None
         /\ pc \in Serving => Listed \in Atoms /\ Pairs(Listed) \in Graphs
         /\ cache # None =>
              /\ cache \in Cache
              /\ cache.topo \in Atoms /\ Pairs(cache.topo) \in Graphs /\ cache.cell \in Cell
              /\ cache.dev \in Nat /\ cache.gen \in Nat /\ cache.geomGen \in Nat
              /\ cache.hostCell \in Cell \cup {None}
<1>1. TypeOK /\ Served /\ CacheSound
  BY DEF NInv, Running, Standing
<1>2. graph \in Graph /\ geom \in Geom /\ atoms \in Atoms /\ (cache # None => cache \in Cache)
  BY <1>1 DEF TypeOK
<1>3. atoms.kind \in Kind /\ atoms.cell \in Cell /\ atoms.cell # None
  BY <1>2, NeighborAssumption DEF Atoms
<1>4. ASSUME cache # None
      PROVE  /\ cache \in Cache
             /\ cache.topo \in Atoms /\ Pairs(cache.topo) \in Graphs /\ cache.cell \in Cell
             /\ cache.dev \in Nat /\ cache.gen \in Nat /\ cache.geomGen \in Nat
             /\ cache.hostCell \in Cell \cup {None}
  <2>1. cache \in Cache /\ cache.topo \in Atoms
    BY <1>2, <1>4 DEF Cache
  <2> QED
    BY <2>1 DEF Cache, Graphs
<1>5. pc \in Serving /\ ~bare => cache # None
  BY <1>1 DEF Served, CacheServes
<1>6. pc \in Serving /\ bare => ~Resident /\ xyz # None
  BY <1>1, <1>3 DEF Served, ListServes, Resident, CacheSound
<1>7. pc \in Serving => Listed \in Atoms /\ Pairs(Listed) \in Graphs
  BY <1>2, <1>4, <1>5 DEF Listed, Graphs
<1> QED
  BY <1>1, <1>2, <1>3, <1>4, <1>5, <1>6, <1>7 DEF Graph, CacheSound

\* The driver.
LEMMA BetweenSteps ==
  ASSUME NInv, Move \/ Calculate
  PROVE  NInv'
<1>1. TypeOK /\ Standing
  BY DEF NInv
<1>2. PythonTypes' /\ NativeParts'
  BY <1>1 DEF Move, Calculate, TypeOK, PythonTypes, NativeParts, python, native
<1>3. EvaluationTypes'
  <2>1. setup \in Setup
    BY <1>1, NeighborAssumption DEF TypeOK
  <2>2. setup.requests \subseteq RequestKinds
    BY <2>1 DEF Setup
  <2> QED
    BY <1>1, <2>2 DEF Move, Calculate, TypeOK, EvaluationTypes, Points
<1>4. atoms'.kind \in setup.kinds
  BY <1>1 DEF Move, Calculate, Standing, CacheSound
<1>5. Standing'
  BY <1>1, <1>4, StandingKept DEF Move, Calculate
<1>6. Running'
  BY NotRunning DEF Move, Calculate
<1> QED
  BY <1>2, <1>3, <1>5, <1>6, TypeParts DEF NInv

\* Errors that leave the state as it is.
LEMMA RefusalSteps ==
  ASSUME NInv, NoHostGeometry \/ StaleCell \/ StaleTokens \/ ShiftCacheless \/ ShiftMismatch
  PROVE  NInv'
<1>1. TypeOK /\ Standing /\ CacheSound
  BY DEF NInv, Standing
<1>2. /\ UNCHANGED <<python, native>> /\ \E w \in Failures : Raise(w)
  BY DEF NoHostGeometry, StaleCell, StaleTokens, ShiftCacheless, ShiftMismatch, Failures
<1>3. EvaluationTypes' /\ UNCHANGED <<xyz, token, setup, atoms>> /\ pc' = "idle"
  BY <1>1, <1>2, EndTypes DEF Raise, Failures
<1>4. PythonTypes' /\ NativeParts'
  BY <1>1, <1>2, <1>3 DEF TypeOK, PythonTypes, NativeParts, python, native
<1>5. Standing'
  BY <1>1, <1>2, <1>3, StandingKept DEF CacheSound
<1>6. Running'
  BY <1>3, NotRunning
<1> QED
  BY <1>3, <1>4, <1>5, <1>6, TypeParts DEF NInv

\* The results.
LEMMA ComputeSteps ==
  ASSUME NInv, ComputePositions \/ ComputeExplicit
  PROVE  NInv'
<1>1. TypeOK /\ Standing /\ CacheSound /\ pc = "compute"
  BY DEF NInv, Standing, ComputePositions, ComputeExplicit
<1>2. Listed \in Atoms /\ atoms \in Atoms /\ xyz \in Cell \cup {None}
      /\ graph.arrays \in Graphs \cup {None} /\ graph.tables \in Kind \cup {None}
      /\ geom.snap \in Atoms \cup {None} /\ geom.cell \in Cell \cup {None}
  BY <1>1, ServedTypes DEF TypeOK, Graph, Geom, Serving
<1>3. UNCHANGED native /\ \E e \in Evaluation : Completed(e)
  BY <1>2 DEF ComputePositions, ComputeExplicit, Evaluation
<1>4. EvaluationTypes' /\ PythonTypes' /\ UNCHANGED <<setup, atoms, python>> /\ pc' = "idle"
  BY <1>1, <1>3, EndTypes DEF Completed
<1>5. NativeParts'
  BY <1>1, <1>3 DEF TypeOK, NativeParts, native
<1>6. Standing'
  BY <1>1, <1>3, <1>4, StandingKept DEF CacheSound
<1>7. Running'
  BY <1>4, NotRunning
<1> QED
  BY <1>4, <1>5, <1>6, <1>7, TypeParts DEF NInv

\* The identities of the evaluation under way.
LEMMA IdentityTypes ==
  ASSUME NInv, cache # None
  PROVE  GeomIdentity \in Nat \X Nat \X Geometries /\ CellIdentity \in Nat \X Nat
         /\ GeomIdentity # None
<1>1. token \in Nat /\ cache.gen \in Nat /\ cache.geomGen \in Nat
  BY ServedTypes DEF NInv, TypeOK
<1>2. Form \in Geometries /\ Stamp(Form) \in Nat
  BY <1>1 DEF Form, Stamp, Geometries
<1>3. GeomIdentity \in Nat \X Nat \X Geometries /\ CellIdentity \in Nat \X Nat
  BY <1>1, <1>2 DEF GeomIdentity, CellIdentity
<1> QED
  BY <1>3, NeighborAssumption

\* An exact list serves the evaluation.
LEMMA ListSteps ==
  ASSUME NInv, ExactList
  PROVE  NInv'
<1>1. TypeOK /\ Standing /\ CacheSound /\ Served /\ atoms.cell \in Cell /\ atoms.cell # None
  BY ServedTypes DEF NInv, Standing, Running
<1>2. /\ UNCHANGED <<python, native, setup, atoms, req, used, failure, tuned, token>>
      /\ pc = "inputs" /\ pc' = "graph" /\ bare' = TRUE /\ xyz' = atoms.cell /\ ~setup.skin
      /\ req = "explicit" \/ ~setup.single
  BY DEF ExactList, UsesCache, NativeAsked, SingleLayer
<1>3. Standing'
  BY <1>1, <1>2, StandingKept DEF CacheSound
<1>4. TypeOK'
  BY <1>1, <1>2 DEF TypeOK, python, native, Points
<1>5. Running'
  BY <1>1, <1>2
     DEF Running, Served, ListServes, TokenReady, GeometryReady, DeviceReady, Serving
<1> QED
  BY <1>3, <1>4, <1>5 DEF NInv

\* The cache is reused.
LEMMA ReuseSteps ==
  ASSUME NInv, Reuse
  PROVE  NInv'
<1>1. TypeOK /\ Standing /\ CacheSound /\ Served /\ PlanSound
  BY DEF NInv, Standing, Running
<1>2. /\ UNCHANGED <<python, native, setup, atoms, req, used, failure, tuned, xyz, bare, token>>
      /\ pc = "inputs" /\ pc' = "served" /\ UsesCache
      /\ cache # None /\ atoms.kind = cache.topo.kind /\ Near(setup.skin, cache.topo, atoms)
      /\ atoms.cell = cache.cell
  BY DEF Reuse, Reusable, Goto
<1>3. Standing'
  BY <1>1, <1>2, StandingKept DEF CacheSound
<1>4. TypeOK'
  BY <1>1, <1>2 DEF TypeOK, python, native, Points
<1>5. ~bare /\ (Mode = "generic" => setup.skin \/ setup.single)
  BY <1>1, <1>2 DEF Served, UsesCache, NativeAsked, SingleLayer, PlanSound
<1>6. Served'
  BY <1>1, <1>2, <1>5 DEF Served, CacheServes, Serving, python, Mode
<1>7. Running'
  BY <1>2, <1>6 DEF Running, TokenReady, GeometryReady, DeviceReady
<1> QED
  BY <1>3, <1>4, <1>7 DEF NInv

\* Steps that only move on: the token is taken, the geometry is kept.
LEMMA OnwardSteps ==
  ASSUME NInv, DeviceToken \/ KnownGraph \/ KeepGeometry \/ ExplicitGeometry
  PROVE  NInv'
<1>1. /\ TypeOK /\ Standing /\ CacheSound /\ Served /\ KnownHere /\ TokenReady
      /\ GeometryLive
  BY DEF NInv, Standing, Running
<1>2. /\ UNCHANGED <<python, native, setup, atoms, req, used, failure, tuned, xyz, bare>>
      /\ pc' \in {"geometry", "compute"} /\ pc \in {"graph", "geometry"}
      /\ pc' = "geometry" => pc = "graph"
  BY DEF DeviceToken, KnownGraph, KeepGeometry, ExplicitGeometry, Goto
<1>3. Standing'
  BY <1>1, <1>2, StandingKept DEF CacheSound
<1>4. token' \in Nat
  <2>1. cache # None => cache.dev \in Nat
    BY <1>1 DEF TypeOK, Cache
  <2>2. graphId # None => graphId[2] \in Nat
    BY <1>1 DEF TypeOK
  <2> QED
    BY <1>1, <2>1, <2>2
       DEF DeviceToken, KnownGraph, KeepGeometry, ExplicitGeometry, TypeOK, Known, Resident
<1>5. TypeOK'
  BY <1>1, <1>2, <1>4 DEF TypeOK, python, native, Points
<1>6. Served'
  BY <1>1, <1>2 DEF Served, ListServes, CacheServes, Serving, python, Mode
<1>7. (Resident' <=> Resident) /\ Listed' = Listed
  BY <1>2 DEF Resident, Listed, python
<1>8. CASE DeviceToken \/ KnownGraph
  <2>1. pc = "graph" /\ pc' = "geometry"
    BY <1>8 DEF DeviceToken, KnownGraph, Goto
  <2>2. TokenReady'
    <3>1. CASE DeviceToken
      BY <1>2, <1>7, <3>1 DEF TokenReady, DeviceToken, python
    <3>2. CASE KnownGraph
      <4>1. /\ graphId # None /\ graphId[1] = cache.gen /\ token' = graphId[2]
            /\ Mode = "generic" /\ xyz = None
        BY <3>2 DEF KnownGraph, Known
      <4>2. ~bare
        BY <2>1, <4>1, ServedTypes DEF Serving
      <4>3. cache # None /\ atoms.kind = cache.topo.kind /\ Listed = cache.topo
        BY <1>1, <2>1, <4>2 DEF Served, CacheServes, Serving, Listed
      <4>4. ~Resident
        BY <1>1, <4>1 DEF CacheSound, Resident
      <4> QED
        BY <1>1, <1>2, <1>7, <4>1, <4>3, <4>4 DEF TokenReady, KnownHere, python, native
    <3> QED
      BY <1>8, <3>1, <3>2
  <2> QED
    BY <1>3, <1>5, <1>6, <2>1, <2>2 DEF NInv, Running, GeometryReady, DeviceReady
<1>9. CASE KeepGeometry \/ ExplicitGeometry
  <2>1. pc = "geometry" /\ pc' = "compute" /\ token' = token /\ ~Resident
    BY <1>9 DEF KeepGeometry, ExplicitGeometry, Goto, FromCache, FromPositions
  <2>2. TokenReady'
    BY <1>1, <1>2, <1>7, <2>1 DEF TokenReady, python, native
  <2>3. FromPositions' <=> FromPositions
    BY <1>2, <1>7 DEF FromPositions, native
  <2>4. ASSUME FromPositions
        PROVE  /\ cache # None
               /\ geom.gen = token /\ geom.snap = cache.topo /\ geom.cell = cache.cell
    <3>1. /\ geomId = GeomIdentity /\ (Form = "fractional" => cellId = CellIdentity)
          /\ cache # None
      BY <1>9, <2>4 DEF KeepGeometry, ExplicitGeometry, FromCache
    <3>2. token = graph.gen /\ cache.dev = 0
      BY <1>1, <2>1, <3>1 DEF TokenReady, Resident
    <3>3. geomId # None
      BY <3>1, IdentityTypes
    <3>4. Live
      BY <3>1, <3>2, <3>3 DEF Live, GeomIdentity
    <3> QED
      BY <1>1, <3>1, <3>2, <3>4 DEF GeometryLive, CellIdentity
  <2>5. GeometryReady'
    BY <1>2, <2>1, <2>3, <2>4 DEF GeometryReady, python, native
  <2> QED
    BY <1>3, <1>5, <1>6, <1>7, <2>1, <2>2, <2>5 DEF NInv, Running, DeviceReady
<1> QED
  BY <1>8, <1>9

\* Steps that drop the prepared graph: a call that fails, or new settings.
LEMMA FailedSteps ==
  ASSUME NInv, PrepareGraphFails \/ TablesFail
  PROVE  NInv'
<1>1. /\ TypeOK /\ Standing /\ CacheSound /\ TablesFollow /\ KnownHere
      /\ graph \in Graph /\ atoms.kind \in Kind /\ atoms.kind \in setup.kinds
      /\ atoms.kind # None
  BY ServedTypes, NeighborAssumption DEF NInv, Standing
<1>2. /\ UNCHANGED python /\ Raise("graph") /\ geom' = NoGeom /\ NeedsGraph
  BY DEF PrepareGraphFails, TablesFail
<1>3. EvaluationTypes' /\ UNCHANGED <<xyz, token, setup, atoms>> /\ pc' = "idle"
  BY <1>1, <1>2, EndTypes DEF Raise, Failures
<1>4. PythonTypes' /\ geom' \in Geom /\ plan' \in BOOLEAN /\ PlanSound'
  BY <1>1, <1>2, <1>3, NativeTypes, PlanTypes
     DEF TypeOK, PythonTypes, python, PrepareGraphFails, TablesFail, Standing, PlanSound, Mode
<1>5. /\ graph' \in Graph /\ graph'.gen = 0 /\ graph'.counter = graph.counter
      /\ graph'.types \in setup.kinds \cup {None}
      /\ TablesSafe /\ graph'.types # None => graph'.tables = graph'.types
  <2>1. CASE PrepareGraphFails
    <3>1. PICK g \in Graph : g = WithTypes(graph, atoms.kind)
      BY <1>1, WithTypesFacts
    <3>2. /\ g.counter = graph.counter /\ g.types = atoms.kind
          /\ g.tables = IF graph.types = atoms.kind THEN graph.tables ELSE atoms.kind
      BY <1>1, <3>1, WithTypesFacts
    <3>3. PICK h \in Graph : h = NoGraph(g)
      BY GraphFields
    <3>4. h.gen = 0 /\ h.counter = g.counter /\ h.types = g.types /\ h.tables = g.tables
      BY <3>3, GraphFields
    <3>5. graph' = [h EXCEPT !.sched = FALSE]
      BY <2>1, <3>1, <3>3 DEF PrepareGraphFails
    <3>6. /\ graph' \in Graph /\ graph'.gen = h.gen /\ graph'.counter = h.counter
          /\ graph'.types = h.types /\ graph'.tables = h.tables
      BY <3>5 DEF Graph
    <3> QED
      BY <1>1, <3>2, <3>4, <3>6 DEF TablesFollow
  <2>2. CASE TablesFail
    <3>1. PICK h \in Graph : h = NoGraph(graph)
      BY <1>1, GraphFields
    <3>2. h.gen = 0 /\ h.counter = graph.counter /\ h.types = graph.types
      BY <1>1, <3>1, GraphFields
    <3>3. graph' = [h EXCEPT !.tables = atoms.kind]
      BY <2>2, <3>1 DEF TablesFail
    <3>4. /\ graph' \in Graph /\ graph'.gen = h.gen /\ graph'.counter = h.counter
          /\ graph'.types = h.types /\ graph'.tables = atoms.kind
      BY <1>1, <3>3 DEF Graph
    <3>5. graph.types # atoms.kind /\ "tables" \in setup.faults
      BY <2>2 DEF TablesFail, Drops, Faults
    <3>6. TablesSafe => graph.types = None
      BY <1>1, <3>5 DEF TablesSafe, CacheSound
    <3> QED
      BY <1>1, <3>2, <3>4, <3>6 DEF CacheSound
  <2> QED
    BY <2>1, <2>2
<1>6. graphId = None \/ (cache # None => graphId[1] # cache.gen)
  <2>1. Mode \in {"direct", "generic"}
    BY <1>1, NeighborAssumption DEF TypeOK, Setup, Mode
  <2> QED
    BY <1>1, <1>2, <2>1 DEF NeedsGraph, Known, KnownHere
<1>7. Standing'
  BY <1>1, <1>2, <1>3, <1>4, <1>5, <1>6, StandingDropped DEF python
<1>8. Running'
  BY <1>3, NotRunning
<1> QED
  BY <1>3, <1>4, <1>5, <1>7, <1>8, TypeParts DEF NInv, NativeParts

LEMMA PolicySteps ==
  ASSUME NInv, Tune \/ Reconfigure
  PROVE  NInv'
<1>1. /\ TypeOK /\ Standing /\ CacheSound /\ TablesFollow /\ KnownHere /\ Served
      /\ graph \in Graph
  BY ServedTypes DEF NInv, Standing, Running
<1>2. /\ graph' = NoGraph(graph) /\ geom' = NoGeom /\ Mode = "direct"
      /\ UNCHANGED <<setup, atoms, req, builds, updates, graphId, geomId, cellId, xyz, token,
                     used, failure, bare, plan>>
      /\ cache' \in {cache, None} /\ tuned' \in BOOLEAN /\ pc' \in {"idle", "inputs", "graph"}
  BY <1>1 DEF Tune, Reconfigure, Goto, python, TypeOK
<1>3. /\ graph' \in Graph /\ graph'.gen = 0 /\ graph'.counter = graph.counter
      /\ graph'.types = graph.types /\ graph'.tables = graph.tables
  BY <1>1, <1>2, GraphFields
<1>4. Standing'
  BY <1>1, <1>2, <1>3, StandingDropped
     DEF KnownHere, TablesFollow, CacheSound, Standing, PlanSound, Mode
<1>5. TypeOK'
  <2>1. PythonTypes' /\ EvaluationTypes'
    BY <1>1, <1>2 DEF TypeOK, PythonTypes, EvaluationTypes, Points
  <2> QED
    BY <1>1, <1>2, <1>3, <2>1, NativeTypes, TypeParts DEF NativeParts, TypeOK
<1>6. Running'
  <2>1. CASE pc' \in {"idle", "inputs"}
    <3>1. ASSUME pc' = "inputs"
          PROVE  used' = None /\ failure' = None /\ ~bare' /\ req' \in setup'.requests
      <4>1. pc = "graph" /\ Resident
        BY <3>1 DEF Tune, Reconfigure, Goto
      <4>2. ~bare
        BY <4>1, ServedTypes DEF Serving
      <4> QED
        BY <1>1, <1>2, <4>1, <4>2 DEF Served
    <3> QED
      BY <2>1, <3>1, NotRunning
  <2>2. CASE pc' = "graph"
    <3>1. pc = "graph" /\ cache' = cache
      BY <2>2 DEF Tune, Reconfigure, Goto
    <3> QED
      BY <1>1, <1>2, <2>2, <3>1
         DEF Running, Served, ListServes, CacheServes, TokenReady, GeometryReady, DeviceReady,
             Serving, Mode
  <2> QED
    BY <1>2, <2>1, <2>2
<1> QED
  BY <1>4, <1>5, <1>6 DEF NInv

\* Device builds that raise: the old cache stays.
LEMMA FailedBuilds ==
  ASSUME NInv, BuildDeviceFails \/ BuildDeviceRejected
  PROVE  NInv'
<1>1. /\ TypeOK /\ Standing /\ CacheSound /\ TablesFollow /\ KnownHere /\ DeviceLive
      /\ GeometryLive /\ Issued
      /\ graph \in Graph /\ atoms.kind \in Kind /\ atoms.kind \in setup.kinds
      /\ atoms.kind # None /\ PlanSound
  BY ServedTypes, NeighborAssumption DEF NInv, Standing
<1>2. /\ UNCHANGED python /\ Raise("device") /\ Mode = "direct"
      /\ atoms.kind \in setup.device
  BY DEF BuildDeviceFails, BuildDeviceRejected, OnDevice
<1>3. EvaluationTypes' /\ UNCHANGED <<xyz, token, setup, atoms>> /\ pc' = "idle"
  BY <1>1, <1>2, EndTypes DEF Raise, Failures
<1>4. PythonTypes' /\ graphId = None
  BY <1>1, <1>2, <1>3 DEF TypeOK, PythonTypes, python, KnownHere
<1>5. Running' /\ plan' \in BOOLEAN /\ PlanSound'
  BY <1>1, <1>2, <1>3, NotRunning, PlanTypes
     DEF BuildDeviceFails, BuildDeviceRejected, TypeOK, PlanSound, Mode
<1>6. PICK g \in Graph : g = WithTypes(graph, atoms.kind)
  BY <1>1, WithTypesFacts
<1>7. /\ g.counter = graph.counter /\ g.types = atoms.kind /\ g.gen = graph.gen
      /\ g.arrays = graph.arrays
      /\ g.tables = IF graph.types = atoms.kind THEN graph.tables ELSE atoms.kind
  BY <1>1, <1>6, WithTypesFacts
<1>8. TablesSafe => g.tables = g.types
  BY <1>1, <1>7 DEF TablesFollow
<1>9. ASSUME graph' \in Graph, graph'.gen = 0, graph'.counter = g.counter,
             graph'.types = g.types, graph'.tables = g.tables, geom' \in Geom
      PROVE  NInv'
  <2>1. Standing'
    BY <1>1, <1>2, <1>3, <1>4, <1>5, <1>7, <1>8, <1>9, StandingDropped DEF python
  <2> QED
    BY <1>3, <1>4, <1>5, <1>9, <2>1, TypeParts DEF NInv, NativeParts
<1>10. ASSUME graph' = DeviceGraph, geom' = DeviceGeom PROVE NInv'
  <2>1. /\ graph' \in Graph /\ geom' \in Geom /\ graph'.gen = graph.counter + 1
        /\ graph'.counter = graph.counter + 1 /\ graph'.types = atoms.kind
        /\ graph'.tables = IF graph.types = atoms.kind THEN graph.tables ELSE atoms.kind
    BY <1>1, <1>10, NativeTypes
  <2>2. TablesSafe => graph'.tables = graph'.types
    BY <1>1, <2>1 DEF TablesFollow
  <2>3. graphId' = None
    BY <1>2, <1>4 DEF python
  <2>4. KnownHere'
    BY <2>3 DEF KnownHere
  <2>5. Standing'
    BY <1>1, <1>2, <1>3, <1>5, <2>1, <2>2, <2>3, <2>4, StandingRenewed DEF python
  <2> QED
    BY <1>3, <1>4, <1>5, <2>1, <2>5, TypeParts DEF NInv, NativeParts
<1>11. CASE BuildDeviceFails
  <2>1. CASE graph' = DeviceGraph /\ geom' = DeviceGeom
    BY <1>10, <2>1
  <2>2. CASE /\ graph' = [NoGraph(WithTypes(graph, atoms.kind)) EXCEPT !.sched = FALSE]
             /\ geom' = [NoGeom EXCEPT !.snap = None]
    <3>1. PICK h \in Graph : h = NoGraph(g)
      BY GraphFields
    <3>2. h.gen = 0 /\ h.counter = g.counter /\ h.types = g.types /\ h.tables = g.tables
      BY <3>1, GraphFields
    <3>3. graph' = [h EXCEPT !.sched = FALSE]
      BY <2>2, <1>6, <3>1
    <3>4. /\ graph' \in Graph /\ graph'.gen = h.gen /\ graph'.counter = h.counter
          /\ graph'.types = h.types /\ graph'.tables = h.tables
      BY <3>3 DEF Graph
    <3>5. geom' \in Geom
      BY <1>1, <2>2, NativeTypes
    <3> QED
      BY <1>9, <3>2, <3>4, <3>5
  <2> QED
    BY <1>11, <2>1, <2>2 DEF BuildDeviceFails
<1>12. CASE BuildDeviceRejected
  <2>1. PICK h \in Graph : h = [g EXCEPT !.sched = FALSE]
    BY DEF Graph
  <2>2. /\ h.gen = g.gen /\ h.counter = g.counter /\ h.types = g.types
        /\ h.tables = g.tables /\ h.arrays = g.arrays
    BY <2>1 DEF Graph
  <2>3. CASE Drops(atoms.kind)
    <3>1. graph' = NoGraph(h) /\ geom' = NoGeom
      BY <1>6, <1>12, <2>1, <2>3 DEF BuildDeviceRejected
    <3>2. /\ graph' \in Graph /\ graph'.gen = 0 /\ graph'.counter = h.counter
          /\ graph'.types = h.types /\ graph'.tables = h.tables /\ geom' \in Geom
      BY <1>1, <3>1, GraphFields, NativeTypes
    <3> QED
      BY <1>9, <2>2, <3>2
  <2>4. CASE ~Drops(atoms.kind)
    <3>1. graph' = h /\ UNCHANGED geom
      BY <1>6, <1>12, <2>1, <2>4 DEF BuildDeviceRejected
    <3>2. /\ graph' \in Graph /\ geom' \in Geom /\ graph'.gen = graph.gen
          /\ graph'.counter = graph.counter /\ graph'.arrays = graph.arrays
          /\ graph'.types = atoms.kind /\ (TablesSafe => graph'.tables = atoms.kind)
      BY <1>1, <1>7, <1>8, <2>2, <3>1 DEF TypeOK
    <3>3. graph.types = atoms.kind \/ setup.single
      BY <1>2, <2>4 DEF Drops, SingleLayer
    <3>4. "reject" \in setup.faults
      BY <1>12 DEF BuildDeviceRejected, Faults
    <3>5. TablesSafe' <=> TablesSafe
      BY <1>3 DEF TablesSafe
    <3>6. UNCHANGED <<setup, atoms, cache, builds, updates, graphId, geomId, cellId, geom, plan>>
      BY <1>2, <1>3, <1>12, <3>1 DEF python, BuildDeviceRejected
    <3>7. Issued' /\ CacheSound' /\ KnownHere'
      BY <1>1, <1>4, <3>2, <3>6 DEF Issued, CacheSound, KnownHere, Mode
    <3>8. TablesFollow'
      BY <3>2, <3>5 DEF TablesFollow
    <3>9. GeometryLive'
      BY <1>1, <3>2, <3>6 DEF GeometryLive, Live, Stamp, Form, Mode, Field
    <3>10. DeviceLive'
      <4>1. SUFFICES ASSUME cache # None, cache.dev # 0, cache.dev = graph.gen, TablesSafe
                     PROVE  atoms.kind = cache.topo.kind
        BY <1>1, <3>2, <3>5, <3>6 DEF DeviceLive
      <4>2. graph.types = cache.topo.kind
        BY <1>1, <4>1 DEF DeviceLive
      <4>3. cache.topo.kind \in setup.kinds \cap setup.device
        BY <1>1, <4>1 DEF CacheSound
      <4> QED
        BY <1>1, <1>2, <3>3, <3>4, <4>1, <4>2, <4>3 DEF TablesSafe
    <3> QED
      BY <1>3, <1>4, <1>5, <3>2, <3>7, <3>8, <3>9, <3>10, TypeParts
         DEF NInv, Standing, NativeParts
  <2> QED
    BY <2>3, <2>4
<1> QED
  BY <1>11, <1>12

\* A new cache: no identity from before has its generations.
LEMMA BuildSteps ==
  ASSUME NInv, BuildHost \/ BuildDevice
  PROVE  NInv'
<1>1. /\ TypeOK /\ Standing /\ CacheSound /\ TablesFollow /\ KnownHere /\ Issued /\ Served
      /\ graph \in Graph /\ atoms.kind \in Kind /\ atoms.kind \in setup.kinds
      /\ atoms.kind # None /\ graph.counter \in Nat /\ builds \in Nat /\ updates \in Nat
      /\ PlanSound
  BY ServedTypes, NeighborAssumption DEF NInv, Standing, Running, TypeOK
<1>2. PICK d \in Nat : /\ Rebuilt(d)
                       /\ \/ BuildHost /\ d = 0 /\ UNCHANGED native
                          \/ /\ BuildDevice /\ d = graph.counter + 1
                             /\ graph' = DeviceGraph /\ geom' = DeviceGeom /\ OnDevice
                       /\ plan' \in {plan, FixedWorkspace(Pairs(atoms))} /\ pc = "inputs"
                       /\ OnDevice \/ UsesCache
  BY <1>1 DEF BuildHost, BuildDevice, native
<1>3. /\ cache' = NewCache(d) /\ builds' = builds + 1 /\ updates' = updates + 1
      /\ pc' = "served"
      /\ UNCHANGED <<setup, atoms, req, used, failure, graphId, geomId, cellId, tuned, xyz,
                     token, bare>>
  BY <1>2 DEF Rebuilt, Goto
<1>4. /\ cache' \in Cache /\ cache'.topo = atoms /\ cache'.cell = atoms.cell
      /\ cache'.gen = builds + 1 /\ cache'.geomGen = updates + 1 /\ cache'.hostGen = 0
      /\ cache'.dev = d /\ cache'.devGeom \in {0, updates + 1}
  BY <1>1, <1>3, CacheFields DEF NewCache
<1>5. /\ graph' \in Graph /\ geom' \in Geom
      /\ graph'.gen <= graph'.counter /\ graph.counter <= graph'.counter
      /\ graph'.counter \in Nat
      /\ d # 0 => d = graph'.gen
      /\ graph'.types \in setup.kinds \cup {None}
      /\ TablesSafe /\ graph'.types # None => graph'.tables = graph'.types
  <2>1. CASE UNCHANGED native /\ d = 0
    BY <1>1, <2>1 DEF native, TypeOK, Issued, CacheSound, TablesFollow
  <2>2. CASE graph' = DeviceGraph /\ geom' = DeviceGeom /\ d = graph.counter + 1
    <3>1. /\ graph' \in Graph /\ geom' \in Geom /\ graph'.gen = graph.counter + 1
          /\ graph'.counter = graph.counter + 1 /\ graph'.types = atoms.kind
          /\ graph'.tables = IF graph.types = atoms.kind THEN graph.tables ELSE atoms.kind
      BY <1>1, <2>2, NativeTypes
    <3>2. TablesSafe => graph'.tables = graph'.types
      BY <1>1, <3>1 DEF TablesFollow
    <3> QED
      BY <1>1, <2>2, <3>1, <3>2
  <2> QED
    BY <1>2, <2>1, <2>2
<1>6. d # 0 => /\ graph'.arrays = Pairs(atoms) /\ graph'.types = atoms.kind
               /\ geom'.snap = atoms /\ geom'.cell = atoms.cell
               /\ setup.skin /\ Mode = "direct" /\ atoms.kind \in setup.device
  BY <1>1, <1>2, NativeTypes DEF DeviceGeom, OnDevice
<1>7. TablesSafe' <=> TablesSafe
  BY <1>3 DEF TablesSafe
<1>8. cache' # None
  BY <1>4, NeighborAssumption
<1>9. Issued'
  <2>1. geomId # None => /\ geomId[1] \in Nat /\ geomId[2] \in Nat
    BY <1>1 DEF TypeOK
  <2>2. geomId # None => /\ geomId[1] # 0 /\ geomId[1] <= graph'.counter
                         /\ geomId[2] <= IF geomId[3] = "fractional" THEN builds + 1
                                         ELSE updates + 1
    BY <1>1, <1>5, <2>1 DEF Issued
  <2>3. cellId # None => cellId[2] <= updates + 1
    BY <1>1 DEF Issued, TypeOK
  <2>4. graphId # None => graphId[1] <= builds + 1
    BY <1>1 DEF Issued, TypeOK
  <2>5. /\ cache'.gen <= builds' /\ cache'.geomGen <= updates'
        /\ cache'.hostGen <= updates' /\ cache'.devGeom <= updates'
        /\ cache'.dev <= graph'.counter
    BY <1>1, <1>3, <1>4, <1>5
  <2> QED
    BY <1>3, <1>5, <2>2, <2>3, <2>4, <2>5 DEF Issued
<1>10. CacheSound' /\ TablesFollow'
  BY <1>1, <1>3, <1>4, <1>5, <1>6, <1>7 DEF CacheSound, TablesFollow, Mode
<1>11. KnownHere'
  <2>1. graphId # None => graphId[1] <= builds /\ graphId[1] \in Nat
    BY <1>1 DEF Issued, TypeOK
  <2>2. graphId # None => graphId[1] # builds + 1
    BY <1>1, <2>1
  <2> QED
    BY <1>1, <1>3, <1>4, <2>2 DEF KnownHere, Mode
<1>12. ~Live'
  <2>1. geomId # None => /\ geomId[2] \in Nat
                         /\ geomId[2] <= IF geomId[3] = "fractional" THEN builds ELSE updates
    BY <1>1 DEF Issued, TypeOK
  <2>2. geomId # None => geomId[2] # IF geomId[3] = "fractional" THEN builds + 1
                                     ELSE updates + 1
    BY <1>1, <2>1
  <2> QED
    BY <1>3, <1>4, <2>2 DEF Live, Stamp
<1>13. DeviceLive'
  BY <1>4, <1>6 DEF DeviceLive
<1>14. Running'
  <2>1. ~bare /\ (Mode = "generic" => setup.skin \/ setup.single)
    BY <1>1, <1>2 DEF Served, UsesCache, NativeAsked, SingleLayer, PlanSound, OnDevice
  <2>2. Served'
    BY <1>1, <1>2, <1>3, <1>4, <1>8, <2>1 DEF Served, CacheServes, Serving, Mode
  <2> QED
    BY <1>3, <2>2 DEF Running, TokenReady, GeometryReady, DeviceReady
<1>15. TypeOK'
  <2>1. EvaluationTypes' /\ PythonTypes'
    BY <1>1, <1>3, <1>4 DEF EvaluationTypes, PythonTypes, TypeOK, Points
  <2> QED
    BY <1>1, <1>2, <1>5, <2>1, TypeParts, PlanTypes DEF TypeOK, NativeParts
<1>16. PlanSound'
  BY <1>1, <1>2, <1>3, PlanTypes DEF PlanSound, Mode
<1> QED
  BY <1>9, <1>10, <1>11, <1>12, <1>13, <1>14, <1>15, <1>16 DEF NInv, Standing, GeometryLive

\* The cell moved within the skin: what depends on the cell gets a new number.
LEMMA CellSteps ==
  ASSUME NInv, CellUpdate
  PROVE  NInv'
<1>1. /\ TypeOK /\ CacheSound /\ TablesFollow /\ KnownHere /\ Issued /\ Served
      /\ GeometryLive /\ DeviceLive /\ PlanSound /\ builds \in Nat /\ updates \in Nat
      /\ cache # None /\ cache \in Cache /\ atoms.cell \in Cell /\ graph.gen \in Nat
  BY ServedTypes DEF NInv, Standing, Running, TypeOK, CellUpdate, Reusable
<1>2. /\ updates' = updates + 1 /\ pc = "inputs" /\ pc' = "served"
      /\ UNCHANGED <<setup, atoms, req, used, failure, builds, graphId, geomId, cellId, graph,
                     geom, plan, tuned, xyz, token, bare>>
      /\ atoms.kind = cache.topo.kind /\ Near(setup.skin, cache.topo, atoms) /\ UsesCache
  BY DEF CellUpdate, Reusable, Goto, native
<1>3. updates + 1 \in Nat
  BY <1>1
<1>4. /\ cache' \in Cache /\ cache'.topo = cache.topo /\ cache'.cell = atoms.cell
      /\ cache'.fractional = cache.fractional /\ cache'.gen = cache.gen
      /\ cache'.geomGen = updates + 1 /\ cache'.hostGen = cache.hostGen
      /\ cache'.dev = cache.dev /\ cache'.devGeom = cache.devGeom
  <2>1. cache' = [cache EXCEPT !.cell = atoms.cell, !.geomGen = updates + 1, !.native = TRUE]
    BY DEF CellUpdate
  <2> QED
    BY <1>1, <1>3, <2>1 DEF Cache
<1>5. cache' # None
  BY <1>4, NeighborAssumption
<1>6. /\ cache.gen \in Nat /\ cache.hostGen \in Nat /\ cache.devGeom \in Nat
      /\ cache.dev \in Nat
      /\ cache.gen <= builds /\ cache.hostGen <= updates /\ cache.devGeom <= updates
      /\ cache.dev <= graph.counter
  BY <1>1 DEF Cache, Issued
<1>7. TablesSafe' <=> TablesSafe
  BY <1>2 DEF TablesSafe
<1>8. Issued'
  <2>1. geomId # None => /\ geomId[1] # 0 /\ geomId[1] <= graph.counter
                         /\ geomId[2] <= IF geomId[3] = "fractional" THEN builds
                                         ELSE updates + 1
    BY <1>1 DEF Issued, TypeOK
  <2>2. (cellId # None => cellId[2] <= updates + 1) /\ (graphId # None => graphId[1] <= builds)
    BY <1>1 DEF Issued, TypeOK
  <2>3. graph.gen <= graph.counter
    BY <1>1 DEF Issued
  <2>4. /\ cache'.gen <= builds /\ cache'.geomGen <= updates + 1
        /\ cache'.hostGen <= updates + 1 /\ cache'.devGeom <= updates + 1
        /\ cache'.dev <= graph.counter
    BY <1>1, <1>4, <1>6
  <2> QED
    BY <1>2, <2>1, <2>2, <2>3, <2>4 DEF Issued
<1>9. cache'.hostGen # cache'.geomGen /\ cache'.devGeom # cache'.geomGen
  BY <1>1, <1>4, <1>6
<1>10. CacheSound' /\ KnownHere' /\ TablesFollow' /\ DeviceLive'
  BY <1>1, <1>2, <1>4, <1>7, <1>9 DEF CacheSound, KnownHere, TablesFollow, DeviceLive, Mode
<1>14. PlanSound'
  BY <1>1, <1>2 DEF PlanSound, Mode
<1>11. GeometryLive'
  <2>1. Form' = Form
    BY <1>2, <1>4, FormKept
  <2>2. cellId # <<graph.gen, updates + 1>>
    <3>1. cellId # None => cellId[2] # updates + 1
      BY <1>1 DEF Issued, TypeOK
    <3>2. <<graph.gen, updates + 1>> # None
      BY <1>1, <1>3, NeighborAssumption
    <3> QED
      BY <3>1, <3>2
  <2>3. CASE Form = "fractional"
    <3>1. Live' => Live
      BY <1>1, <1>2, <1>4, <2>1, <2>3 DEF Live, Stamp
    <3> QED
      BY <1>1, <1>2, <1>4, <2>1, <2>2, <2>3, <3>1 DEF GeometryLive
  <2>4. CASE Form # "fractional"
    <3>1. geomId # None /\ geomId[3] # "fractional" => geomId[2] # updates + 1
      BY <1>1 DEF Issued, TypeOK
    <3>2. ~Live'
      BY <1>2, <1>4, <2>1, <2>4, <3>1 DEF Live, Stamp
    <3> QED
      BY <3>2 DEF GeometryLive
  <2> QED
    BY <2>3, <2>4
<1>12. Running'
  <2>1. ~bare /\ (Mode = "generic" => setup.skin \/ setup.single)
    BY <1>1, <1>2 DEF Served, UsesCache, NativeAsked, SingleLayer, PlanSound
  <2>2. Served'
    BY <1>1, <1>2, <1>4, <1>5, <2>1 DEF Served, CacheServes, Serving, Mode
  <2> QED
    BY <1>2, <2>2 DEF Running, TokenReady, GeometryReady, DeviceReady
<1>13. TypeOK'
  <2>1. EvaluationTypes' /\ PythonTypes'
    BY <1>1, <1>2, <1>3, <1>4 DEF EvaluationTypes, PythonTypes, TypeOK, Points
  <2> QED
    BY <1>1, <1>2, <2>1, TypeParts DEF TypeOK, NativeParts
<1> QED
  BY <1>8, <1>10, <1>11, <1>12, <1>13, <1>14 DEF NInv, Standing

\* Making the edge vectors of the host changes nothing that an identity names.
LEMMA CacheKept ==
  ASSUME NInv, cache # None, cache' \in {cache, Materialized},
         UNCHANGED <<setup, atoms, builds, updates, graphId, graph, plan>>
  PROVE  /\ cache' \in Cache /\ cache' # None /\ cache'.topo = cache.topo
         /\ cache'.cell = cache.cell /\ cache'.gen = cache.gen
         /\ cache'.geomGen = cache.geomGen /\ cache'.dev = cache.dev
         /\ cache'.devGeom = cache.devGeom /\ cache'.fractional = cache.fractional
         /\ (cache' = Materialized => cache'.hostCell = cache.cell)
         /\ CacheSound' /\ KnownHere' /\ TablesFollow' /\ PlanSound'
         /\ (UNCHANGED <<geomId, cellId>> => Issued')
         /\ (cache.dev = 0 \/ UNCHANGED geom => DeviceLive')
         /\ Form' = Form /\ Stamp(Form)' = Stamp(Form)
         /\ (UNCHANGED geomId => (Live' <=> Live))
<1>1. /\ TypeOK /\ PlanSound /\ CacheSound /\ TablesFollow /\ KnownHere /\ Issued /\ DeviceLive
      /\ cache \in Cache
  BY ServedTypes DEF NInv, Standing
<1>2. /\ cache' \in Cache /\ cache'.topo = cache.topo
      /\ cache'.cell = cache.cell /\ cache'.gen = cache.gen
      /\ cache'.geomGen = cache.geomGen /\ cache'.dev = cache.dev
      /\ cache'.devGeom = cache.devGeom /\ cache'.fractional = cache.fractional
      /\ cache'.hostGen \in {cache.hostGen, cache.geomGen}
      /\ (cache' = Materialized => cache'.hostCell = cache.cell)
      /\ (cache'.hostGen = cache'.geomGen => cache'.hostCell = cache.cell)
  <2>1. cache.hostGen = cache.geomGen => cache.hostCell = cache.cell
    BY <1>1 DEF CacheSound
  <2>2. CASE cache' = cache
    <3>1. cache' = Materialized => cache'.hostCell = cache.cell
      BY <1>1, <2>1, <2>2, CacheFields
    <3> QED
      BY <1>1, <2>1, <2>2, <3>1
  <2>3. CASE cache' = Materialized
    BY <1>1, <2>1, <2>3, CacheFields
  <2> QED
    BY <2>2, <2>3
<1>3. cache' # None
  BY <1>2, NeighborAssumption
<1>4. TablesSafe' <=> TablesSafe
  BY DEF TablesSafe
<1>5. CacheSound' /\ KnownHere' /\ TablesFollow' /\ PlanSound'
  BY <1>1, <1>2, <1>4 DEF CacheSound, KnownHere, TablesFollow, PlanSound, Mode
<1>6. UNCHANGED <<geomId, cellId>> => Issued'
  BY <1>1, <1>2 DEF Issued
<1>7. cache.dev = 0 \/ UNCHANGED geom => DeviceLive'
  BY <1>1, <1>2, <1>4 DEF DeviceLive
<1>8. Form' = Form
  BY <1>2, FormKept
<1>9. Stamp(Form)' = Stamp(Form)
  BY <1>2, <1>8 DEF Stamp
<1>10. UNCHANGED geomId => (Live' <=> Live)
  BY <1>2, <1>3, <1>8, <1>9 DEF Live
<1> QED
  BY <1>2, <1>3, <1>5, <1>6, <1>7, <1>8, <1>9, <1>10

LEMMA ServeSteps ==
  ASSUME NInv, Serve
  PROVE  NInv'
<1>1. /\ TypeOK /\ Served /\ GeometryLive /\ cache # None /\ pc = "served"
      /\ cache.cell \in Cell /\ ~bare
  BY ServedTypes DEF NInv, Standing, Running, Served, CacheServes, Serve, Serving
<1>2. /\ pc' = "graph"
      /\ UNCHANGED <<setup, atoms, req, used, failure, builds, updates, graphId, geomId, cellId,
                     graph, geom, plan, tuned, token, bare>>
      /\ cache' \in {cache, Materialized}
      /\ \/ xyz' = None /\ req # "explicit"
         \/ cache' = Materialized /\ xyz' = cache'.hostCell
  BY DEF Serve, Native, Goto, native
<1>3. /\ cache' \in Cache /\ cache' # None /\ cache'.topo = cache.topo
      /\ cache'.cell = cache.cell /\ cache'.geomGen = cache.geomGen
      /\ (cache' = Materialized => cache'.hostCell = cache.cell)
      /\ CacheSound' /\ KnownHere' /\ TablesFollow' /\ Issued' /\ DeviceLive' /\ PlanSound'
      /\ Form' = Form /\ (Live' <=> Live)
  BY <1>1, <1>2, CacheKept
<1>4. xyz' \in {None, cache'.cell} /\ (xyz' = None => req # "explicit")
  BY <1>1, <1>2, <1>3, NeighborAssumption
<1>5. GeometryLive'
  BY <1>1, <1>2, <1>3 DEF GeometryLive
<1>6. Running'
  BY <1>1, <1>2, <1>3, <1>4
     DEF Running, Served, CacheServes, TokenReady, GeometryReady, DeviceReady, Serving, Mode
<1>7. TypeOK'
  <2>1. EvaluationTypes' /\ PythonTypes'
    BY <1>1, <1>2, <1>3, <1>4 DEF EvaluationTypes, PythonTypes, TypeOK, Points
  <2> QED
    BY <1>1, <1>2, <2>1, TypeParts DEF TypeOK, NativeParts
<1> QED
  BY <1>3, <1>5, <1>6, <1>7 DEF NInv, Standing

\* prepare_graph: equal arrays keep the token, others get the next one.
LEMMA GraphSteps ==
  ASSUME NInv, PrepareGraph
  PROVE  NInv'
<1>1. /\ TypeOK /\ Standing /\ Issued /\ CacheSound /\ Served /\ KnownHere /\ TablesFollow
      /\ GeometryLive /\ PlanSound /\ pc = "graph" /\ ~Resident /\ graph \in Graph
      /\ graph.counter \in Nat /\ graph.gen \in Nat /\ atoms.kind \in Kind
      /\ atoms.kind \in setup.kinds /\ atoms.kind # None
      /\ Pairs(Listed) \in Graphs /\ (bare => ~setup.skin)
  BY ServedTypes, NeighborAssumption
     DEF NInv, Standing, Running, PrepareGraph, NeedsGraph, Serving, Served, ListServes
<1>2. /\ pc' = "geometry" /\ token' = graph'.gen
      /\ graphId' = IF Mode = "generic" THEN <<cache.gen, graph'.gen>> ELSE graphId
      /\ UNCHANGED <<setup, atoms, req, used, failure, cache, builds, updates, geomId, cellId,
                     tuned, xyz, bare>>
  BY DEF PrepareGraph, Goto
<1>3. PICK g \in Graph : g = WithTypes(graph, atoms.kind)
  BY <1>1, WithTypesFacts
<1>4. /\ g.counter = graph.counter /\ g.types = atoms.kind /\ g.gen = graph.gen
      /\ g.arrays = graph.arrays
      /\ g.tables = IF graph.types = atoms.kind THEN graph.tables ELSE atoms.kind
  BY <1>1, <1>3, WithTypesFacts
<1>5. TablesSafe => g.tables = g.types
  BY <1>1, <1>4 DEF TablesFollow
<1>6. \/ /\ graph' = g /\ UNCHANGED <<geom, plan>> /\ graph.gen # 0
         /\ graph.arrays = Pairs(Listed)
      \/ /\ graph' = [g EXCEPT !.gen = graph.counter + 1, !.counter = @ + 1,
                                !.arrays = Pairs(Listed), !.host = TRUE,
                                !.sched = FixedWorkspace(Pairs(Listed))]
         /\ geom' = NoGeom /\ plan' = FixedWorkspace(Pairs(Listed))
  BY <1>3 DEF PrepareGraph
<1>7. /\ graph' \in Graph /\ graph'.gen # 0 /\ graph'.arrays = Pairs(Listed)
      /\ graph'.types = atoms.kind /\ (TablesSafe => graph'.tables = graph'.types)
      /\ geom' \in Geom /\ plan' \in BOOLEAN /\ PlanSound'
      /\ \/ UNCHANGED <<geom, plan>> /\ graph'.gen = graph.gen /\ graph'.counter = graph.counter
         \/ graph'.gen = graph.counter + 1 /\ graph'.counter = graph.counter + 1
  <2>1. CASE /\ graph' = g /\ UNCHANGED <<geom, plan>> /\ graph.gen # 0
             /\ graph.arrays = Pairs(Listed)
    BY <1>1, <1>2, <1>4, <1>5, <2>1 DEF TypeOK, PlanSound, Mode
  <2>2. CASE /\ graph' = [g EXCEPT !.gen = graph.counter + 1, !.counter = @ + 1,
                                   !.arrays = Pairs(Listed), !.host = TRUE,
                                   !.sched = FixedWorkspace(Pairs(Listed))]
             /\ geom' = NoGeom /\ plan' = FixedWorkspace(Pairs(Listed))
    <3>1. PICK b \in BOOLEAN : b = FixedWorkspace(Pairs(Listed))
      BY DEF FixedWorkspace
    <3>2. PICK h \in BOOLEAN : h = TRUE
      OBVIOUS
    <3>3. graph' = Renewed(g, graph.counter, Pairs(Listed), h, b)
      BY <2>2, <3>1, <3>2 DEF Renewed
    <3>4. /\ graph' \in Graph /\ graph'.gen = graph.counter + 1
          /\ graph'.counter = graph.counter + 1 /\ graph'.arrays = Pairs(Listed)
          /\ graph'.types = g.types /\ graph'.tables = g.tables
      BY <1>1, <1>4, <3>3, NextGraph
    <3>5. geom' \in Geom
      BY <1>1, <2>2, NativeTypes
    <3>6. graph.counter + 1 # 0
      BY <1>1
    <3>7. plan' \in BOOLEAN /\ PlanSound'
      BY <1>2, <2>2, PlanTypes DEF PlanSound, Mode
    <3> QED
      BY <1>4, <1>5, <3>4, <3>5, <3>6, <3>7
  <2> QED
    BY <1>6, <2>1, <2>2
<1>8. /\ KnownHere' /\ (graphId' # None => graphId'[1] <= builds)
      /\ graphId' \in (Nat \X Nat) \cup {None}
  <2>0. graph'.gen \in Nat
    BY <1>7 DEF Graph
  <2>1. CASE Mode = "generic"
    <3>1. xyz = None
      BY <2>1 DEF PrepareGraph, NeedsGraph
    <3>2. ~bare /\ cache # None /\ cache.gen \in Nat
      BY <1>1, <3>1, ServedTypes DEF Serving
    <3>3. /\ Listed = cache.topo /\ atoms.kind = cache.topo.kind
          /\ setup.skin \/ setup.single
      BY <1>1, <2>1, <3>2 DEF Served, CacheServes, Serving, Listed
    <3>4. "explicit" \notin setup.requests
      <4>1. req # "explicit" /\ req \in setup.requests
        BY <1>1, <3>1 DEF Served
      <4> QED
        BY <1>1, <2>1, <4>1, NeighborAssumption DEF TypeOK, Mode
    <3>5. cache.gen <= builds
      BY <1>1, <3>2 DEF Issued
    <3> QED
      BY <1>2, <1>7, <2>0, <2>1, <3>2, <3>3, <3>4, <3>5 DEF KnownHere, Mode
  <2>2. CASE Mode = "direct"
    BY <1>1, <1>2, <2>2 DEF KnownHere, Mode, TypeOK
  <2>3. Mode \in {"direct", "generic"}
    BY <1>1, NeighborAssumption DEF TypeOK, Setup, Mode
  <2> QED
    BY <2>1, <2>2, <2>3
<1>9. Standing'
  <2>1. CASE UNCHANGED <<geom, plan>> /\ graph'.gen = graph.gen /\ graph'.counter = graph.counter
    <3>1. TablesSafe' <=> TablesSafe
      BY <1>2 DEF TablesSafe
    <3>2. Issued' /\ CacheSound'
      BY <1>1, <1>2, <1>7, <1>8, <2>1 DEF Issued, CacheSound, Mode
    <3>3. DeviceLive' /\ TablesFollow'
      BY <1>1, <1>2, <1>7, <3>1 DEF DeviceLive, TablesFollow, Resident
    <3>4. GeometryLive'
      BY <1>1, <1>2, <2>1 DEF GeometryLive, Live, Stamp, Form, Mode, Field
    <3> QED
      BY <1>7, <1>8, <3>2, <3>3, <3>4 DEF Standing
  <2>2. CASE graph'.gen = graph.counter + 1 /\ graph'.counter = graph.counter + 1
    BY <1>1, <1>2, <1>7, <1>8, <2>2, StandingRenewed
  <2> QED
    BY <1>7, <2>1, <2>2
<1>10. Running'
  <2>1. Served'
    BY <1>1, <1>2 DEF Served, CacheServes, ListServes, Serving
  <2>2. Listed' = Listed /\ ~Resident'
    BY <1>1, <1>2 DEF Listed, Resident
  <2>3. TokenReady'
    BY <1>2, <1>7, <2>2 DEF TokenReady
  <2> QED
    BY <1>2, <2>1, <2>3 DEF Running, GeometryReady, DeviceReady
<1>11. TypeOK'
  <2>1. graph'.gen \in Nat
    BY <1>7 DEF Graph
  <2>2. EvaluationTypes' /\ PythonTypes'
    BY <1>1, <1>2, <1>8, <2>1 DEF EvaluationTypes, PythonTypes, TypeOK, Points
  <2> QED
    BY <1>7, <2>2, TypeParts DEF NativeParts
<1> QED
  BY <1>9, <1>10, <1>11 DEF NInv

\* The reference geometry is handed over, or its preparation fails half way.
LEMMA GeometrySteps ==
  ASSUME NInv, PrepareGeometry
  PROVE  NInv'
<1>1. /\ TypeOK /\ Served /\ TokenReady /\ GeometryLive /\ Issued /\ cache # None
      /\ ~Resident /\ cache.dev = 0 /\ pc = "geometry"
      /\ cache.topo \in Atoms /\ cache.cell \in Cell
      /\ token \in Nat /\ token = graph.gen /\ token # 0
      /\ cache.gen <= builds /\ cache.geomGen <= updates
  BY ServedTypes
     DEF NInv, Standing, Running, PrepareGeometry, FromCache, FromPositions, Resident, Serving,
         TypeOK, TokenReady, Issued
<1>2. /\ pc' = "compute" /\ cache' \in {cache, Materialized}
      /\ geomId' = GeomIdentity
      /\ cellId' = IF Form = "fractional" THEN CellIdentity ELSE None
      /\ (Form = "cartesian" => cache' = Materialized)
      /\ geom' = [gen |-> token, form |-> Form, snap |-> cache.topo,
                  cell |-> IF Form = "cartesian" THEN cache'.hostCell ELSE cache.cell]
      /\ UNCHANGED <<setup, atoms, req, used, failure, builds, updates, graphId, graph, plan,
                     tuned, xyz, token, bare>>
  BY DEF PrepareGeometry, Goto
<1>3. /\ cache' \in Cache /\ cache' # None /\ cache'.topo = cache.topo
      /\ cache'.cell = cache.cell /\ cache'.gen = cache.gen /\ cache'.geomGen = cache.geomGen
      /\ cache'.dev = 0
      /\ (cache' = Materialized => cache'.hostCell = cache.cell)
      /\ CacheSound' /\ KnownHere' /\ TablesFollow' /\ DeviceLive' /\ Form' = Form
      /\ PlanSound'
  BY <1>1, <1>2, CacheKept
<1>4. (UNCHANGED <<geomId, cellId>> => Issued') /\ Form \in Geometries
      /\ cache'.hostGen <= updates /\ cache'.devGeom <= updates
  <2>1. Form \in Geometries
    BY DEF Form, Geometries
  <2>2. cache.hostGen <= updates /\ cache.devGeom <= updates
    BY <1>1 DEF Issued
  <2>3. cache'.hostGen \in {cache.hostGen, cache.geomGen} /\ cache'.devGeom = cache.devGeom
    BY <1>1, <1>2, CacheFields
  <2> QED
    BY <1>1, <1>2, <2>1, <2>2, <2>3, CacheKept
<1>5. geom'.gen = token /\ geom'.snap = cache.topo /\ geom'.cell = cache.cell
  BY <1>2, <1>3
<1>6. geom' \in Geom
  BY <1>1, <1>2, <1>3, <1>4 DEF Geom
<1>7. Issued'
  <2>1. graph.gen <= graph.counter /\ (graphId # None => graphId[1] <= builds)
    BY <1>1 DEF Issued
  <2>2. geomId'[1] = token /\ geomId'[2] = Stamp(Form) /\ geomId'[3] = Form
    BY <1>2 DEF GeomIdentity
  <2>3. geomId'[2] <= IF geomId'[3] = "fractional" THEN builds ELSE updates
    BY <1>1, <2>2 DEF Stamp
  <2>4. cellId' # None => cellId'[2] <= updates
    BY <1>1, <1>2 DEF CellIdentity
  <2>5. cache'.dev <= graph.counter
    BY <1>1, <1>3 DEF Issued
  <2> QED
    BY <1>1, <1>2, <1>3, <1>4, <2>1, <2>2, <2>3, <2>4, <2>5 DEF Issued
<1>8. GeometryLive'
  BY <1>1, <1>2, <1>3, <1>5 DEF GeometryLive
<1>9. Running'
  <2>1. Served'
    BY <1>1, <1>2, <1>3 DEF Served, CacheServes, ListServes, Serving
  <2>2. Listed' = Listed /\ ~Resident'
    BY <1>1, <1>2, <1>3 DEF Listed, Resident
  <2>3. TokenReady'
    BY <1>1, <1>2, <2>2 DEF TokenReady
  <2>4. GeometryReady'
    BY <1>2, <1>3, <1>5 DEF GeometryReady
  <2> QED
    BY <2>1, <2>2, <2>3, <2>4 DEF Running, DeviceReady
<1>10. TypeOK'
  <2>1. geomId' \in Nat \X Nat \X Geometries /\ cellId' \in (Nat \X Nat) \cup {None}
    BY <1>1, <1>2, IdentityTypes
  <2>2. EvaluationTypes' /\ PythonTypes'
    BY <1>1, <1>2, <1>3, <2>1 DEF EvaluationTypes, PythonTypes, TypeOK, Points
  <2> QED
    BY <1>1, <1>2, <1>6, <2>2, TypeParts DEF TypeOK, NativeParts
<1> QED
  BY <1>3, <1>7, <1>8, <1>9, <1>10 DEF NInv, Standing

LEMMA FailedGeometrySteps ==
  ASSUME NInv, PrepareGeometryFails
  PROVE  NInv'
<1>1. /\ TypeOK /\ Served /\ TokenReady /\ cache # None /\ cache.dev = 0 /\ pc = "geometry"
      /\ token = graph.gen
  BY ServedTypes
     DEF NInv, Standing, Running, PrepareGeometryFails, FromCache, FromPositions, Resident,
         Serving, TokenReady
<1>2. /\ geomId # GeomIdentity /\ geom' = [geom EXCEPT !.snap = None]
      /\ cache' \in {cache, Materialized} /\ Raise("geometry")
      /\ UNCHANGED <<builds, updates, graphId, geomId, cellId, graph, plan>>
  BY DEF PrepareGeometryFails
<1>3. EvaluationTypes' /\ UNCHANGED <<xyz, token, setup, atoms>> /\ pc' = "idle"
  BY <1>1, <1>2, EndTypes DEF Raise, Failures
<1>4. /\ cache' \in Cache /\ CacheSound' /\ KnownHere' /\ TablesFollow' /\ Issued'
      /\ PlanSound'
      /\ DeviceLive' /\ (Live' <=> Live)
  BY <1>1, <1>2, <1>3, CacheKept
<1>5. ~Live
  <2>1. geomId = None \/ geomId = <<geomId[1], geomId[2], geomId[3]>>
    BY <1>1 DEF TypeOK
  <2> QED
    BY <1>1, <1>2, <2>1 DEF Live, GeomIdentity
<1>6. GeometryLive'
  BY <1>4, <1>5 DEF GeometryLive
<1>7. Running'
  BY <1>3, NotRunning
<1>8. TypeOK'
  <2>1. PythonTypes'
    BY <1>1, <1>2, <1>3, <1>4 DEF PythonTypes, TypeOK
  <2>2. graph' \in Graph
    BY <1>1, <1>2 DEF TypeOK
  <2>3. geom' \in Geom
    BY <1>1, <1>2, NativeTypes
  <2>4. plan' \in BOOLEAN
    BY <1>1, <1>2 DEF TypeOK
  <2> QED
    BY <1>3, <2>1, <2>2, <2>3, <2>4, TypeParts DEF NativeParts
<1> QED
  BY <1>4, <1>6, <1>7, <1>8 DEF NInv, Standing

\* update_factorized_cell: the geometry of the snapshot in the cell of now.
LEMMA UpdateCellSteps ==
  ASSUME NInv, UpdateCell
  PROVE  NInv'
<1>1. /\ TypeOK /\ Served /\ TokenReady /\ GeometryLive /\ Issued /\ CacheSound /\ KnownHere
      /\ TablesFollow /\ DeviceLive /\ PlanSound /\ ~Resident
      /\ cache # None /\ cache.dev = 0 /\ pc = "geometry" /\ cache.cell \in Cell
      /\ token = graph.gen /\ geom \in Geom
  BY ServedTypes
     DEF NInv, Standing, Running, UpdateCell, FromCache, FromPositions, Resident, Serving,
         TokenReady
<1>2. /\ geomId = GeomIdentity /\ cellId' = CellIdentity /\ pc' = "compute"
      /\ geom' = [geom EXCEPT !.cell = cache.cell]
      /\ UNCHANGED <<setup, atoms, req, used, failure, cache, builds, updates, graphId, geomId,
                     graph, plan, tuned, xyz, token, bare>>
  BY DEF UpdateCell, Goto
<1>3. /\ geom' \in Geom /\ geom'.gen = geom.gen /\ geom'.snap = geom.snap
      /\ geom'.cell = cache.cell
  BY <1>1, <1>2 DEF Geom
<1>4. geomId # None
  BY <1>1, <1>2, IdentityTypes
<1>5. Live
  BY <1>1, <1>2, <1>4 DEF Live, GeomIdentity
<1>6. TablesSafe' <=> TablesSafe
  BY <1>2 DEF TablesSafe
<1>7. Issued'
  BY <1>1, <1>2 DEF Issued, CellIdentity
<1>8. CacheSound' /\ KnownHere' /\ TablesFollow' /\ DeviceLive' /\ PlanSound'
  BY <1>1, <1>2, <1>6
     DEF CacheSound, KnownHere, TablesFollow, DeviceLive, PlanSound, Mode
<1>9. geom.gen = graph.gen /\ geom.snap = cache.topo
  BY <1>1, <1>5 DEF GeometryLive
<1>10. GeometryLive'
  BY <1>2, <1>3, <1>9 DEF GeometryLive
<1>11. Running'
  <2>1. Served'
    BY <1>1, <1>2 DEF Served, CacheServes, ListServes, Serving
  <2>2. Listed' = Listed /\ ~Resident'
    BY <1>1, <1>2 DEF Listed, Resident
  <2>3. TokenReady'
    BY <1>1, <1>2, <2>2 DEF TokenReady
  <2>4. GeometryReady'
    BY <1>1, <1>2, <1>3, <1>9 DEF GeometryReady
  <2> QED
    BY <2>1, <2>2, <2>3, <2>4 DEF Running, DeviceReady
<1>12. TypeOK'
  <2>1. cellId' \in Nat \X Nat
    BY <1>1, <1>2, IdentityTypes
  <2>2. EvaluationTypes' /\ PythonTypes'
    BY <1>1, <1>2, <2>1 DEF EvaluationTypes, PythonTypes, TypeOK, Points
  <2> QED
    BY <1>1, <1>2, <1>3, <2>2, TypeParts DEF TypeOK, NativeParts
<1> QED
  BY <1>7, <1>8, <1>10, <1>11, <1>12 DEF NInv, Standing

\* The same for a graph built on the device.
LEMMA DeviceSteps ==
  ASSUME NInv, DeviceGeometry
  PROVE  NInv'
<1>1. /\ TypeOK /\ Served /\ TokenReady /\ Issued /\ CacheSound /\ KnownHere
      /\ TablesFollow /\ DeviceLive /\ PlanSound /\ ~bare /\ Resident
      /\ cache # None /\ cache \in Cache /\ cache.dev # 0 /\ pc = "geometry"
      /\ cache.cell \in Cell /\ cache.geomGen \in Nat /\ geom \in Geom
  BY ServedTypes DEF NInv, Standing, Running, DeviceGeometry, Resident, Serving
<1>2. /\ pc' = "compute"
      /\ UNCHANGED <<setup, atoms, req, used, failure, builds, updates, graphId, geomId, cellId,
                     graph, plan, tuned, xyz, token, bare>>
  BY DEF DeviceGeometry, Goto
<1>3. \/ cache.devGeom = cache.geomGen /\ UNCHANGED <<cache, geom>>
      \/ /\ geom' = [geom EXCEPT !.cell = cache.cell]
         /\ cache' = [cache EXCEPT !.devGeom = cache.geomGen]
  BY DEF DeviceGeometry
<1>4. /\ cache' \in Cache /\ cache'.topo = cache.topo /\ cache'.cell = cache.cell
      /\ cache'.gen = cache.gen /\ cache'.geomGen = cache.geomGen
      /\ cache'.hostGen = cache.hostGen /\ cache'.hostCell = cache.hostCell
      /\ cache'.dev = cache.dev /\ cache'.devGeom = cache.geomGen
      /\ geom' \in Geom /\ geom'.gen = geom.gen /\ geom'.snap = geom.snap
      /\ \/ geom'.cell = cache.cell
         \/ geom'.cell = geom.cell /\ cache.devGeom = cache.geomGen
  <2>1. CASE cache.devGeom = cache.geomGen /\ UNCHANGED <<cache, geom>>
    BY <1>1, <2>1
  <2>2. CASE /\ geom' = [geom EXCEPT !.cell = cache.cell]
             /\ cache' = [cache EXCEPT !.devGeom = cache.geomGen]
    <3>1. geom' \in Geom /\ geom'.gen = geom.gen /\ geom'.snap = geom.snap
          /\ geom'.cell = cache.cell
      BY <1>1, <2>2 DEF Geom
    <3>2. /\ cache' \in Cache /\ cache'.topo = cache.topo /\ cache'.cell = cache.cell
          /\ cache'.gen = cache.gen /\ cache'.geomGen = cache.geomGen
          /\ cache'.hostGen = cache.hostGen /\ cache'.hostCell = cache.hostCell
          /\ cache'.dev = cache.dev /\ cache'.devGeom = cache.geomGen
      BY <1>1, <2>2 DEF Cache
    <3> QED
      BY <3>1, <3>2
  <2> QED
    BY <1>3, <2>1, <2>2
<1>5. cache' # None
  BY <1>4, NeighborAssumption
<1>6. TablesSafe' <=> TablesSafe
  BY <1>2 DEF TablesSafe
<1>7. Issued'
  BY <1>1, <1>2, <1>4 DEF Issued
<1>8. CacheSound' /\ KnownHere' /\ TablesFollow' /\ PlanSound'
  BY <1>1, <1>2, <1>4, <1>6 DEF CacheSound, KnownHere, TablesFollow, PlanSound, Mode
<1>9. DeviceLive'
  BY <1>1, <1>2, <1>4, <1>6 DEF DeviceLive
<1>10. GeometryLive'
  BY <1>1, <1>4 DEF GeometryLive, Live
<1>11. Running'
  <2>1. Served'
    BY <1>1, <1>2, <1>4, <1>5 DEF Served, CacheServes, Serving
  <2>2. Resident'
    BY <1>1, <1>4, <1>5 DEF Resident
  <2>3. TokenReady'
    BY <1>1, <1>2, <1>4, <2>2 DEF TokenReady
  <2>4. GeometryReady' /\ DeviceReady'
    BY <1>2, <1>4, <2>2 DEF GeometryReady, FromPositions, DeviceReady
  <2> QED
    BY <2>1, <2>3, <2>4 DEF Running
<1>12. TypeOK'
  <2>1. EvaluationTypes' /\ PythonTypes'
    BY <1>1, <1>2, <1>4 DEF EvaluationTypes, PythonTypes, TypeOK, Points
  <2> QED
    BY <1>1, <1>2, <1>4, <2>1, TypeParts DEF TypeOK, NativeParts
<1> QED
  BY <1>7, <1>8, <1>9, <1>10, <1>11, <1>12 DEF NInv, Standing

\* An evaluation without prepared execution takes the types all the same.
LEMMA UnpreparedSteps ==
  ASSUME NInv, ComputeUnprepared
  PROVE  NInv'
<1>1. /\ TypeOK /\ Served /\ Issued /\ CacheSound /\ KnownHere /\ TablesFollow
      /\ GeometryLive /\ PlanSound /\ Mode = "generic"
      /\ pc = "graph" /\ graph \in Graph /\ atoms.kind \in Kind
      /\ atoms.kind # None /\ atoms.kind \in setup.kinds
      /\ Listed \in Atoms /\ Pairs(Listed) \in Graphs /\ xyz \in Cell \cup {None}
      /\ atoms \in Atoms
  BY ServedTypes, NeighborAssumption
     DEF NInv, Standing, Running, ComputeUnprepared, Serving, TypeOK, Served
<1>2. /\ graph' = WithTypes(graph, atoms.kind) /\ UNCHANGED <<geom, plan>>
      /\ Completed([at |-> atoms, arrays |-> Pairs(Listed), snap |-> Listed,
                    cell |-> xyz, tables |-> graph'.tables])
  BY DEF ComputeUnprepared
<1>3. /\ graph' \in Graph /\ graph'.gen = graph.gen /\ graph'.counter = graph.counter
      /\ graph'.arrays = graph.arrays /\ graph'.types = atoms.kind
      /\ graph'.tables = IF graph.types = atoms.kind THEN graph.tables ELSE atoms.kind
  BY <1>1, <1>2, WithTypesFacts
<1>4. graph'.tables \in Kind \cup {None}
  BY <1>3 DEF Graph
<1>5. [at |-> atoms, arrays |-> Pairs(Listed), snap |-> Listed,
       cell |-> xyz, tables |-> graph'.tables] \in Evaluation
  BY <1>1, <1>4 DEF Evaluation
<1>6. EvaluationTypes' /\ PythonTypes' /\ UNCHANGED <<setup, atoms, python>> /\ pc' = "idle"
  BY <1>1, <1>2, <1>5, EndTypes DEF Completed
<1>7. UNCHANGED <<setup, atoms, cache, builds, updates, graphId, geomId, cellId, geom, plan>>
  BY <1>2, <1>6 DEF python
<1>8. TablesSafe' <=> TablesSafe
  BY <1>7 DEF TablesSafe
<1>9. Issued' /\ CacheSound' /\ KnownHere' /\ PlanSound'
  <2>1. ASSUME graphId # None, cache # None PROVE atoms.kind = cache.topo.kind
    <3>1. setup.skin \/ setup.single
      BY <1>1, <2>1 DEF KnownHere
    <3>2. req # "explicit"
      BY <1>1, <2>1 DEF KnownHere, Served
    <3>3. ~bare
      BY <1>1, <3>1, <3>2 DEF Served, ListServes, Serving
    <3> QED
      BY <1>1, <3>3 DEF Served, CacheServes, Serving
  <2>2. Issued' /\ CacheSound' /\ PlanSound'
    BY <1>1, <1>3, <1>7 DEF Issued, CacheSound, PlanSound, Mode
  <2>3. KnownHere'
    BY <1>1, <1>3, <1>7, <2>1 DEF KnownHere, Mode
  <2> QED
    BY <2>2, <2>3
<1>10. TablesFollow' /\ DeviceLive'
  BY <1>1, <1>3, <1>7, <1>8 DEF TablesFollow, DeviceLive, CacheSound
<1>11. GeometryLive'
  BY <1>1, <1>3, <1>7 DEF GeometryLive, Live, Stamp, Form, Mode, Field
<1>12. Running'
  BY <1>6, NotRunning
<1>13. geom' \in Geom /\ plan' \in BOOLEAN
  BY <1>1, <1>7 DEF TypeOK
<1> QED
  BY <1>3, <1>6, <1>9, <1>10, <1>11, <1>12, <1>13, TypeParts
     DEF NInv, Standing, NativeParts

-----------------------------------------------------------------------------
(***************************************************************************)
(* The theorems                                                            *)
(***************************************************************************)
LEMMA InitN == Init => NInv
<1> SUFFICES ASSUME Init PROVE NInv
  OBVIOUS
<1>1. TypeOK
  BY DEF Init, TypeOK, Points, Graph, Geom
<1>2. Running
  BY DEF Init, Running, Served, TokenReady, GeometryReady, DeviceReady, Serving
<1>3. Standing
  BY DEF Init, Standing, Issued, CacheSound, KnownHere, PlanSound, GeometryLive, Live,
         DeviceLive, TablesFollow
<1> QED
  BY <1>1, <1>2, <1>3 DEF NInv

LEMMA NextN ==
  ASSUME NInv, [Next]_vars
  PROVE  NInv'
<1>1. CASE UNCHANGED vars
  <2>1. UNCHANGED <<setup, atoms, python, native>> /\ TypeOK /\ Standing /\ CacheSound
    BY <1>1 DEF vars, python, native, NInv, Standing
  <2>2. TypeOK'
    BY <1>1, <2>1 DEF vars, TypeOK
  <2>3. Standing'
    BY <2>1, StandingKept DEF CacheSound
  <2>4. Running'
    BY <1>1 DEF vars, NInv, Running, Served, ListServes, CacheServes, TokenReady, Listed,
                GeometryReady, DeviceReady, FromPositions, Resident, Mode
  <2> QED
    BY <2>2, <2>3, <2>4 DEF NInv
<1>2. CASE Next
  BY <1>2, BetweenSteps, PolicySteps, ListSteps, ReuseSteps, OnwardSteps, CellSteps,
     BuildSteps, FailedBuilds, RefusalSteps, ServeSteps, GraphSteps, FailedSteps,
     GeometrySteps, FailedGeometrySteps, UpdateCellSteps, DeviceSteps, ComputeSteps,
     UnpreparedSteps DEF Next
<1> QED
  BY <1>1, <1>2

LEMMA Invariance == Spec => []NInv
<1>1. NInv /\ [Next]_vars => NInv'
  BY NextN
<1> QED
  BY InitN, <1>1, PTL DEF Spec

\* The variables of the calculator and of the evaluator keep their types.
THEOREM TypeCorrect == Spec => []TypeOK
<1>1. NInv => TypeOK
  BY DEF NInv
<1> QED
  BY <1>1, Invariance, PTL

\* What an evaluation computes with, when it computes.
LEMMA Computes ==
  ASSUME NInv, ComputePositions \/ ComputeExplicit \/ ComputeUnprepared, TablesSafe
  PROVE  Faithful'
<1>0. UNCHANGED <<setup, bare, atoms>> /\ (Mixed' => bare) /\ pc \in {"graph", "compute"}
  BY DEF ComputePositions, ComputeExplicit, ComputeUnprepared, Completed, Mixed
<1>1. /\ TypeOK /\ Served /\ TokenReady /\ GeometryReady /\ DeviceReady /\ DeviceLive
      /\ TablesFollow /\ Listed \in Atoms /\ Listed # None /\ atoms.kind \in Kind
      /\ atoms.kind # None /\ graph \in Graph
  BY <1>0, ServedTypes, NeighborAssumption DEF NInv, Standing, Running, Serving
<1>2. /\ atoms.kind = Listed.kind
      /\ Listed = atoms \/ Near(setup.skin, Listed, atoms)
      /\ (xyz # None => xyz = atoms.cell)
  BY <1>0, <1>1 DEF Served, ListServes, CacheServes, Listed, Serving
<1>3. ASSUME NEW t, t = atoms.kind,
             used' = [at |-> atoms, arrays |-> Pairs(Listed), snap |-> Listed,
                      cell |-> atoms.cell, tables |-> t]
      PROVE  Faithful'
  BY <1>0, <1>1, <1>2, <1>3 DEF Faithful
<1>4. CASE ComputePositions
  <2>1. /\ pc = "compute" /\ (FromPositions \/ Resident) /\ UNCHANGED <<plan, xyz>>
        /\ token = graph.gen /\ token = geom.gen
        /\ used' = [at |-> atoms, arrays |-> graph.arrays, snap |-> geom.snap,
                    cell |-> geom.cell, tables |-> graph.tables]
    BY <1>4 DEF ComputePositions, TokensCurrent, Completed, native
  <2>2. CASE bare
    <3>1. FromPositions /\ xyz # None
      BY <2>1, <2>2, ServedTypes DEF Serving
    <3>2. Mixed'
      BY <1>0, <2>1, <2>2, <3>1 DEF Mixed, FromPositions
    <3> QED
      BY <3>2 DEF Faithful
  <2>3. CASE ~bare
    <3>1. Listed = cache.topo /\ cache # None /\ cache.cell = atoms.cell
      BY <1>1, <2>1, <2>3 DEF Listed, Served, CacheServes, Serving
    <3>2. CASE ~Resident
      <4>1. /\ graph.arrays = Pairs(Listed) /\ graph.types = atoms.kind
            /\ geom.snap = Listed /\ geom.cell = atoms.cell
        BY <1>1, <2>1, <3>1, <3>2 DEF TokenReady, GeometryReady
      <4>2. graph.tables = atoms.kind
        BY <1>1, <4>1 DEF TablesFollow
      <4> QED
        BY <1>3, <2>1, <4>1, <4>2
    <3>3. CASE Resident
      <4>1. cache.dev = graph.gen /\ geom.gen = graph.gen /\ cache.devGeom = cache.geomGen
        BY <1>1, <2>1, <3>3 DEF TokenReady, DeviceReady
      <4>2. /\ graph.arrays = Pairs(cache.topo) /\ graph.types = cache.topo.kind
            /\ geom.snap = cache.topo /\ geom.cell = cache.cell
        BY <1>1, <3>3, <4>1 DEF DeviceLive, Resident
      <4>3. graph.tables = atoms.kind
        BY <1>1, <1>2, <3>1, <4>2 DEF TablesFollow
      <4> QED
        BY <1>3, <2>1, <3>1, <4>2, <4>3
    <3> QED
      BY <3>2, <3>3
  <2> QED
    BY <2>2, <2>3
<1>5. CASE ComputeExplicit
  <2>1. /\ pc = "compute" /\ ~Resident /\ xyz # None
        /\ used' = [at |-> atoms, arrays |-> graph.arrays, snap |-> Listed,
                    cell |-> xyz, tables |-> graph.tables]
    BY <1>5 DEF ComputeExplicit, FromPositions, Completed
  <2>2. graph.arrays = Pairs(Listed) /\ graph.types = atoms.kind
    BY <1>1, <2>1 DEF TokenReady
  <2>3. graph.tables = atoms.kind
    BY <1>1, <2>2 DEF TablesFollow
  <2> QED
    BY <1>2, <1>3, <2>1, <2>2, <2>3
<1>6. CASE ComputeUnprepared
  <2>1. /\ xyz # None /\ graph' = WithTypes(graph, atoms.kind)
        /\ used' = [at |-> atoms, arrays |-> Pairs(Listed), snap |-> Listed,
                    cell |-> xyz, tables |-> graph'.tables]
    BY <1>6 DEF ComputeUnprepared, Completed
  <2>2. graph'.tables = IF graph.types = atoms.kind THEN graph.tables ELSE atoms.kind
    BY <1>1, <2>1, WithTypesFacts
  <2>3. graph'.tables = atoms.kind
    BY <1>1, <2>2 DEF TablesFollow
  <2> QED
    BY <1>2, <1>3, <2>1, <2>3
<1> QED
  BY <1>4, <1>5, <1>6

\* Whatever was cached, reconfigured or failed before, an evaluation that
\* completes computed with the graph and the edges of a structure within the
\* skin of its own, in its own cell and with the tables of its species, on
\* every setup whose tables cannot part from the graph (TablesSafe), unless it
\* is an exact list under a fixed-workspace plan (Mixed).
THEOREM FaithfulEvaluations == Spec => [](TablesSafe => Faithful)
<1>1. Init => (TablesSafe => Faithful)
  BY DEF Init, Faithful
<1>2. NInv /\ (TablesSafe => Faithful) /\ [Next]_vars => (TablesSafe => Faithful)'
  <2> SUFFICES ASSUME NInv, TablesSafe => Faithful, [Next]_vars
               PROVE  (TablesSafe => Faithful)'
    OBVIOUS
  <2>1. TablesSafe' <=> TablesSafe
    BY DEF Next, vars, TablesSafe, Move, Calculate, Reconfigure, ExactList, Reuse, CellUpdate,
           BuildHost, BuildDevice, Rebuilt, BuildDeviceFails, BuildDeviceRejected,
           NoHostGeometry, Serve, Tune, DeviceToken, KnownGraph, PrepareGraph,
           PrepareGraphFails, TablesFail, PrepareGeometry, PrepareGeometryFails,
           UpdateCell, KeepGeometry, ShiftCacheless, ShiftMismatch, DeviceGeometry,
           ExplicitGeometry, StaleCell,
           ComputePositions, StaleTokens, ComputeExplicit, ComputeUnprepared, Completed,
           Raise, Goto
  <2>2. pc # "idle" => used = None
    BY DEF NInv, Running, Served
  <2>3. \/ used' = None
        \/ UNCHANGED <<setup, bare, plan, used>>
        \/ ComputePositions \/ ComputeExplicit \/ ComputeUnprepared
    <3>1. \/ used' \in {used, None}
          \/ ComputePositions \/ ComputeExplicit \/ ComputeUnprepared
      BY DEF Next, vars, Move, Calculate, Reconfigure, ExactList, Reuse, CellUpdate,
             BuildHost, BuildDevice, Rebuilt, BuildDeviceFails, BuildDeviceRejected,
             NoHostGeometry, Serve, Tune, DeviceToken, KnownGraph, PrepareGraph,
             PrepareGraphFails, TablesFail, PrepareGeometry, PrepareGeometryFails,
             UpdateCell, KeepGeometry, ShiftCacheless, ShiftMismatch, DeviceGeometry,
             ExplicitGeometry, StaleCell, StaleTokens, Raise, Goto
    <3>2. pc = "idle" => Move \/ Calculate \/ Reconfigure \/ UNCHANGED vars
      BY DEF Next, ExactList, Reuse, CellUpdate, BuildHost, BuildDevice, BuildDeviceFails,
             BuildDeviceRejected, NoHostGeometry, Serve, Tune, DeviceToken, KnownGraph,
             NeedsGraph, PrepareGraph, PrepareGraphFails, TablesFail, PrepareGeometry,
             PrepareGeometryFails, UpdateCell, KeepGeometry, ShiftCacheless, ShiftMismatch,
             DeviceGeometry, ExplicitGeometry, StaleCell, ComputePositions, StaleTokens,
             ComputeExplicit, ComputeUnprepared
    <3> QED
      BY <2>2, <3>1, <3>2 DEF Move, Calculate, Reconfigure, vars
  <2>4. CASE used' = None
    BY <2>4 DEF Faithful
  <2>5. CASE UNCHANGED <<setup, bare, plan, used>>
    BY <2>1, <2>5 DEF Faithful, Mixed
  <2>6. CASE ComputePositions \/ ComputeExplicit \/ ComputeUnprepared
    BY <2>1, <2>6, Computes
  <2> QED
    BY <2>3, <2>4, <2>5, <2>6
<1> QED
  BY <1>1, <1>2, Invariance, PTL DEF Spec

\* An evaluation on a graph built on the host meets a stale token only where a
\* rejected device build released the source schedule of a tiled plan.
THEOREM NeverStale == Spec => []HostNeverStale
<1>1. Init => HostNeverStale
  BY NeighborAssumption DEF Init, HostNeverStale
<1>2. NInv /\ HostNeverStale /\ [Next]_vars => HostNeverStale'
  <2> SUFFICES ASSUME NInv, HostNeverStale, [Next]_vars PROVE HostNeverStale'
    OBVIOUS
  <2>1. Served /\ TypeOK
    BY DEF NInv, Running
  <2>2. CASE StaleCell
    <3>1. cache # None /\ cache.dev # 0 /\ UNCHANGED cache
      BY <2>2 DEF StaleCell, Resident, python
    <3> QED
      BY <3>1 DEF HostNeverStale
  <2>3. CASE StaleTokens
    <3>1. /\ UNCHANGED <<cache, graph, setup>> /\ pc = "compute"
          /\ (FromPositions \/ Resident) /\ ~TokensCurrent
      BY <2>3 DEF StaleTokens, python, native, Raise
    <3>2. CASE ~Resident
      <4>1. token = graph.gen /\ token # 0 /\ geom.gen = token /\ cache # None
        BY <3>1, <3>2 DEF NInv, Running, TokenReady, GeometryReady
      <4>2. FixedWorkspace(graph.arrays) /\ ~graph.sched
        BY <3>1, <4>1 DEF TokensCurrent
      <4> QED
        BY <3>1, <4>1, <4>2 DEF HostNeverStale, FixedWorkspace, Mode, Field
    <3>3. CASE Resident
      BY <3>1, <3>3 DEF HostNeverStale, Resident
    <3> QED
      BY <3>2, <3>3
  <2>4. CASE Reconfigure
    <3>1. /\ UNCHANGED <<failure, cache, setup>> /\ graph'.arrays = graph.arrays
          /\ graph'.sched = graph.sched
      BY <2>1, <2>4, GraphFields DEF Reconfigure, python, TypeOK
    <3> QED
      BY <3>1 DEF HostNeverStale, FixedWorkspace, Mode, Field
  <2>5. CASE UNCHANGED vars
    BY <2>5 DEF vars, HostNeverStale, FixedWorkspace, Mode, Field
  <2>6. CASE Next /\ ~StaleCell /\ ~StaleTokens /\ ~Reconfigure
    <3>1. pc # "idle" => failure # "stale"
      BY <2>1, NeighborAssumption DEF Served
    <3>2. failure' # "stale"
      BY <2>6, <3>1, NeighborAssumption
         DEF Next, Move, Calculate, ExactList, Reuse, CellUpdate, BuildHost, BuildDevice, Rebuilt,
             BuildDeviceFails, BuildDeviceRejected, NoHostGeometry, Serve, Tune, DeviceToken,
             KnownGraph, NeedsGraph, PrepareGraph, PrepareGraphFails, TablesFail,
             PrepareGeometry, PrepareGeometryFails, UpdateCell, KeepGeometry, ShiftCacheless,
             ShiftMismatch, DeviceGeometry, ExplicitGeometry, ComputePositions,
             ComputeExplicit, ComputeUnprepared, Completed, Raise, Goto
    <3> QED
      BY <3>2 DEF HostNeverStale
  <2> QED
    BY <2>2, <2>3, <2>4, <2>5, <2>6
<1> QED
  BY <1>1, <1>2, Invariance, PTL DEF Spec
=============================================================================
