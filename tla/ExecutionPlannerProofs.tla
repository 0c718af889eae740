----------------------- MODULE ExecutionPlannerProofs -----------------------
(***************************************************************************)
(* Proofs about ExecutionPlanner for any graphs, costs, devices and        *)
(* configurations, and any number of preparations.                         *)
(***************************************************************************)
EXTENDS ExecutionPlanner, SequenceTheorems, TLAPS

-----------------------------------------------------------------------------
(***************************************************************************)
(* Counts and bytes                                                        *)
(***************************************************************************)
LEMMA Quotient ==
  ASSUME NEW r \in Nat, NEW b \in Nat \ {0}, NEW n \in Nat, n =< r \div b
  PROVE  n * b \in Nat /\ n * b =< r
  OBVIOUS

LEMMA Products ==
  ASSUME NEW m \in Nat, NEW n \in Nat
  PROVE  m * n \in Nat
  OBVIOUS

\* The counts of a graph.
LEMMA GraphFacts ==
  ASSUME NEW g \in Graphs
  PROVE  /\ Receivers(g) \in Nat /\ g.features \in Nat /\ g.segments \in Nat
         /\ Edges(g) \in Nat /\ TileEdges(g) \in Nat /\ TileRows(g) \in Nat
         /\ Receivers(g) =< g.features /\ g.features < MaxInt /\ Edges(g) < MaxInt
         /\ g.segments =< Edges(g) /\ TileEdges(g) =< Edges(g)
         /\ TileRows(g) =< Receivers(g) /\ (Receivers(g) > 0 => TileRows(g) > 0)
         /\ MaxInt \in Nat
<1>1. g \in [degrees : Seq(Nat), features : Nat, segments : Nat]
  BY GraphsAssumption
<1>2. Receivers(g) \in Nat
  BY <1>1 DEF Receivers
<1>3. Edges(g) \in Nat /\ TileEdges(g) \in Nat /\ TileEdges(g) =< Edges(g)
  BY SumsAssumption
<1>4. MaxInt \in Nat /\ Limit \in Nat /\ Limit # 0
  BY DeviceAssumption
<1>5. /\ TileRows(g) \in Nat /\ TileRows(g) =< Receivers(g)
      /\ (Receivers(g) > 0 => TileRows(g) > 0)
  BY <1>2, <1>4 DEF TileRows, Lowest
<1> QED
  BY <1>1, <1>2, <1>3, <1>4, <1>5, GraphsAssumption

\* The coefficients are bytes.
LEMMA CostFacts ==
  /\ Cost.base \in Nat /\ Cost.receiver \in Nat /\ Cost.adjoint \in Nat
  /\ Cost.feature \in Nat /\ Cost.edge \in Nat /\ Cost.geometry \in Nat
  /\ Cost.gradient \in Nat /\ Cost.tiledBase \in Nat /\ Cost.tiledReceiver \in Nat
  /\ Cost.tiledEdge \in Nat /\ Cost.tiledState \in Nat /\ Cost.tiledFeature \in Nat
  /\ Cost.workspaceRow \in Nat /\ Cost.workspaceEdge \in Nat /\ Cost.segment \in Nat
  BY CostAssumption

LEMMA BytesNat ==
  ASSUME NEW r \in Nat, NEW f \in Nat, NEW e \in Nat, NEW b \in BOOLEAN, NEW h \in BOOLEAN
  PROVE  /\ estimate_graph_bytes(r, f, e, b, h) \in Nat
         /\ estimate_geometry_bytes_per_edge(b, h) \in Nat
<1>1. PICK x \in Nat : x = IF b THEN Cost.receiver ELSE Cost.receiver + Cost.adjoint
  BY CostFacts
<1>2. PICK y \in Nat : y = GradientBytes(b)
  BY CostFacts DEF GradientBytes
<1>3. /\ r * x \in Nat /\ f * Cost.feature \in Nat /\ e * (Cost.edge + Cost.geometry) \in Nat
      /\ e * y \in Nat
  BY CostFacts, Products
<1> QED
  BY <1>1, <1>2, <1>3, CostFacts
     DEF estimate_graph_bytes, estimate_geometry_bytes_per_edge

LEMMA TiledNat ==
  ASSUME NEW g \in Graphs, NEW n \in Nat
  PROVE  estimate_tiled_graph_bytes(g, n) \in Nat
<1>1. /\ Receivers(g) * Cost.tiledReceiver \in Nat /\ Edges(g) * Cost.tiledEdge \in Nat
      /\ g.features * Cost.tiledState \in Nat /\ g.features * Cost.tiledFeature \in Nat
      /\ TileRows(g) * Cost.workspaceRow \in Nat /\ TileEdges(g) * Cost.workspaceEdge \in Nat
      /\ n * Cost.segment \in Nat
  BY GraphFacts, CostFacts, Products
<1> QED
  BY <1>1, CostFacts DEF estimate_tiled_graph_bytes

\* Fewer segments take no more bytes, and none without a second layer.
LEMMA TiledOrder ==
  ASSUME NEW g \in Graphs
  PROVE  /\ estimate_tiled_graph_bytes(g, g.segments) =< estimate_tiled_graph_bytes(g, Edges(g))
         /\ ~conf.dual => estimate_tiled_graph_bytes(g, g.segments)
                            = estimate_tiled_graph_bytes(g, Edges(g))
<1>1. g.segments * Cost.segment =< Edges(g) * Cost.segment
  BY GraphFacts, CostFacts
<1>2. PICK x \in Int : x = Cost.tiledBase + Receivers(g) * Cost.tiledReceiver
             + Edges(g) * Cost.tiledEdge
             + g.features * (IF conf.dual THEN Cost.tiledState ELSE Cost.tiledFeature)
             + TileRows(g) * Cost.workspaceRow + TileEdges(g) * Cost.workspaceEdge
  <2>1. /\ Receivers(g) * Cost.tiledReceiver \in Nat /\ Edges(g) * Cost.tiledEdge \in Nat
        /\ g.features * Cost.tiledState \in Nat /\ g.features * Cost.tiledFeature \in Nat
        /\ TileRows(g) * Cost.workspaceRow \in Nat
        /\ TileEdges(g) * Cost.workspaceEdge \in Nat
    BY GraphFacts, CostFacts, Products
  <2> QED
    BY <2>1, CostFacts
<1>3. \A n : estimate_tiled_graph_bytes(g, n) = x + (IF conf.dual THEN n * Cost.segment ELSE 0)
  BY <1>2 DEF estimate_tiled_graph_bytes
<1>4. g.segments * Cost.segment \in Nat /\ Edges(g) * Cost.segment \in Nat
  BY GraphFacts, CostFacts, Products
<1> QED
  BY <1>1, <1>3, <1>4

\* The estimates without and with gradients.
Plain(g, b) == Estimate(g, b, FALSE)
Graded(g, b) == Estimate(g, b, TRUE)

\* Gradients cost bytes.
LEMMA GradientOrder ==
  ASSUME NEW g \in Graphs, NEW b \in BOOLEAN
  PROVE  Plain(g, b) \in Nat /\ Graded(g, b) \in Nat /\ Plain(g, b) =< Graded(g, b)
<1>1. PICK y \in Nat : y = Edges(g) * GradientBytes(b)
  <2>1. GradientBytes(b) \in Nat
    BY CostFacts DEF GradientBytes
  <2> QED
    BY <2>1, GraphFacts, Products
<1>2. PICK x : x = Cost.base
         + Receivers(g) * (IF b THEN Cost.receiver ELSE Cost.receiver + Cost.adjoint)
         + g.features * Cost.feature + Edges(g) * (Cost.edge + Cost.geometry)
  OBVIOUS
<1>3. Graded(g, b) = x + y /\ Plain(g, b) = x + 0
  BY <1>1, <1>2 DEF Graded, Plain, Estimate, estimate_graph_bytes
<1>4. x \in Nat
  <2>1. PICK z \in Nat : z = IF b THEN Cost.receiver ELSE Cost.receiver + Cost.adjoint
    BY CostFacts
  <2>2. /\ Receivers(g) * z \in Nat /\ g.features * Cost.feature \in Nat
        /\ Edges(g) * (Cost.edge + Cost.geometry) \in Nat
    BY GraphFacts, CostFacts, Products
  <2> QED
    BY <1>2, <2>1, <2>2, CostFacts
<1> QED
  BY <1>3, <1>4

\* Multiples of one more.
LEMMA OneMore ==
  ASSUME NEW n \in Nat, NEW c \in Nat
  PROVE  (n + 1) * c = n * c + c
  OBVIOUS

\* The estimate of the capacity bundle.
BundleBytes(r, f, e, h) == estimate_graph_bytes(r, f, e, TRUE, h)

\* What one more edge, receiver or feature node costs in the bundle.
LEMMA Increments ==
  ASSUME NEW r \in Nat, NEW f \in Nat, NEW e \in Nat, NEW h \in BOOLEAN,
         NEW r1 \in Nat, NEW f1 \in Nat, NEW e1 \in Nat,
         r1 = r + 1, f1 = f + 1, e1 = e + 1
  PROVE  /\ BundleBytes(r, f, e1, h) - BundleBytes(r, f, e, h) \in Nat
         /\ BundleBytes(r, f1, e, h) - BundleBytes(r, f, e, h) = Cost.feature
         /\ BundleBytes(r1, f, e, h) - BundleBytes(r, f, e, h) = Cost.receiver
         /\ BundleBytes(r1, f1, e, h) - BundleBytes(r, f, e, h)
              = Cost.receiver + Cost.feature
<1>0. PICK w \in Nat : w = Cost.edge + Cost.geometry
  BY CostFacts
<1>1. PICK v \in Nat : v = IF h THEN GradientBytes(TRUE) ELSE 0
  BY CostFacts DEF GradientBytes
<1>2. \A k \in Nat : (IF h THEN k * GradientBytes(TRUE) ELSE 0) = k * v
  <2>1. CASE h
    BY <1>1, <2>1
  <2>2. CASE ~h
    <3>1. v = 0
      BY <1>1, <2>2
    <3>2. \A k \in Nat : k * v = 0
      BY <3>1
    <3> QED
      BY <2>2, <3>2
  <2> QED
    BY <2>1, <2>2
<1>3. PICK y \in Nat : y = e * v
  BY Products
<1>4. e1 * v = y + v
  BY <1>3, OneMore
<1>5. PICK x \in Nat : x = e * w
  BY Products
<1>6. e1 * w = x + w
  BY <1>5, OneMore
<1>7. PICK p \in Nat : p = r * Cost.receiver
  BY CostFacts, Products
<1>8. r1 * Cost.receiver = p + Cost.receiver
  BY <1>7, CostFacts, OneMore
<1>9. PICK q \in Nat : q = f * Cost.feature
  BY CostFacts, Products
<1>10. f1 * Cost.feature = q + Cost.feature
  BY <1>9, CostFacts, OneMore
<1>12. BundleBytes(r, f, e, h) = Cost.base + p + q + x + y
  BY <1>0, <1>2, <1>3, <1>5, <1>7, <1>9 DEF BundleBytes, estimate_graph_bytes
<1>13. BundleBytes(r, f, e1, h) = Cost.base + p + q + (x + w) + (y + v)
  BY <1>0, <1>2, <1>4, <1>6, <1>7, <1>9 DEF BundleBytes, estimate_graph_bytes
<1>14. BundleBytes(r, f1, e, h) = Cost.base + p + (q + Cost.feature) + x + y
  BY <1>0, <1>2, <1>3, <1>5, <1>7, <1>10 DEF BundleBytes, estimate_graph_bytes
<1>15. BundleBytes(r1, f, e, h) = Cost.base + (p + Cost.receiver) + q + x + y
  BY <1>0, <1>2, <1>3, <1>5, <1>8, <1>9 DEF BundleBytes, estimate_graph_bytes
<1>16. BundleBytes(r1, f1, e, h)
         = Cost.base + (p + Cost.receiver) + (q + Cost.feature) + x + y
  BY <1>0, <1>2, <1>3, <1>5, <1>8, <1>10 DEF BundleBytes, estimate_graph_bytes
<1>17. BundleBytes(r, f, e1, h) - BundleBytes(r, f, e, h)
         \in Nat
  BY <1>12, <1>13, CostFacts
<1>18. BundleBytes(r, f1, e, h) - BundleBytes(r, f, e, h)
         = Cost.feature
  BY <1>12, <1>14, CostFacts
<1>19. BundleBytes(r1, f, e, h) - BundleBytes(r, f, e, h)
         = Cost.receiver
  BY <1>12, <1>15, CostFacts
<1>20. BundleBytes(r1, f1, e, h)
         - BundleBytes(r, f, e, h) = Cost.receiver + Cost.feature
  BY <1>12, <1>16, CostFacts
<1> QED
  BY <1>17, <1>18, <1>19, <1>20

-----------------------------------------------------------------------------
(***************************************************************************)
(* Capacities                                                              *)
(***************************************************************************)
PlannedCounts == [receivers : Counts, features : Counts, edges : Counts]

LEMMA CountFacts ==
  /\ MaxInt \in Nat
  /\ \A n \in Nat : n \in Counts <=> n =< MaxInt
  /\ \A n \in Counts : n \in Nat /\ n =< MaxInt
  BY DeviceAssumption DEF Counts

LEMMA SlackFacts ==
  ASSUME NEW active \in Counts
  PROVE  DesiredSlack(active) \in Nat /\ active + DesiredSlack(active) =< MaxInt
<1>1. MinSlack \in Nat /\ Denominator \in Nat /\ Denominator # 0
  BY DeviceAssumption
<1>2. active \in Nat /\ active =< MaxInt /\ MaxInt \in Nat
  BY CountFacts
<1>3. PICK q \in Int : q = (active + Denominator - 1) \div Denominator
  BY <1>1, <1>2
<1>4. PICK m \in Nat : m = Highest(MinSlack, q)
  BY <1>1 DEF Highest
<1>5. DesiredSlack(active) = Lowest(m, MaxInt - active)
  BY <1>3, <1>4 DEF DesiredSlack
<1> QED
  BY <1>2, <1>5 DEF Lowest

\* No more than there was before, where that had the active count.
Capped(active, more, previous) == active =< previous => active + more =< previous

\* Admitted capacity fits what remains, and the int, and what there was before
\* where that had the active count.
LEMMA AdmitFacts ==
  ASSUME NEW active \in Counts, NEW previous \in Counts, NEW bytes \in Nat,
         NEW remaining \in Nat
  PROVE  /\ Admit(active, previous, bytes, remaining) \in Nat
         /\ active + Admit(active, previous, bytes, remaining) \in Counts
         /\ Admit(active, previous, bytes, remaining) * bytes \in Nat
         /\ Admit(active, previous, bytes, remaining) * bytes =< remaining
         /\ Capped(active, Admit(active, previous, bytes, remaining), previous)
<1>1. active \in Nat /\ previous \in Nat /\ active =< MaxInt /\ previous =< MaxInt
      /\ MaxInt \in Nat
  BY CountFacts
<1>2. PICK n \in Nat : n = Admit(active, previous, bytes, remaining)
                       /\ active + n =< MaxInt
                       /\ (n # 0 => bytes # 0 /\ n =< remaining \div bytes)
                       /\ (active =< previous => active + n =< previous)
  <2>1. CASE bytes = 0 \/ remaining < bytes
    BY <1>1, <2>1 DEF Admit
  <2>2. CASE ~(bytes = 0 \/ remaining < bytes)
    <3>1. PICK d \in Nat :
            /\ d = (IF previous >= active THEN previous ELSE active + DesiredSlack(active))
                     - active
            /\ active + d =< MaxInt
            /\ active =< previous => active + d =< previous
      <4>1. PICK m \in Nat : m = DesiredSlack(active) /\ active + m =< MaxInt
        BY SlackFacts
      <4>2. CASE previous >= active
        BY <1>1, <4>2
      <4>3. CASE ~(previous >= active)
        BY <1>1, <4>1, <4>3
      <4> QED
        BY <4>2, <4>3
    <3>2. PICK q \in Nat : q = remaining \div bytes
      BY <2>2
    <3>3. Admit(active, previous, bytes, remaining) = Lowest(d, q)
      BY <2>2, <3>1, <3>2 DEF Admit
    <3> QED
      BY <1>1, <2>2, <3>1, <3>2, <3>3 DEF Lowest
  <2> QED
    BY <2>1, <2>2
<1>3. n * bytes \in Nat /\ n * bytes =< remaining
  <2>1. CASE n = 0
    BY <2>1
  <2>2. CASE n # 0
    BY <1>2, <2>2, Quotient
  <2> QED
    BY <2>1, <2>2
<1>4. active + n \in Counts
  BY <1>1, <1>2, CountFacts
<1> QED
  BY <1>2, <1>3, <1>4 DEF Capped

\* HighWater with the bytes of an edge, a feature node and a receiver given.
Spread(previous, r, f, e, edgeBytes, featureBytes, receiverBytes, exact, available) ==
  LET remaining == Highest(available - exact, 0)
      edges == Admit(e, previous.edges, edgeBytes, remaining)
      left == remaining - edges * edgeBytes
      both == Admit(r, Lowest(previous.receivers, previous.features),
                    receiverBytes + featureBytes, left)
      receivers == IF r = f THEN both
                   ELSE Admit(r, previous.receivers, receiverBytes, left)
      features == IF r = f THEN both
                  ELSE Admit(f, previous.features, featureBytes,
                             left - receivers * receiverBytes)
  IN  [planned |-> [receivers |-> r + receivers, features |-> f + features,
                    edges |-> e + edges],
       geometry |-> e + edges,
       bytes |-> exact + edges * edgeBytes + receivers * receiverBytes
                 + features * featureBytes]

\* What a choice of capacities is for counts r, f and e.
Covers(c, r, f, e) ==
  /\ c.planned \in PlannedCounts /\ c.geometry \in Counts /\ c.bytes \in Nat
  /\ c.planned.receivers >= r /\ c.planned.features >= f /\ c.planned.edges >= e
  /\ c.geometry >= e

\* A graph within the capacities of before asks for no more than those.
Spared(c, previous, r, f, e) ==
  r =< previous.receivers /\ f =< previous.features /\ e =< previous.edges =>
    /\ c.planned.receivers =< previous.receivers
    /\ c.planned.features =< previous.features
    /\ c.planned.edges =< previous.edges

BothCapped(r, receivers, f, features, previous) ==
  r =< previous.receivers /\ f =< previous.features =>
    r + receivers =< previous.receivers /\ f + features =< previous.features

\* Capacities that keep a graph that fits within the budget.
Within(c, exact, available) == exact =< available => c.bytes =< available

LEMMA SpreadFacts ==
  ASSUME NEW previous \in PlannedCounts, NEW r \in Counts, NEW f \in Counts, NEW e \in Counts,
         NEW eb \in Nat, NEW fb \in Nat, NEW rb \in Nat, NEW exact \in Nat,
         NEW available \in Nat, NEW c,
         c = Spread(previous, r, f, e, eb, fb, rb, exact, available)
  PROVE  Covers(c, r, f, e) /\ Within(c, exact, available) /\ Spared(c, previous, r, f, e)
<1>0. /\ r \in Nat /\ f \in Nat /\ e \in Nat
      /\ previous.receivers \in Counts /\ previous.features \in Counts
      /\ previous.edges \in Counts /\ Lowest(previous.receivers, previous.features) \in Counts
  BY CountFacts DEF PlannedCounts, Lowest
<1>1. PICK remaining \in Nat : /\ remaining = Highest(available - exact, 0)
                               /\ exact =< available => exact + remaining = available
  BY DEF Highest
<1>2. PICK edges \in Nat : /\ edges = Admit(e, previous.edges, eb, remaining)
                           /\ e + edges \in Counts
                           /\ edges * eb \in Nat /\ edges * eb =< remaining
                           /\ Capped(e, edges, previous.edges)
  BY <1>0, AdmitFacts
<1>3. PICK x \in Nat : x = edges * eb /\ x =< remaining
  BY <1>2
<1>4. PICK left \in Nat : left = remaining - x
  BY <1>3
<1>5. PICK receivers \in Nat, features \in Nat, y \in Nat, z \in Nat :
        /\ receivers = IF r = f
                       THEN Admit(r, Lowest(previous.receivers, previous.features), rb + fb, left)
                       ELSE Admit(r, previous.receivers, rb, left)
        /\ y = receivers * rb
        /\ features = IF r = f
                      THEN Admit(r, Lowest(previous.receivers, previous.features), rb + fb, left)
                      ELSE Admit(f, previous.features, fb, left - y)
        /\ z = features * fb
        /\ r + receivers \in Counts /\ f + features \in Counts /\ y + z =< left
        /\ BothCapped(r, receivers, f, features, previous)
  <2>1. CASE r = f
    <3>1. PICK n \in Nat :
            /\ n = Admit(r, Lowest(previous.receivers, previous.features), rb + fb, left)
            /\ r + n \in Counts /\ n * (rb + fb) =< left
            /\ Capped(r, n, Lowest(previous.receivers, previous.features))
      <4>1. PICK l \in Counts : l = Lowest(previous.receivers, previous.features)
        BY <1>0
      <4>2. PICK b \in Nat : b = rb + fb
        OBVIOUS
      <4>3. PICK n \in Nat : /\ n = Admit(r, l, b, left) /\ r + n \in Counts
                             /\ n * b =< left /\ Capped(r, n, l)
        BY AdmitFacts
      <4> QED
        BY <4>1, <4>2, <4>3
    <3>2. PICK y \in Nat, z \in Nat : y = n * rb /\ z = n * fb
      BY Products
    <3>3. n * (rb + fb) = n * rb + n * fb
      OBVIOUS
    <3>4. y + z =< left
      BY <3>1, <3>2, <3>3
    <3>5. BothCapped(r, n, f, n, previous)
      <4>1. previous.receivers \in Nat /\ previous.features \in Nat
        BY <1>0, CountFacts
      <4>2. Capped(r, n, Lowest(previous.receivers, previous.features))
        BY <3>1
      <4> QED
        BY <1>0, <2>1, <4>1, <4>2 DEF Lowest, Capped, BothCapped
    <3> QED
      BY <2>1, <3>1, <3>2, <3>4, <3>5
  <2>2. CASE r # f
    <3>1. PICK n \in Nat, y \in Nat : /\ n = Admit(r, previous.receivers, rb, left)
                                     /\ r + n \in Counts /\ y = n * rb /\ y =< left
                                     /\ Capped(r, n, previous.receivers)
      BY <1>0, AdmitFacts
    <3>2. PICK rest \in Nat : rest = left - y
      BY <3>1
    <3>3. PICK m \in Nat, z \in Nat : /\ m = Admit(f, previous.features, fb, rest)
                                     /\ f + m \in Counts /\ z = m * fb /\ z =< rest
                                     /\ Capped(f, m, previous.features)
      BY <1>0, AdmitFacts
    <3>4. y + z =< left
      BY <3>2, <3>3
    <3>5. BothCapped(r, n, f, m, previous)
      BY <3>1, <3>3 DEF Capped, BothCapped
    <3> QED
      BY <2>2, <3>1, <3>2, <3>3, <3>4, <3>5
  <2> QED
    BY <2>1, <2>2
<1>6. Spread(previous, r, f, e, eb, fb, rb, exact, available) =
        [planned |-> [receivers |-> r + receivers, features |-> f + features,
                      edges |-> e + edges],
         geometry |-> e + edges, bytes |-> exact + x + y + z]
  BY <1>1, <1>2, <1>3, <1>4, <1>5 DEF Spread
<1>8. /\ c.planned \in PlannedCounts /\ c.geometry \in Counts
      /\ c.planned.receivers = r + receivers /\ c.planned.features = f + features
      /\ c.planned.edges = e + edges /\ c.geometry = e + edges
      /\ c.bytes = exact + x + y + z
  BY <1>2, <1>5, <1>6 DEF PlannedCounts
<1>9. exact + x + y + z \in Nat /\ (exact =< available => exact + x + y + z =< available)
  BY <1>1, <1>3, <1>4, <1>5
<1>10. /\ r + receivers >= r /\ f + features >= f /\ e + edges >= e
  BY <1>0
<1>11. Spared(c, previous, r, f, e)
  BY <1>2, <1>5, <1>8 DEF Spared, Capped, BothCapped
<1> QED
  BY <1>8, <1>9, <1>10, <1>11 DEF Covers, Within

LEMMA HighWaterFacts ==
  ASSUME NEW previous \in PlannedCounts, NEW g \in Graphs, NEW h \in BOOLEAN, NEW exact,
         exact = BundleBytes(Receivers(g), g.features, Edges(g), h), NEW available \in Nat,
         NEW c, c = HighWater(previous, g, h, exact, available)
  PROVE  /\ Covers(c, Receivers(g), g.features, Edges(g))
         /\ Within(c, exact, available)
         /\ Spared(c, previous, Receivers(g), g.features, Edges(g))
<1>1. PICK r \in Nat, f \in Nat, e \in Nat : r = Receivers(g) /\ f = g.features /\ e = Edges(g)
  BY GraphFacts
<1>2. r \in Counts /\ f \in Counts /\ e \in Counts
  BY <1>1, GraphFacts, CountFacts
<1>3. exact \in Nat
  <2>1. PICK b \in BOOLEAN : b = TRUE
    OBVIOUS
  <2>2. estimate_graph_bytes(r, f, e, b, h) \in Nat
    BY BytesNat
  <2>3. exact = estimate_graph_bytes(r, f, e, b, h)
    BY <1>1, <2>1, Zenon DEF BundleBytes
  <2> QED
    BY <2>2, <2>3
<1>4. exact = BundleBytes(r, f, e, h)
  BY <1>1
<1>5. PICK r1 \in Nat, f1 \in Nat, e1 \in Nat : r1 = r + 1 /\ f1 = f + 1 /\ e1 = e + 1
  OBVIOUS
<1>6. /\ BundleBytes(r, f, e1, h) - exact \in Nat
      /\ BundleBytes(r, f1, e, h) - exact = Cost.feature
      /\ BundleBytes(r1, f, e, h) - exact = Cost.receiver
      /\ BundleBytes(r1, f1, e, h) - exact = Cost.receiver + Cost.feature
  BY <1>4, <1>5, Increments
<1>7. PICK eb : eb = BundleBytes(r, f, e1, h) - exact
  OBVIOUS
<1>8. PICK fb : fb = BundleBytes(r, f1, e, h) - exact
  OBVIOUS
<1>9. PICK rb : rb = IF f = r THEN (BundleBytes(r1, f1, e, h) - exact) - fb
                     ELSE BundleBytes(r1, f, e, h) - exact
  OBVIOUS
<1>10. eb \in Nat /\ fb \in Nat /\ rb \in Nat
  <2>1. eb \in Nat /\ fb = Cost.feature
    BY <1>6, <1>7, <1>8, Zenon
  <2>2. rb = IF f = r THEN (Cost.receiver + Cost.feature) - Cost.feature ELSE Cost.receiver
    BY <1>6, <1>9, <2>1, Zenon
  <2> QED
    BY <2>1, <2>2, CostFacts
<1>11. HighWater(previous, g, h, exact, available)
         = Spread(previous, r, f, e, eb, fb, rb, exact, available)
  <2>1. HighWater(previous, g, h, exact, available) =
          Spread(previous, Receivers(g), g.features, Edges(g),
            BundleBytes(Receivers(g) + 0, g.features + 0, Edges(g) + 1, h) - exact,
            BundleBytes(Receivers(g) + 0, g.features + 1, Edges(g) + 0, h) - exact,
            IF g.features = Receivers(g)
            THEN (BundleBytes(Receivers(g) + 1, g.features + 1, Edges(g) + 0, h) - exact)
                 - (BundleBytes(Receivers(g) + 0, g.features + 1, Edges(g) + 0, h) - exact)
            ELSE BundleBytes(Receivers(g) + 1, g.features + 0, Edges(g) + 0, h) - exact,
            exact, available)
    BY Zenon DEF HighWater, Spread, BundleBytes
  <2>2. r + 0 = r /\ f + 0 = f /\ e + 0 = e
    OBVIOUS
  <2> QED
    BY <1>1, <1>5, <1>7, <1>8, <1>9, <2>1, <2>2
<1>12. PICK d : d = Spread(previous, r, f, e, eb, fb, rb, exact, available)
  OBVIOUS
<1>13. Covers(d, r, f, e) /\ Within(d, exact, available) /\ Spared(d, previous, r, f, e)
  BY <1>2, <1>3, <1>10, <1>12, SpreadFacts
<1>14. c = d
  BY <1>11, <1>12
<1> QED
  BY <1>1, <1>13, <1>14

LEMMA GeometricFacts ==
  ASSUME NEW e, e.geoCapacity \in Counts, NEW n \in Nat, n < MaxInt
  PROVE  GeometricCapacity(e, n) \in Counts /\ GeometricCapacity(e, n) >= n
<1>1. MaxInt \in Nat /\ e.geoCapacity \in Nat /\ e.geoCapacity =< MaxInt
  BY CountFacts
<1>2. PICK k \in Nat : k = e.geoCapacity /\ k =< MaxInt
  BY <1>1
<1>3. PICK half \in Nat : half = MaxInt \div 2 /\ 2 * half =< MaxInt
  BY <1>1
<1>4. PICK d \in Nat : d = (IF k > half THEN MaxInt ELSE 2 * k) /\ d =< MaxInt
  BY <1>1, <1>3
<1>5. GeometricCapacity(e, n) = IF n =< k THEN k ELSE Highest(n, Highest(1, d))
  BY <1>2, <1>3, <1>4 DEF GeometricCapacity
<1>6. GeometricCapacity(e, n) \in Nat /\ GeometricCapacity(e, n) =< MaxInt
      /\ GeometricCapacity(e, n) >= n
  BY <1>1, <1>2, <1>4, <1>5 DEF Highest
<1> QED
  BY <1>6, CountFacts

-----------------------------------------------------------------------------
(***************************************************************************)
(* The choice                                                              *)
(***************************************************************************)
YOnlyBytes(g) == Estimate(g, TRUE, FALSE)
RetainedBytes(g) == Estimate(g, TRUE, TRUE)
SpeedBytes(e, g) == Estimate(g, conf.bundle, SpeedRetains(e, Edges(g)))
TiledBytes(g) == estimate_tiled_graph_bytes(g, Edges(g))

\* The order of the estimates that the fall-back order relies on.
LEMMA PlanBytes ==
  ASSUME NEW e, NEW g \in Graphs, conf \in Configurations
  PROVE  /\ Estimates(e, g) = [speed |-> SpeedBytes(e, g), yOnly |-> YOnlyBytes(g),
                               retained |-> RetainedBytes(g), tiled |-> TiledBytes(g)]
         /\ YOnlyBytes(g) \in Nat /\ RetainedBytes(g) \in Nat /\ SpeedBytes(e, g) \in Nat
         /\ TiledBytes(g) \in Nat
         /\ YOnlyBytes(g) =< RetainedBytes(g)
         /\ conf.bundle => SpeedBytes(e, g) = IF SpeedRetains(e, Edges(g))
                                              THEN RetainedBytes(g) ELSE YOnlyBytes(g)
<1>1. Estimates(e, g) = [speed |-> SpeedBytes(e, g), yOnly |-> YOnlyBytes(g),
                         retained |-> RetainedBytes(g), tiled |-> TiledBytes(g)]
  BY Zenon DEF Estimates, SpeedBytes, YOnlyBytes, RetainedBytes, TiledBytes
<1>2. PICK t \in BOOLEAN : t = TRUE
  OBVIOUS
<1>3. YOnlyBytes(g) = Plain(g, t) /\ RetainedBytes(g) = Graded(g, t)
  BY <1>2, Zenon DEF YOnlyBytes, RetainedBytes, Plain, Graded
<1>4. /\ YOnlyBytes(g) \in Nat /\ RetainedBytes(g) \in Nat
      /\ YOnlyBytes(g) =< RetainedBytes(g)
  BY <1>3, GradientOrder
<1>5. conf.bundle \in BOOLEAN
  BY DEF Configurations
<1>6. PICK b \in BOOLEAN : b = conf.bundle
  BY <1>5
<1>7. PICK h \in BOOLEAN : h = SpeedRetains(e, Edges(g))
  BY DEF SpeedRetains
<1>8. SpeedBytes(e, g) = Estimate(g, b, h)
  BY <1>6, <1>7, Zenon DEF SpeedBytes
<1>9. SpeedBytes(e, g) = IF SpeedRetains(e, Edges(g)) THEN Graded(g, b) ELSE Plain(g, b)
  BY <1>7, <1>8, Zenon DEF Graded, Plain
<1>10. SpeedBytes(e, g) \in Nat
  BY <1>9, GradientOrder
<1>11. conf.bundle => SpeedBytes(e, g) = IF SpeedRetains(e, Edges(g))
                                        THEN RetainedBytes(g) ELSE YOnlyBytes(g)
  <2>1. conf.bundle => b = t
    BY <1>2, <1>5, <1>6
  <2> QED
    BY <1>3, <1>9, <2>1
<1>12. TiledBytes(g) \in Nat
  BY GraphFacts, TiledNat DEF TiledBytes
<1> QED
  BY <1>1, <1>4, <1>10, <1>11, <1>12

\* What a decision says of its plan.
Decided(d, g) ==
  /\ d.plan \in Plans /\ d.retains \in BOOLEAN /\ d.bundle \in BOOLEAN /\ d.exact \in Nat
  /\ d.plan = "tiled" => ~d.retains
  /\ d.bundle /\ d.plan # "tiled"
       => d.exact = BundleBytes(Receivers(g), g.features, Edges(g), d.retains)

LEMMA DecisionFacts ==
  ASSUME NEW e, NEW g \in Graphs, conf \in Configurations, NEW plan \in Plans, NEW d,
         d = Decision(e, g, plan)
  PROVE  /\ Decided(d, g) /\ d.plan = plan /\ d.exact = Estimates(e, g)[plan]
         /\ d.bundle = (plan # "speed" \/ conf.bundle)
<1>1. /\ d.plan = plan /\ d.exact = Estimates(e, g)[plan]
      /\ d.bundle = (plan # "speed" \/ conf.bundle) /\ d.retains = Retains(e, plan, g)
  BY DEF Decision
<1>2. PICK h \in BOOLEAN : h = Retains(e, plan, g)
  BY DEF Retains
<1>3. PICK b \in BOOLEAN : b = (plan # "speed" \/ conf.bundle)
  BY DEF Configurations
<1>4. d.retains = h /\ d.bundle = b
  BY <1>1, <1>2, <1>3, Zenon
<1>5. d.exact \in Nat
  BY <1>1, PlanBytes DEF Plans
<1>6. plan = "tiled" => h = FALSE
  BY <1>2 DEF Retains
<1>7. ASSUME b = TRUE, plan # "tiled"
      PROVE  d.exact = BundleBytes(Receivers(g), g.features, Edges(g), h)
  <2>1. CASE plan = "yOnly"
    <3>1. h = FALSE
      BY <1>2, <2>1 DEF Retains
    <3>2. d.exact = YOnlyBytes(g)
      BY <1>1, <2>1, PlanBytes
    <3> QED
      BY <3>1, <3>2, Zenon DEF YOnlyBytes, Estimate, BundleBytes
  <2>2. CASE plan = "retained"
    <3>1. h = TRUE
      BY <1>2, <2>2 DEF Retains
    <3>2. d.exact = RetainedBytes(g)
      BY <1>1, <2>2, PlanBytes
    <3> QED
      BY <3>1, <3>2, Zenon DEF RetainedBytes, Estimate, BundleBytes
  <2>3. CASE plan = "speed"
    <3>1. (h <=> SpeedRetains(e, Edges(g))) /\ conf.bundle
      <4>1. h <=> SpeedRetains(e, Edges(g))
        BY <1>2, <2>3 DEF Retains
      <4>2. conf.bundle
        BY <1>3, <1>7, <2>3
      <4> QED
        BY <4>1, <4>2
    <3>2. d.exact = SpeedBytes(e, g)
      BY <1>1, <2>3, PlanBytes
    <3>3. SpeedBytes(e, g) = IF h THEN RetainedBytes(g) ELSE YOnlyBytes(g)
      BY <3>1, PlanBytes
    <3>4. CASE h = TRUE
      BY <3>2, <3>3, <3>4, Zenon DEF RetainedBytes, Estimate, BundleBytes
    <3>5. CASE h = FALSE
      BY <3>2, <3>3, <3>5, Zenon DEF YOnlyBytes, Estimate, BundleBytes
    <3> QED
      BY <3>4, <3>5
  <2> QED
    BY <1>7, <2>1, <2>2, <2>3 DEF Plans
<1> QED
  BY <1>1, <1>4, <1>5, <1>6, <1>7 DEF Decided

\* Within a known budget the bundle takes the bytes of the graph alone.
Exactly(c, d, free) == free # Unknown /\ d.bundle => c.bytes = d.exact

\* No capacity beyond the graph.
Least(c, g) == c.planned.receivers = Receivers(g) /\ c.planned.features = g.features
               /\ c.planned.edges = Edges(g)

\* Without high water the geometry alone grows.
LEMMA GrowthFacts ==
  ASSUME NEW e, NEW g \in Graphs, NEW d, Decided(d, g), NEW free, NEW available \in Nat,
         NEW n \in Counts, n >= Edges(g), NEW c, c = Growth(e, g, d, free, available, n)
  PROVE  Covers(c, Receivers(g), g.features, Edges(g)) /\ Exactly(c, d, free) /\ Least(c, g)
<1>1. /\ Receivers(g) \in Nat /\ g.features \in Nat /\ Edges(g) \in Nat
      /\ Receivers(g) \in Counts /\ g.features \in Counts /\ Edges(g) \in Counts
  BY GraphFacts, CountFacts
<1>2. d.retains \in BOOLEAN /\ d.bundle \in BOOLEAN /\ d.exact \in Nat
  BY DEF Decided
<1>3. PICK y \in Nat : y = estimate_geometry_bytes_per_edge(d.bundle, d.retains)
  BY <1>1, <1>2, BytesNat
<1>4. PICK k \in Nat : k = n - Edges(g)
  BY <1>1, CountFacts
<1>5. PICK x \in Nat : x = k * y
  BY Products
<1>6. PICK grown \in Nat : grown = d.exact + x
  BY <1>2
<1>7. PICK grows \in BOOLEAN :
        /\ c = [planned |-> [receivers |-> Receivers(g), features |-> g.features,
                             edges |-> Edges(g)],
                geometry |-> IF grows THEN n ELSE Edges(g),
                bytes |-> IF grows THEN grown ELSE d.exact]
        /\ free # Unknown /\ d.bundle => ~grows
  <2>1. PICK b \in BOOLEAN :
          b = IF free = Unknown THEN d.plan # "tiled"
              ELSE ~ d.bundle /\ (Edges(g) =< e.geoCapacity \/ grown =< available)
    OBVIOUS
  <2>2. grown = d.exact + (n - Edges(g)) * estimate_geometry_bytes_per_edge(d.bundle, d.retains)
    BY <1>3, <1>4, <1>5, <1>6
  <2>3. c = [planned |-> [receivers |-> Receivers(g), features |-> g.features,
                          edges |-> Edges(g)],
             geometry |-> IF b THEN n ELSE Edges(g),
             bytes |-> IF b THEN grown ELSE d.exact]
    BY <2>1, <2>2, Zenon DEF Growth
  <2> QED
    BY <2>1, <2>3
<1>8. /\ c.planned = [receivers |-> Receivers(g), features |-> g.features, edges |-> Edges(g)]
      /\ c.geometry = (IF grows THEN n ELSE Edges(g))
      /\ c.bytes = (IF grows THEN grown ELSE d.exact)
  BY <1>7
<1>9. c.planned \in PlannedCounts /\ c.planned.receivers = Receivers(g)
      /\ c.planned.features = g.features /\ c.planned.edges = Edges(g)
  BY <1>1, <1>8 DEF PlannedCounts
<1>10. c.geometry \in Counts /\ c.geometry >= Edges(g) /\ c.bytes \in Nat
  BY <1>1, <1>2, <1>8
<1> QED
  BY <1>1, <1>7, <1>8, <1>9, <1>10 DEF Covers, Exactly, Least

LEMMA CapacityFacts ==
  ASSUME NEW e, e.geoCapacity \in Counts, NEW previous \in PlannedCounts, NEW g \in Graphs,
         NEW d, Decided(d, g), NEW free, NEW available \in Nat, NEW c,
         c = Capacities(e, previous, g, d, free, available)
  PROVE  /\ Covers(c, Receivers(g), g.features, Edges(g))
         /\ Spared(c, previous, Receivers(g), g.features, Edges(g))
         /\ d.plan = "tiled" => Least(c, g)
         /\ profile = "capacity" /\ free # Unknown /\ d.bundle =>
              /\ d.plan # "tiled" => Within(c, d.exact, available)
              /\ d.plan = "tiled" => c.bytes = d.exact
<1>1. CASE free # Unknown /\ profile = "capacity" /\ d.bundle /\ d.plan # "tiled"
  <2>1. c = HighWater(previous, g, d.retains, d.exact, available)
    BY <1>1 DEF Capacities
  <2>2. PICK h \in BOOLEAN : h = d.retains
    BY DEF Decided
  <2>3. PICK exact : exact = d.exact
    OBVIOUS
  <2>4. exact = BundleBytes(Receivers(g), g.features, Edges(g), h)
    BY <1>1, <2>2, <2>3 DEF Decided
  <2>5. c = HighWater(previous, g, h, exact, available)
    BY <2>1, <2>2, <2>3
  <2>6. /\ Covers(c, Receivers(g), g.features, Edges(g)) /\ Within(c, exact, available)
        /\ Spared(c, previous, Receivers(g), g.features, Edges(g))
    BY <2>4, <2>5, HighWaterFacts
  <2> QED
    BY <1>1, <2>3, <2>6
<1>2. CASE ~(free # Unknown /\ profile = "capacity" /\ d.bundle /\ d.plan # "tiled")
  <2>1. PICK n : n = GeometricCapacity(e, Edges(g))
    OBVIOUS
  <2>2. n \in Counts /\ n >= Edges(g)
    BY <2>1, GraphFacts, GeometricFacts
  <2>3. c = Growth(e, g, d, free, available, n)
    BY <1>2, <2>1 DEF Capacities
  <2>4. Covers(c, Receivers(g), g.features, Edges(g)) /\ Exactly(c, d, free) /\ Least(c, g)
    BY <2>2, <2>3, GrowthFacts
  <2>5. Spared(c, previous, Receivers(g), g.features, Edges(g))
    BY <2>4 DEF Least, Spared
  <2> QED
    BY <1>2, <2>4, <2>5 DEF Exactly
<1> QED
  BY <1>1, <1>2

-----------------------------------------------------------------------------
(***************************************************************************)
(* The evaluator and its arrays                                            *)
(***************************************************************************)
States == [ev : Evaluators, arrays : Extents]

\* An arena has the rows recorded for it, and while a geometry capacity is
\* recorded the geometry, the harmonics and the gradients are of one extent.
Stored(s) ==
  /\ s \in States
  /\ s.arrays.arena # 0 => s.arrays.arena = s.ev.arenaPlanned
  /\ s.ev.geoCapacity # 0 =>
       /\ s.arrays.geometry = s.arrays.Y
       /\ s.ev.harmonics = "retained" => s.arrays.gradient = s.arrays.Y

TiledYOnly(s) == s.ev.policy = "tiled" => s.ev.harmonics = "yOnly"

LEMMA ZeroCount == 0 \in Counts
  BY CountFacts

LEMMA StateParts ==
  ASSUME NEW s \in States
  PROVE  /\ s = [ev |-> s.ev, arrays |-> s.arrays]
         /\ s.ev \in Evaluators /\ s.arrays \in Extents
  BY DEF States

\* One state with other capacities, policies or arrays.
LEMMA StoredBy ==
  ASSUME NEW e \in Evaluators, NEW a \in Extents, NEW s, s = [ev |-> e, arrays |-> a],
         a.arena # 0 => a.arena = e.arenaPlanned,
         e.geoCapacity # 0 => /\ a.geometry = a.Y
                              /\ e.harmonics = "retained" => a.gradient = a.Y
  PROVE  Stored(s) /\ s.ev = e /\ s.arrays = a
<1>1. s \in States /\ s.ev = e /\ s.arrays = a
  BY DEF States
<1> QED
  BY <1>1 DEF Stored

LEMMA ReleasedFacts ==
  ASSUME NEW s, Stored(s)
  PROVE  /\ Stored(Released(s)) /\ Released(s).ev.bundle = s.ev.bundle
         /\ Released(s).ev.policy = s.ev.policy /\ Released(s).ev.harmonics = s.ev.harmonics
<1>1. s \in States /\ s.ev \in Evaluators /\ s.arrays \in Extents
  BY StateParts DEF Stored
<1>2. PICK n \in Nat : n = Highest(s.ev.selected - s.ev.schedule, 0)
  BY <1>1 DEF Highest, Evaluators
<1>3. PICK e : e = [s.ev EXCEPT !.selected = n, !.schedule = 0]
  OBVIOUS
<1>4. /\ e \in Evaluators /\ e.bundle = s.ev.bundle /\ e.policy = s.ev.policy
      /\ e.harmonics = s.ev.harmonics /\ e.geoCapacity = s.ev.geoCapacity
      /\ e.arenaPlanned = s.ev.arenaPlanned
  BY <1>1, <1>3 DEF Evaluators
<1>5. PICK t : t = Released(s)
  OBVIOUS
<1>6. t = [ev |-> e, arrays |-> s.arrays]
  <2>1. t = [s EXCEPT !.ev = e]
    BY <1>2, <1>3, <1>5, Zenon DEF Released
  <2> QED
    BY <1>1, <2>1 DEF States
<1>7. Stored(t) /\ t.ev = e
  BY <1>1, <1>4, <1>6, StoredBy DEF Stored
<1> QED
  BY <1>4, <1>5, <1>7

\* A change of policy keeps the bundle or the harmonics that it is not about.
LEMMA HarmonicsFacts ==
  ASSUME NEW s, Stored(s), NEW h \in {"retained", "yOnly"}, NEW t, t = select_harmonics(s, h)
  PROVE  Stored(t) /\ t.ev.harmonics = h /\ t.ev.bundle = s.ev.bundle
<1>1. s \in States /\ s.ev \in Evaluators /\ s.arrays \in Extents
  BY StateParts DEF Stored
<1>2. CASE h = s.ev.harmonics
  BY <1>2 DEF select_harmonics
<1>3. CASE h # s.ev.harmonics
  <2>1. PICK e : e = [NoCapacity(s.ev) EXCEPT !.harmonics = h]
    OBVIOUS
  <2>2. /\ e \in Evaluators /\ e.bundle = s.ev.bundle /\ e.harmonics = h
        /\ e.geoCapacity = 0 /\ e.arenaPlanned = s.ev.arenaPlanned
    BY <1>1, <2>1, ZeroCount DEF Evaluators, NoCapacity
  <2>3. PICK a : a = [s.arrays EXCEPT !.Y = 0, !.gradient = 0, !.geometry = 0]
    OBVIOUS
  <2>4. a \in Extents /\ a.arena = s.arrays.arena
    BY <1>1, <2>3, ZeroCount DEF Extents
  <2>5. t = [ev |-> e, arrays |-> a]
    BY <1>1, <1>3, <2>1, <2>3 DEF select_harmonics, States
  <2>6. Stored(t) /\ t.ev = e
    BY <2>2, <2>4, <2>5, StoredBy DEF Stored
  <2> QED
    BY <2>2, <2>6
<1> QED
  BY <1>2, <1>3

LEMMA GeometryPolicyFacts ==
  ASSUME NEW s, Stored(s), NEW b \in BOOLEAN, NEW t, t = set_edge_geometry_policy(s, b)
  PROVE  Stored(t) /\ t.ev.bundle = b /\ t.ev.harmonics = s.ev.harmonics
<1>1. s \in States /\ s.ev \in Evaluators /\ s.arrays \in Extents
  BY StateParts DEF Stored
<1>2. CASE conf.compact /\ b # s.ev.bundle
  <2>1. PICK e : e = [NoCapacity(s.ev) EXCEPT !.bundle = b]
    OBVIOUS
  <2>2. /\ e \in Evaluators /\ e.bundle = b /\ e.harmonics = s.ev.harmonics
        /\ e.geoCapacity = 0 /\ e.arenaPlanned = s.ev.arenaPlanned
    BY <1>1, <2>1, ZeroCount DEF Evaluators, NoCapacity
  <2>3. PICK a : a = [s.arrays EXCEPT !.geometry = 0]
    OBVIOUS
  <2>4. a \in Extents /\ a.arena = s.arrays.arena
    BY <1>1, <2>3, ZeroCount DEF Extents
  <2>5. t = [ev |-> e, arrays |-> a]
    BY <1>1, <1>2, <2>1, <2>3 DEF set_edge_geometry_policy, States
  <2>6. Stored(t) /\ t.ev = e
    BY <2>2, <2>4, <2>5, StoredBy DEF Stored
  <2> QED
    BY <2>2, <2>6
<1>3. CASE ~(conf.compact /\ b # s.ev.bundle)
  <2>1. PICK e : e = [s.ev EXCEPT !.bundle = b]
    OBVIOUS
  <2>2. /\ e \in Evaluators /\ e.bundle = b /\ e.harmonics = s.ev.harmonics
        /\ e.geoCapacity = s.ev.geoCapacity /\ e.arenaPlanned = s.ev.arenaPlanned
    BY <1>1, <2>1 DEF Evaluators
  <2>3. t = [ev |-> e, arrays |-> s.arrays]
    BY <1>1, <1>3, <2>1 DEF set_edge_geometry_policy, States
  <2>4. Stored(t) /\ t.ev = e
    BY <1>1, <2>2, <2>3, StoredBy DEF Stored
  <2> QED
    BY <2>2, <2>4
<1> QED
  BY <1>2, <1>3

LEMMA PolicyFacts ==
  ASSUME NEW s, Stored(s), NEW b \in BOOLEAN, NEW h \in {"retained", "yOnly"}, NEW t,
         t = apply_low_memory_policy(s, b, h)
  PROVE  Stored(t) /\ t.ev.bundle = b /\ t.ev.harmonics = h
<1>1. PICK u : u = set_edge_geometry_policy(s, b)
  OBVIOUS
<1>2. Stored(u) /\ u.ev.bundle = b
  BY <1>1, GeometryPolicyFacts
<1>3. t = select_harmonics(u, h)
  BY <1>1 DEF apply_low_memory_policy
<1> QED
  BY <1>2, <1>3, HarmonicsFacts

LEMMA RetainedFacts ==
  ASSUME NEW s, Stored(s), NEW t, t = retained_harmonics(s)
  PROVE  Stored(t)
<1>1. s \in States /\ s.ev \in Evaluators /\ s.arrays \in Extents
  BY StateParts DEF Stored
<1>2. PICK e : e = [NoCapacity(s.ev) EXCEPT !.harmonics = "retained"]
  OBVIOUS
<1>3. e \in Evaluators /\ e.geoCapacity = 0 /\ e.arenaPlanned = s.ev.arenaPlanned
  BY <1>1, <1>2, ZeroCount DEF Evaluators, NoCapacity
<1>4. PICK a : a = [s.arrays EXCEPT !.Y = 0, !.gradient = 0]
  OBVIOUS
<1>5. a \in Extents /\ a.arena = s.arrays.arena
  BY <1>1, <1>4, ZeroCount DEF Extents
<1>6. t = [ev |-> e, arrays |-> a]
  BY <1>1, <1>2, <1>4 DEF retained_harmonics, States
<1> QED
  BY <1>3, <1>5, <1>6, StoredBy DEF Stored

\* A request leaves no plan selected, and capacity the bundle.
LEMMA LowMemoryFacts ==
  ASSUME NEW s, Stored(s), conf \in Configurations, NEW enabled \in BOOLEAN, NEW t,
         t = set_low_memory(s, enabled)
  PROVE  /\ Stored(t) /\ t.ev.policy = "pending"
         /\ enabled => t.ev.bundle
<1>0. PICK yes \in BOOLEAN, no \in BOOLEAN : yes = TRUE /\ no = FALSE
  OBVIOUS
<1>1. PICK r : r = apply_low_memory_policy(s, yes, "retained")
  OBVIOUS
<1>2. Stored(r) /\ r.ev.bundle = yes
  BY <1>1, PolicyFacts
<1>3. PICK u : u = IF ~ enabled
                   THEN apply_low_memory_policy(
                          retained_harmonics(apply_low_memory_policy(s, no, "retained")),
                          conf.bundle, "retained")
                   ELSE IF y_only_admitted(r.ev) THEN apply_low_memory_policy(r, yes, "yOnly")
                   ELSE r
  OBVIOUS
<1>4. Stored(u) /\ (enabled => u.ev.bundle)
  <2>1. CASE ~ enabled
    <3>1. PICK x : x = apply_low_memory_policy(s, no, "retained")
      OBVIOUS
    <3>2. PICK y : y = retained_harmonics(x)
      OBVIOUS
    <3>3. Stored(y)
      BY <3>1, <3>2, PolicyFacts, RetainedFacts
    <3>4. u = apply_low_memory_policy(y, conf.bundle, "retained")
      BY <1>3, <2>1, <3>1, <3>2
    <3>5. conf.bundle \in BOOLEAN
      BY DEF Configurations
    <3> QED
      BY <2>1, <3>3, <3>4, <3>5, PolicyFacts
  <2>2. CASE enabled /\ y_only_admitted(r.ev)
    <3>1. u = apply_low_memory_policy(r, yes, "yOnly")
      BY <1>3, <2>2
    <3>2. Stored(u) /\ u.ev.bundle = yes
      BY <1>2, <3>1, PolicyFacts
    <3> QED
      BY <1>0, <3>2
  <2>3. CASE enabled /\ ~y_only_admitted(r.ev)
    BY <1>0, <1>2, <1>3, <2>3
  <2> QED
    BY <2>1, <2>2, <2>3
<1>5. u \in States /\ u.ev \in Evaluators /\ u.arrays \in Extents
  BY <1>4, StateParts DEF Stored
<1>6. PICK e : e = [u.ev EXCEPT !.selected = 0, !.policy = "pending"]
  OBVIOUS
<1>7. /\ e \in Evaluators /\ e.bundle = u.ev.bundle /\ e.policy = "pending"
      /\ e.harmonics = u.ev.harmonics /\ e.geoCapacity = u.ev.geoCapacity
      /\ e.arenaPlanned = u.ev.arenaPlanned
  BY <1>5, <1>6 DEF Evaluators
<1>8. t = [ev |-> e, arrays |-> u.arrays]
  <2>1. t = [u EXCEPT !.ev = e]
    <3>1. t = [u EXCEPT !.ev = [u.ev EXCEPT !.selected = 0, !.policy = "pending"]]
      BY <1>0, <1>1, <1>3, Zenon DEF set_low_memory
    <3> QED
      BY <1>6, <3>1
  <2> QED
    BY <1>5, <2>1 DEF States
<1>9. Stored(t) /\ t.ev = e
  BY <1>4, <1>5, <1>7, <1>8, StoredBy DEF Stored
<1> QED
  BY <1>4, <1>7, <1>9

-----------------------------------------------------------------------------
(***************************************************************************)
(* A preparation, step by step                                             *)
(***************************************************************************)
Answers == FreeBytes \cup {Unknown}

LEMMA AvailableFacts ==
  ASSUME NEW e, e.selected \in Nat, NEW free \in Answers
  PROVE  Available(e, free) \in Nat
<1>1. /\ Total \in Nat /\ MinReserve \in Nat /\ ReserveShare \in Nat /\ ReserveShare # 0
      /\ FreeBytes \subseteq 0 .. Total
  BY DeviceAssumption
<1>2. PICK q \in Int : q = Total \div ReserveShare
  BY <1>1
<1>3. Reserve \in Int
  BY <1>1, <1>2 DEF Reserve, Highest
<1>4. CASE free = Unknown
  BY <1>4 DEF Available
<1>5. CASE free # Unknown
  <2>1. free \in Nat
    BY <1>1, <1>5 DEF Answers
  <2>2. PICK m \in Int : m = IF e.selected > Total - free THEN Total ELSE free + e.selected
    BY <1>1, <2>1
  <2>3. Available(e, free) = Highest(m - Reserve, 0)
    BY <1>5, <2>2 DEF Available
  <2> QED
    BY <1>3, <2>3 DEF Highest
<1> QED
  BY <1>4, <1>5

\* The fixed workspace is tried, and takes less than the bundle.
FixedTried(e, g, free) ==
  /\ allowFixed /\ tiled_admitted(e)
  /\ Estimates(e, g).yOnly > Available(e, free)
  /\ Estimates(e, g).tiled < Estimates(e, g).yOnly

SpeedFits(e, g, free) == Estimates(e, g).speed =< Available(e, free)

\* The order of the choice.
LEMMA ChooseCases ==
  ASSUME NEW e, NEW g, NEW free, NEW x, x = Choose(e, g, free)
  PROVE  \/ debug # "none" /\ x = debug
         \/ debug = "none" /\ profile = "speed" /\ x = "speed"
         \/ debug = "none" /\ free = Unknown /\ x = selected_capacity_policy(e)
         \/ debug = "none" /\ SpeedFits(e, g, free) /\ x = "speed"
         \/ debug = "none" /\ ~SpeedFits(e, g, free) /\ FixedTried(e, g, free) /\ x = "tiled"
         \/ debug = "none" /\ ~SpeedFits(e, g, free) /\ ~FixedTried(e, g, free)
            /\ x = selected_capacity_policy(e)
  BY Zenon DEF Choose, SpeedFits, FixedTried

LEMMA ChooseFacts ==
  ASSUME NEW e, NEW g, NEW free, debug \in Plans \cup {"none"}
  PROVE  Choose(e, g, free) \in Plans
<1>1. selected_capacity_policy(e) \in Plans
  BY DEF selected_capacity_policy, Plans
<1> QED
  BY <1>1, ChooseCases DEF Plans

\* The bytes that a capacity request is charged for its plan.
Charged(t, d, available) ==
  /\ d.exact =< available => t.ev.selected =< available
  /\ d.plan = "tiled" => t.ev.selected = d.exact

\* The planner's part: policy, capacities and estimate of plan d.
LEMMA SelectFacts ==
  ASSUME NEW s, Stored(s), NEW g \in Graphs, conf \in Configurations, NEW d, Decided(d, g),
         NEW free \in Answers, NEW t, t = SelectDecision(s, g, free, d)
  PROVE  /\ Stored(t) /\ TiledYOnly(t) /\ t.ev.policy = d.plan /\ t.ev.bundle = d.bundle
         /\ profile = "capacity" /\ free # Unknown /\ d.bundle
              => Charged(t, d, Available(s.ev, free))
<1>1. s.ev \in Evaluators /\ s.ev.selected \in Nat /\ s.ev.planned \in PlannedCounts
  BY StateParts DEF Stored, Evaluators, PlannedCounts
<1>2. PICK available \in Nat : available = Available(s.ev, free)
  BY <1>1, AvailableFacts
<1>3. PICK h \in {"retained", "yOnly"} : h = IF d.retains THEN "retained" ELSE "yOnly"
  OBVIOUS
<1>4. PICK u : u = apply_low_memory_policy(s, d.bundle, h)
  OBVIOUS
<1>5. d.bundle \in BOOLEAN /\ d.plan \in Plans /\ (d.plan = "tiled" => h = "yOnly")
  BY <1>3 DEF Decided
<1>6. Stored(u) /\ u.ev.bundle = d.bundle /\ u.ev.harmonics = h
  BY <1>4, <1>5, PolicyFacts
<1>7. u \in States /\ u.ev \in Evaluators /\ u.arrays \in Extents /\ u.ev.geoCapacity \in Counts
  BY <1>6, StateParts DEF Stored, Evaluators
<1>8. PICK c : c = Capacities(u.ev, s.ev.planned, g, d, free, available)
  OBVIOUS
<1>9. /\ Covers(c, Receivers(g), g.features, Edges(g))
      /\ profile = "capacity" /\ free # Unknown /\ d.bundle =>
              /\ d.plan # "tiled" => Within(c, d.exact, available)
              /\ d.plan = "tiled" => c.bytes = d.exact
  BY <1>1, <1>7, <1>8, CapacityFacts
<1>10. PICK e : e = [u.ev EXCEPT !.policy = d.plan, !.planned = c.planned,
                                 !.geoPlanned = c.geometry, !.selected = c.bytes]
  OBVIOUS
<1>11. c.planned \in PlannedCounts /\ c.geometry \in Counts /\ c.bytes \in Nat
  BY <1>9 DEF Covers
<1>12. /\ e \in Evaluators /\ e.policy = d.plan /\ e.bundle = u.ev.bundle
       /\ e.harmonics = u.ev.harmonics /\ e.selected = c.bytes
       /\ e.geoCapacity = u.ev.geoCapacity /\ e.arenaPlanned = u.ev.arenaPlanned
  BY <1>5, <1>7, <1>10, <1>11 DEF Evaluators, PlannedCounts
<1>13. t = [ev |-> e, arrays |-> u.arrays]
  <2>1. t = WithCapacities(u, d.plan, c)
    BY <1>2, <1>3, <1>4, <1>8, Zenon DEF SelectDecision, SelectAs, ApplyDecision
  <2>2. t = [u EXCEPT !.ev = e]
    BY <1>10, <2>1, Zenon DEF WithCapacities
  <2> QED
    BY <1>7, <2>2 DEF States
<1>14. Stored(t) /\ t.ev = e
  BY <1>6, <1>7, <1>12, <1>13, StoredBy DEF Stored
<1>15. TiledYOnly(t)
  BY <1>5, <1>6, <1>12, <1>14 DEF TiledYOnly
<1>16. ASSUME profile = "capacity" /\ free # Unknown /\ d.bundle
       PROVE  Charged(t, d, available)
  <2>1. /\ d.plan # "tiled" => Within(c, d.exact, available)
        /\ d.plan = "tiled" => c.bytes = d.exact
    BY <1>9, <1>16
  <2> QED
    BY <1>12, <1>14, <2>1 DEF Charged, Within
<1> QED
  BY <1>2, <1>6, <1>12, <1>14, <1>15, <1>16

\* The schedule replaces the estimate of the tiled plan of a two-layer model.
LEMMA ScheduledFacts ==
  ASSUME NEW s, Stored(s), TiledYOnly(s), NEW g \in Graphs, NEW t, t = Scheduled(s, g)
  PROVE  /\ Stored(t) /\ TiledYOnly(t) /\ t.ev.policy = s.ev.policy
         /\ t.ev.bundle = s.ev.bundle
         /\ t.ev.selected = IF s.ev.policy = "tiled" /\ conf.dual
                            THEN estimate_tiled_graph_bytes(g, g.segments) ELSE s.ev.selected
<1>1. CASE s.ev.policy = "tiled" /\ conf.dual
  <2>1. s \in States /\ s.ev \in Evaluators /\ s.arrays \in Extents
    BY StateParts DEF Stored
  <2>2. PICK m \in Nat : m = g.segments * Cost.segment
    BY GraphFacts, CostFacts, Products
  <2>3. PICK n \in Nat : n = estimate_tiled_graph_bytes(g, g.segments)
    BY GraphFacts, TiledNat
  <2>4. PICK e : e = [s.ev EXCEPT !.schedule = m, !.selected = n]
    OBVIOUS
  <2>5. /\ e \in Evaluators /\ e.policy = s.ev.policy /\ e.bundle = s.ev.bundle
        /\ e.harmonics = s.ev.harmonics /\ e.selected = n
        /\ e.geoCapacity = s.ev.geoCapacity /\ e.arenaPlanned = s.ev.arenaPlanned
    BY <2>1, <2>4 DEF Evaluators
  <2>6. t = [ev |-> e, arrays |-> s.arrays]
    <3>1. t = [s EXCEPT !.ev = [s.ev EXCEPT !.schedule = g.segments * Cost.segment,
                 !.selected = estimate_tiled_graph_bytes(g, g.segments)]]
      BY <1>1, Zenon DEF Scheduled
    <3>2. t = [s EXCEPT !.ev = e]
      BY <2>2, <2>3, <2>4, <3>1, Zenon
    <3> QED
      BY <2>1, <3>2 DEF States
  <2>7. Stored(t) /\ t.ev = e
    BY <2>1, <2>5, <2>6, StoredBy DEF Stored
  <2> QED
    BY <1>1, <2>3, <2>5, <2>7 DEF TiledYOnly
<1>2. CASE ~(s.ev.policy = "tiled" /\ conf.dual)
  BY <1>2 DEF Scheduled
<1> QED
  BY <1>1, <1>2

\* What the steps after the choice leave of the evaluator.
Kept(s, t) ==
  /\ t.ev.policy = s.ev.policy /\ t.ev.bundle = s.ev.bundle
  /\ t.ev.harmonics = s.ev.harmonics /\ t.ev.selected = s.ev.selected

LEMMA NoViewFacts == NoView \in Views /\ NoView.rows = 0
  BY ZeroCount DEF NoView, Views

LEMMA GraphCounts ==
  ASSUME NEW g \in Graphs
  PROVE  /\ Receivers(g) \in Counts /\ g.features \in Counts /\ Edges(g) \in Counts
         /\ TileEdges(g) \in Counts /\ TileRows(g) \in Counts
  BY GraphFacts, CountFacts

LEMMA HighestFacts ==
  ASSUME NEW m \in Counts, NEW n \in Counts
  PROVE  /\ Highest(m, n) \in Counts /\ Highest(m, n) \in Nat /\ m \in Nat /\ n \in Nat
         /\ Highest(m, n) >= m /\ Highest(m, n) >= n
  BY CountFacts DEF Highest

LEMMA TileHighFacts ==
  ASSUME NEW s, Stored(s), NEW g \in Graphs, NEW t, t = TileHigh(s, g)
  PROVE  /\ Stored(t) /\ Kept(s, t) /\ t.ev.tileEdges >= TileEdges(g)
         /\ t.arrays = s.arrays /\ t.ev.tileEdges \in Counts
<1>1. s \in States /\ s.ev \in Evaluators /\ s.arrays \in Extents /\ s.ev.tileEdges \in Counts
  BY StateParts DEF Stored, Evaluators
<1>2. PICK n \in Counts : n = Highest(s.ev.tileEdges, TileEdges(g)) /\ n >= TileEdges(g)
  BY <1>1, GraphCounts, HighestFacts
<1>3. PICK e : e = [s.ev EXCEPT !.tileEdges = n]
  OBVIOUS
<1>4. /\ e \in Evaluators /\ e.policy = s.ev.policy /\ e.bundle = s.ev.bundle
      /\ e.harmonics = s.ev.harmonics /\ e.selected = s.ev.selected /\ e.tileEdges = n
      /\ e.geoCapacity = s.ev.geoCapacity /\ e.arenaPlanned = s.ev.arenaPlanned
  BY <1>1, <1>3 DEF Evaluators
<1>5. t = [ev |-> e, arrays |-> s.arrays]
  <2>1. t = [s EXCEPT !.ev = e]
    BY <1>2, <1>3, Zenon DEF TileHigh
  <2> QED
    BY <1>1, <2>1 DEF States
<1>6. Stored(t) /\ t.ev = e /\ t.arrays = s.arrays
  BY <1>1, <1>4, <1>5, StoredBy DEF Stored
<1> QED
  BY <1>2, <1>4, <1>6 DEF Kept

\* The workspace of a tiled plan holds the largest batch.
Housed(s, g) ==
  /\ s.arrays.arena >= TileRows(g)
  /\ conf.dual => s.arrays.graphH1 >= g.features /\ s.arrays.local >= s.ev.tileEdges

LEMMA FitsHoused ==
  ASSUME NEW s, Stored(s), NEW g \in Graphs, WorkspaceFits(s, g)
  PROVE  Housed(s, g)
<1>1. s.arrays.arena \in Nat /\ s.ev.arenaPlanned \in Nat
  BY StateParts, CountFacts DEF Stored, Evaluators, Extents
<1> QED
  BY <1>1 DEF WorkspaceFits, ArenaFits, Housed, Stored

\* How far an allocation of the workspace gets.
Stages == 0 .. 3
Finished(n) == n = 3

LEMMA WorkspaceStepFacts ==
  ASSUME NEW s, Stored(s), NEW g \in Graphs, NEW n \in Stages, NEW t,
         t = WorkspaceSteps(s, g, n)
  PROVE  /\ Stored(t) /\ Kept(s, t) /\ t.ev.tileEdges = s.ev.tileEdges
         /\ Finished(n) => Housed(t, g)
<1> n \in 0 .. 3
  BY DEF Stages
<1>1. s \in States /\ s.ev \in Evaluators /\ s.arrays \in Extents
  BY StateParts DEF Stored
<1>2. PICK grows \in BOOLEAN : grows = ~ArenaFits(s, g)
  BY DEF ArenaFits
<1>3. /\ s.ev.arenaPlanned \in Counts /\ s.arrays.arena \in Counts /\ s.ev.tileEdges \in Counts
      /\ s.arrays.graphH1 \in Counts /\ s.arrays.local \in Counts /\ s.arrays.A1 \in Views
  BY <1>1 DEF Evaluators, Extents
<1>4. PICK p \in Counts : p = IF grows /\ n > 0 THEN TileRows(g) ELSE s.ev.arenaPlanned
  BY <1>3, GraphCounts
<1>5. PICK x \in Counts : x = IF ~grows THEN s.arrays.arena
                              ELSE IF n > 0 THEN TileRows(g) ELSE 0
  BY <1>3, GraphCounts, ZeroCount
<1>6. PICK h \in Counts : /\ h = IF conf.dual /\ n > 1 THEN Highest(s.arrays.graphH1, g.features)
                                 ELSE s.arrays.graphH1
                          /\ conf.dual /\ n = 3 => h >= g.features
  BY <1>3, GraphCounts, HighestFacts
<1>7. PICK l \in Counts : /\ l = IF conf.dual /\ n > 2
                                 THEN Highest(s.arrays.local, s.ev.tileEdges)
                                 ELSE s.arrays.local
                          /\ conf.dual /\ n = 3 => l >= s.ev.tileEdges
  BY <1>3, HighestFacts
<1>8. PICK v \in Views : v = IF conf.dual THEN NoView ELSE s.arrays.A1
  BY <1>3, NoViewFacts
<1>9. PICK e : e = [s.ev EXCEPT !.arenaPlanned = p]
  OBVIOUS
<1>10. /\ e \in Evaluators /\ e.policy = s.ev.policy /\ e.bundle = s.ev.bundle
       /\ e.harmonics = s.ev.harmonics /\ e.selected = s.ev.selected
       /\ e.tileEdges = s.ev.tileEdges
       /\ e.geoCapacity = s.ev.geoCapacity /\ e.arenaPlanned = p
  BY <1>1, <1>9 DEF Evaluators
<1>11. PICK a : a = [s.arrays EXCEPT !.A0 = NoView, !.A1 = v, !.arena = x, !.graphH1 = h,
                                     !.local = l]
  OBVIOUS
<1>12. /\ a \in Extents /\ a.arena = x /\ a.graphH1 = h /\ a.local = l
       /\ a.geometry = s.arrays.geometry /\ a.Y = s.arrays.Y /\ a.gradient = s.arrays.gradient
  BY <1>1, <1>11, NoViewFacts DEF Extents
<1>13. t = [ev |-> e, arrays |-> a]
  <2>1. t = [s EXCEPT !.ev = e, !.arrays = a]
    BY <1>2, <1>4, <1>5, <1>6, <1>7, <1>8, <1>9, <1>11, Zenon DEF WorkspaceSteps
  <2> QED
    BY <1>1, <2>1 DEF States
<1>14. a.arena # 0 => a.arena = e.arenaPlanned
  BY <1>4, <1>5, <1>10, <1>12 DEF Stored
<1>15. Stored(t) /\ t.ev = e /\ t.arrays = a
  BY <1>10, <1>12, <1>13, <1>14, StoredBy DEF Stored
<1>16. n = 3 => x >= TileRows(g)
  <2>1. CASE grows
    BY <1>5, <2>1, GraphFacts
  <2>2. CASE ~grows
    <3>1. s.arrays.arena > 0 /\ s.ev.arenaPlanned >= TileRows(g)
      BY <1>2, <2>2 DEF ArenaFits
    <3>2. s.arrays.arena = s.ev.arenaPlanned
      BY <1>3, <3>1, CountFacts DEF Stored
    <3> QED
      BY <1>5, <2>2, <3>1, <3>2
  <2> QED
    BY <2>1, <2>2
<1>17. n = 3 => Housed(t, g)
  BY <1>6, <1>7, <1>10, <1>12, <1>15, <1>16 DEF Housed
<1> QED
  BY <1>10, <1>15, <1>17 DEF Kept, Finished

LEMMA BoundFacts ==
  ASSUME NEW s, Stored(s), NEW g \in Graphs, NEW t, t = Bound(s, g)
  PROVE  /\ Stored(t) /\ t.ev = s.ev /\ t.arrays.arena = s.arrays.arena
         /\ t.arrays.graphH1 = s.arrays.graphH1 /\ t.arrays.local = s.arrays.local
<1>1. s \in States /\ s.ev \in Evaluators /\ s.arrays \in Extents
  BY StateParts DEF Stored
<1>2. PICK v \in Views : v = [home |-> "arena", rows |-> TileRows(g)]
  BY GraphCounts DEF Views
<1>3. PICK a : a = [s.arrays EXCEPT !.A0 = v]
  OBVIOUS
<1>4. /\ a \in Extents /\ a.arena = s.arrays.arena /\ a.graphH1 = s.arrays.graphH1
      /\ a.local = s.arrays.local
      /\ a.geometry = s.arrays.geometry /\ a.Y = s.arrays.Y /\ a.gradient = s.arrays.gradient
  BY <1>1, <1>3 DEF Extents
<1>5. t = [ev |-> s.ev, arrays |-> a]
  <2>1. t = [s EXCEPT !.arrays = a]
    BY <1>2, <1>3, Zenon DEF Bound
  <2> QED
    BY <1>1, <2>1 DEF States
<1>6. Stored(t) /\ t.ev = s.ev /\ t.arrays = a
  BY <1>1, <1>4, <1>5, StoredBy DEF Stored
<1> QED
  BY <1>4, <1>6

\* After the workspace is prepared, a tiled plan is housed.
LEMMA WorkspaceFacts ==
  ASSUME NEW s, Stored(s), NEW g \in Graphs, NEW t, t = Workspace(s, g)
  PROVE  /\ Stored(t) /\ Kept(s, t)
         /\ s.ev.policy = "tiled" => Housed(t, g) /\ t.ev.tileEdges >= TileEdges(g)
<1>1. CASE s.ev.policy # "tiled"
  BY <1>1 DEF Workspace, Kept
<1>2. CASE s.ev.policy = "tiled"
  <2>1. PICK u : u = TileHigh(s, g)
    OBVIOUS
  <2>2. Stored(u) /\ Kept(s, u) /\ u.ev.tileEdges >= TileEdges(g)
    BY <2>1, TileHighFacts
  <2>3. CASE ~WorkspaceFits(u, g)
    <3>0. PICK n \in Stages : n = 3 /\ Finished(n)
      BY DEF Stages, Finished
    <3>1. PICK w : w = WorkspaceSteps(u, g, n)
      OBVIOUS
    <3>2. Stored(w) /\ Kept(u, w) /\ w.ev.tileEdges = u.ev.tileEdges /\ Housed(w, g)
      BY <2>2, <3>0, <3>1, WorkspaceStepFacts
    <3>3. t = Bound(w, g)
      BY <1>2, <2>1, <2>3, <3>0, <3>1 DEF Workspace
    <3>4. /\ Stored(t) /\ t.ev = w.ev /\ t.arrays.arena = w.arrays.arena
          /\ t.arrays.graphH1 = w.arrays.graphH1 /\ t.arrays.local = w.arrays.local
      BY <3>2, <3>3, BoundFacts
    <3>5. Housed(t, g)
      BY <3>2, <3>4 DEF Housed
    <3> QED
      BY <2>2, <3>2, <3>4, <3>5 DEF Kept
  <2>4. CASE WorkspaceFits(u, g) /\ conf.dual
    <3>1. t = Bound(u, g)
      BY <1>2, <2>1, <2>4 DEF Workspace
    <3>2. /\ Stored(t) /\ t.ev = u.ev /\ t.arrays.arena = u.arrays.arena
          /\ t.arrays.graphH1 = u.arrays.graphH1 /\ t.arrays.local = u.arrays.local
      BY <2>2, <3>1, BoundFacts
    <3>3. Housed(u, g)
      BY <2>2, <2>4, FitsHoused
    <3>4. Housed(t, g)
      BY <3>2, <3>3 DEF Housed
    <3> QED
      BY <2>2, <3>2, <3>4 DEF Kept
  <2>5. CASE WorkspaceFits(u, g) /\ ~conf.dual
    <3>1. t = u
      BY <1>2, <2>1, <2>5 DEF Workspace
    <3> QED
      BY <2>2, <2>5, <3>1, FitsHoused
  <2> QED
    BY <2>3, <2>4, <2>5
<1> QED
  BY <1>1, <1>2

\* The edges that a plan keeps at a time.
PlanEdges(s, g) == IF s.ev.policy = "tiled" THEN TileEdges(g) ELSE Edges(g)

\* The geometry of a graph is in place.
Laid(s, g) ==
  /\ s.arrays.geometry >= PlanEdges(s, g) /\ s.arrays.Y >= PlanEdges(s, g)
  /\ s.ev.harmonics = "retained" => s.arrays.gradient >= PlanEdges(s, g)
  /\ s.ev.policy = "tiled" => s.arrays.types >= PlanEdges(s, g)

\* The workspace of a tiled plan has the largest batch of g.
Tiled(s, g) ==
  s.ev.policy = "tiled" =>
    /\ Receivers(g) > 0
    /\ s.ev.tileEdges >= TileEdges(g)
    /\ Housed(s, g)

LEMMA CoveredLaid ==
  ASSUME NEW s, Stored(s), TiledYOnly(s), NEW g \in Graphs, GeometryCovers(s, g), Tiled(s, g)
  PROVE  Laid(s, g)
<1>1. /\ s.arrays.geometry \in Nat /\ s.arrays.Y \in Nat /\ s.arrays.gradient \in Nat
      /\ s.arrays.types \in Nat /\ s.ev.geoCapacity \in Nat /\ s.ev.tileEdges \in Nat
  BY StateParts, CountFacts DEF Stored, Evaluators, Extents
<1>2. Edges(g) \in Nat /\ TileEdges(g) \in Nat
  BY GraphFacts
<1>3. CASE s.ev.policy = "tiled"
  <2>1. /\ s.arrays.Y >= s.ev.tileEdges /\ s.arrays.geometry >= s.ev.tileEdges
        /\ s.arrays.types >= s.ev.tileEdges
    BY <1>3 DEF GeometryCovers
  <2>2. s.ev.tileEdges >= TileEdges(g) /\ s.ev.harmonics = "yOnly"
    BY <1>3 DEF Tiled, TiledYOnly
  <2> QED
    BY <1>1, <1>2, <1>3, <2>1, <2>2 DEF Laid, PlanEdges
<1>4. CASE s.ev.policy # "tiled"
  <2>1. Edges(g) =< s.ev.geoCapacity /\ s.arrays.Y >= Edges(g)
    BY <1>4 DEF GeometryCovers
  <2>2. CASE s.ev.geoCapacity = 0
    BY <1>1, <1>2, <1>4, <2>1, <2>2 DEF Laid, PlanEdges
  <2>3. CASE s.ev.geoCapacity # 0
    BY <1>4, <2>1, <2>3 DEF Laid, PlanEdges, Stored
  <2> QED
    BY <2>2, <2>3
<1> QED
  BY <1>3, <1>4

\* What an allocation of the geometry leaves alone.
Aside(s, t) ==
  /\ t.ev.tileEdges = s.ev.tileEdges
  /\ t.arrays.arena = s.arrays.arena
  /\ t.arrays.graphH1 = s.arrays.graphH1 /\ t.arrays.local = s.arrays.local

\* A reservation lays out the geometry of the graph.
LEMMA ReserveFacts ==
  ASSUME NEW s, Stored(s), TiledYOnly(s), NEW g \in Graphs, Tiled(s, g), NEW t,
         t = reserve_geometry(s, g)
  PROVE  /\ Stored(t) /\ Kept(s, t) /\ Aside(s, t) /\ Laid(t, g)
         /\ t.ev.planned = s.ev.planned
         /\ t.arrays.A0 = s.arrays.A0 /\ t.arrays.A1 = s.arrays.A1
<1>1. CASE GeometryCovers(s, g)
  <2>1. t = s
    BY <1>1 DEF reserve_geometry
  <2> QED
    BY <1>1, <2>1, CoveredLaid DEF Kept, Aside
<1>2. CASE ~GeometryCovers(s, g)
  <2>1. s \in States /\ s.ev \in Evaluators /\ s.arrays \in Extents
    BY StateParts DEF Stored
  <2>2. s.ev.geoCapacity \in Counts /\ s.ev.geoPlanned \in Counts /\ s.ev.tileEdges \in Counts
    BY <2>1 DEF Evaluators
  <2>3. PICK capacity \in Counts :
          /\ capacity = IF s.ev.geoPlanned >= Edges(g) THEN s.ev.geoPlanned
                        ELSE GeometricCapacity(s.ev, Edges(g))
          /\ capacity >= Edges(g)
    <3>1. /\ GeometricCapacity(s.ev, Edges(g)) \in Counts
          /\ GeometricCapacity(s.ev, Edges(g)) >= Edges(g)
      BY <2>2, GraphFacts, GeometricFacts
    <3> QED
      BY <2>2, <3>1
  <2>4. PICK extent \in Counts :
          /\ extent = IF s.ev.policy = "tiled" THEN s.ev.tileEdges ELSE capacity
          /\ extent >= PlanEdges(s, g)
    BY <2>2, <2>3 DEF Tiled, PlanEdges
  <2>5. PICK types \in Counts :
          /\ types = IF s.ev.policy = "tiled" THEN extent ELSE 0
          /\ s.ev.policy = "tiled" => types = extent
    BY ZeroCount
  <2>6. PICK gradient \in Counts :
          /\ gradient = IF s.ev.harmonics = "retained" THEN extent ELSE 0
          /\ s.ev.harmonics = "retained" => gradient = extent
    BY ZeroCount
  <2>7. PICK e : e = [s.ev EXCEPT !.geoCapacity = capacity, !.geoPlanned = capacity]
    OBVIOUS
  <2>8. /\ e \in Evaluators /\ e.policy = s.ev.policy /\ e.bundle = s.ev.bundle
        /\ e.harmonics = s.ev.harmonics /\ e.selected = s.ev.selected
        /\ e.tileEdges = s.ev.tileEdges /\ e.planned = s.ev.planned
        /\ e.arenaPlanned = s.ev.arenaPlanned
    BY <2>1, <2>7 DEF Evaluators
  <2>9. PICK a : a = [s.arrays EXCEPT !.geometry = extent, !.types = types, !.Y = extent,
                                      !.gradient = gradient]
    OBVIOUS
  <2>10. /\ a \in Extents /\ a.geometry = extent /\ a.types = types /\ a.Y = extent
         /\ a.gradient = gradient /\ a.arena = s.arrays.arena
         /\ a.graphH1 = s.arrays.graphH1 /\ a.local = s.arrays.local
         /\ a.A0 = s.arrays.A0 /\ a.A1 = s.arrays.A1
    BY <2>1, <2>9 DEF Extents
  <2>11. t = [ev |-> e, arrays |-> a]
    <3>1. t = [s EXCEPT !.ev = e, !.arrays = a]
      BY <1>2, <2>3, <2>4, <2>5, <2>6, <2>7, <2>9, Zenon DEF reserve_geometry
    <3> QED
      BY <2>1, <3>1 DEF States
  <2>12. Stored(t) /\ t.ev = e /\ t.arrays = a
    BY <2>6, <2>8, <2>10, <2>11, StoredBy DEF Stored
  <2>13. Laid(t, g)
    BY <2>4, <2>5, <2>6, <2>8, <2>10, <2>12 DEF Laid, PlanEdges
  <2> QED
    BY <2>8, <2>10, <2>12, <2>13 DEF Kept, Aside
<1> QED
  BY <1>1, <1>2

LEMMA GeometryReleasedFacts ==
  ASSUME NEW s, Stored(s), NEW t, t = GeometryReleased(s)
  PROVE  Stored(t) /\ Kept(s, t)
<1>1. s \in States /\ s.ev \in Evaluators /\ s.arrays \in Extents
  BY StateParts DEF Stored
<1>2. PICK e : e = [s.ev EXCEPT !.geoCapacity = 0]
  OBVIOUS
<1>3. /\ e \in Evaluators /\ e.geoCapacity = 0 /\ e.arenaPlanned = s.ev.arenaPlanned
      /\ e.policy = s.ev.policy /\ e.bundle = s.ev.bundle
      /\ e.harmonics = s.ev.harmonics /\ e.selected = s.ev.selected
  BY <1>1, <1>2, ZeroCount DEF Evaluators
<1>4. PICK a : a = [s.arrays EXCEPT !.geometry = 0, !.types = 0, !.Y = 0, !.gradient = 0]
  OBVIOUS
<1>5. a \in Extents /\ a.arena = s.arrays.arena
  BY <1>1, <1>4, ZeroCount DEF Extents
<1>6. t = [ev |-> e, arrays |-> a]
  BY <1>1, <1>2, <1>4 DEF GeometryReleased, States
<1>7. Stored(t) /\ t.ev = e
  BY <1>3, <1>5, <1>6, StoredBy DEF Stored
<1> QED
  BY <1>3, <1>7 DEF Kept

-----------------------------------------------------------------------------
(***************************************************************************)
(* An evaluation, step by step                                             *)
(***************************************************************************)

\* Only results and views of the receiver state differ.
Beside(s, t) ==
  /\ t.ev = s.ev
  /\ t.arrays.geometry = s.arrays.geometry /\ t.arrays.Y = s.arrays.Y
  /\ t.arrays.gradient = s.arrays.gradient /\ t.arrays.types = s.arrays.types
  /\ t.arrays.arena = s.arrays.arena
  /\ t.arrays.graphH1 = s.arrays.graphH1 /\ t.arrays.local = s.arrays.local

LEMMA BesideFacts ==
  ASSUME NEW s, NEW t, Beside(s, t), NEW g, Laid(s, g), Tiled(s, g)
  PROVE  Laid(t, g) /\ Tiled(t, g)
<1>1. Laid(t, g)
  BY DEF Laid, PlanEdges, Beside
<1>2. Tiled(t, g)
  BY DEF Tiled, Housed, Beside
<1> QED
  BY <1>1, <1>2

\* The results hold the graph.
Answered(s, g) ==
  /\ s.arrays.energies >= Receivers(g) /\ s.arrays.forces >= PlanEdges(s, g)
  /\ s.ev.policy = "tiled" => s.arrays.atomForces >= g.features

\* The counts that the results are allocated for.
LEMMA ResultCounts ==
  ASSUME NEW s, Stored(s), NEW g \in Graphs, Tiled(s, g)
  PROVE  /\ Highest(Receivers(g), s.ev.planned.receivers) \in Counts
         /\ Highest(Receivers(g), s.ev.planned.receivers) >= Receivers(g)
         /\ Highest(g.features, s.ev.planned.features) \in Counts
         /\ Highest(g.features, s.ev.planned.features) >= g.features
         /\ ResultEdges(s, g) \in Counts /\ ResultEdges(s, g) >= PlanEdges(s, g)
         /\ StateRows(s, g) \in Counts /\ StateRows(s, g) >= Receivers(g)
<1>1. /\ s.ev.planned.receivers \in Counts /\ s.ev.planned.features \in Counts
      /\ s.ev.planned.edges \in Counts /\ s.ev.tileEdges \in Counts
  BY StateParts DEF Stored, Evaluators
<1>2. /\ Highest(Receivers(g), s.ev.planned.receivers) \in Counts
      /\ Highest(Receivers(g), s.ev.planned.receivers) >= Receivers(g)
  BY <1>1, GraphCounts, HighestFacts
<1>3. /\ Highest(g.features, s.ev.planned.features) \in Counts
      /\ Highest(g.features, s.ev.planned.features) >= g.features
  BY <1>1, GraphCounts, HighestFacts
<1>4. ResultEdges(s, g) \in Counts /\ ResultEdges(s, g) >= PlanEdges(s, g)
  <2>1. CASE s.ev.policy = "tiled"
    BY <1>1, <2>1 DEF ResultEdges, PlanEdges, Tiled
  <2>2. CASE s.ev.policy # "tiled"
    <3>1. ResultEdges(s, g) = Highest(Edges(g), s.ev.planned.edges) /\ PlanEdges(s, g) = Edges(g)
      BY <2>2 DEF ResultEdges, PlanEdges
    <3> QED
      BY <1>1, <3>1, GraphCounts, HighestFacts
  <2> QED
    BY <2>1, <2>2
<1> QED
  BY <1>2, <1>3, <1>4 DEF StateRows

LEMMA ResultStepFacts ==
  ASSUME NEW s, Stored(s), NEW g \in Graphs, Tiled(s, g), NEW n \in Stages, NEW t,
         t = ResultSteps(s, g, n)
  PROVE  /\ Stored(t) /\ Beside(s, t) /\ t.arrays.A0 = s.arrays.A0 /\ t.arrays.A1 = s.arrays.A1
         /\ Finished(n) => Answered(t, g)
<1> n \in 0 .. 3
  BY DEF Stages
<1>1. s \in States /\ s.ev \in Evaluators /\ s.arrays \in Extents
  BY StateParts DEF Stored
<1>2. PICK x \in Counts :
        /\ x = IF n > 0 THEN Highest(Receivers(g), s.ev.planned.receivers) ELSE 0
        /\ n = 3 => x >= Receivers(g)
  BY ResultCounts, ZeroCount
<1>3. PICK y \in Counts :
        /\ y = IF n > 1 THEN ResultEdges(s, g) ELSE 0
        /\ n = 3 => y >= PlanEdges(s, g)
  BY ResultCounts, ZeroCount
<1>4. s.arrays.atomForces \in Counts
  BY <1>1 DEF Extents
<1>5. PICK z \in Counts :
        /\ z = IF n > 2 /\ s.ev.policy = "tiled"
               THEN Highest(g.features, s.ev.planned.features) ELSE s.arrays.atomForces
        /\ n = 3 /\ s.ev.policy = "tiled" => z >= g.features
  BY <1>4, ResultCounts
<1>6. PICK a : a = [s.arrays EXCEPT !.energies = x, !.forces = y, !.atomForces = z]
  OBVIOUS
<1>7. /\ a \in Extents /\ a.energies = x /\ a.forces = y /\ a.atomForces = z
      /\ a.geometry = s.arrays.geometry /\ a.Y = s.arrays.Y /\ a.gradient = s.arrays.gradient
      /\ a.types = s.arrays.types /\ a.arena = s.arrays.arena
      /\ a.graphH1 = s.arrays.graphH1 /\ a.local = s.arrays.local
      /\ a.A0 = s.arrays.A0 /\ a.A1 = s.arrays.A1
  BY <1>1, <1>6 DEF Extents
<1>8. t = [ev |-> s.ev, arrays |-> a]
  <2>1. t = [s EXCEPT !.arrays = a]
    BY <1>2, <1>3, <1>5, <1>6, Zenon DEF ResultSteps
  <2> QED
    BY <1>1, <2>1 DEF States
<1>9. Stored(t) /\ t.ev = s.ev /\ t.arrays = a
  BY <1>1, <1>7, <1>8, StoredBy DEF Stored
<1>10. n = 3 => Answered(t, g)
  BY <1>2, <1>3, <1>5, <1>7, <1>9 DEF Answered, PlanEdges
<1> QED
  BY <1>7, <1>9, <1>10 DEF Beside, Finished

LEMMA EnsureFacts ==
  ASSUME NEW s, Stored(s), NEW g \in Graphs, Tiled(s, g), NEW t, t = ensure_results(s, g)
  PROVE  /\ Stored(t) /\ Beside(s, t) /\ t.arrays.A0 = s.arrays.A0 /\ t.arrays.A1 = s.arrays.A1
         /\ Answered(t, g)
<1>1. CASE ~ResultsFit(s, g)
  <2>1. PICK n \in Stages : n = 3 /\ Finished(n)
    BY DEF Stages, Finished
  <2>2. t = ResultSteps(s, g, n)
    BY <1>1, <2>1 DEF ensure_results
  <2> QED
    BY <2>1, <2>2, ResultStepFacts
<1>2. CASE ResultsFit(s, g)
  <2>1. t = s
    BY <1>2 DEF ensure_results
  <2>2. /\ s.arrays.energies \in Nat /\ s.arrays.forces \in Nat /\ s.arrays.atomForces \in Nat
    BY StateParts, CountFacts DEF Stored, Extents
  <2>3. PICK x \in Nat : x = Highest(Receivers(g), s.ev.planned.receivers) /\ x >= Receivers(g)
    BY ResultCounts, CountFacts
  <2>4. PICK y \in Nat : y = Highest(g.features, s.ev.planned.features) /\ y >= g.features
    BY ResultCounts, CountFacts
  <2>5. PICK z \in Nat : z = ResultEdges(s, g) /\ z >= PlanEdges(s, g)
    BY ResultCounts, CountFacts
  <2>6. /\ s.arrays.energies >= x /\ s.arrays.forces >= z
        /\ s.ev.policy = "tiled" => s.arrays.atomForces >= y
    BY <1>2, <2>3, <2>4, <2>5 DEF ResultsFit
  <2>7. Receivers(g) \in Nat /\ g.features \in Nat /\ PlanEdges(s, g) \in Nat
    BY GraphFacts DEF PlanEdges
  <2>8. Answered(s, g)
    BY <2>2, <2>3, <2>4, <2>5, <2>6, <2>7 DEF Answered
  <2> QED
    BY <2>1, <2>8 DEF Beside
<1> QED
  BY <1>1, <1>2

\* The arrays with other views of the receiver state.
Viewed(s, a, v, w) ==
  \/ a = [s.arrays EXCEPT !.A0 = v, !.A1 = w]
  \/ a = [s.arrays EXCEPT !.A0 = v] /\ w = s.arrays.A1

WithArrays(s, a) == [s EXCEPT !.arrays = a]

LEMMA ViewFacts ==
  ASSUME NEW s, Stored(s), NEW v \in Views, NEW w \in Views, NEW t, NEW a,
         t = WithArrays(s, a), Viewed(s, a, v, w)
  PROVE  /\ Stored(t) /\ Beside(s, t) /\ t.arrays.A0 = v /\ t.arrays.A1 = w
         /\ t.arrays.energies = s.arrays.energies /\ t.arrays.forces = s.arrays.forces
         /\ t.arrays.atomForces = s.arrays.atomForces
<1>1. s \in States /\ s.ev \in Evaluators /\ s.arrays \in Extents
  BY StateParts DEF Stored
<1>2. /\ a \in Extents /\ a.A0 = v /\ a.A1 = w
      /\ a.geometry = s.arrays.geometry /\ a.Y = s.arrays.Y /\ a.gradient = s.arrays.gradient
      /\ a.types = s.arrays.types /\ a.arena = s.arrays.arena
      /\ a.graphH1 = s.arrays.graphH1 /\ a.local = s.arrays.local
      /\ a.energies = s.arrays.energies /\ a.forces = s.arrays.forces
      /\ a.atomForces = s.arrays.atomForces
  <2>1. CASE a = [s.arrays EXCEPT !.A0 = v, !.A1 = w]
    BY <1>1, <2>1 DEF Extents
  <2>2. CASE a = [s.arrays EXCEPT !.A0 = v] /\ w = s.arrays.A1
    BY <1>1, <2>2 DEF Extents
  <2> QED
    BY <2>1, <2>2 DEF Viewed
<1>3. t = [ev |-> s.ev, arrays |-> a]
  BY <1>1 DEF States, WithArrays
<1>4. Stored(t) /\ t.ev = s.ev /\ t.arrays = a
  BY <1>1, <1>2, <1>3, StoredBy DEF Stored
<1> QED
  BY <1>2, <1>4 DEF Beside

LEMMA EnsuredFacts ==
  ASSUME NEW v \in Views, NEW n \in Counts
  PROVE  Ensured(v, n) \in Views /\ Ensured(v, n).rows >= n
<1>1. v.rows \in Counts /\ n \in Nat /\ n >= n
  BY CountFacts DEF Views
<1>2. CASE v.rows >= n
  BY <1>2 DEF Ensured
<1>3. CASE ~(v.rows >= n)
  <2>1. PICK u : u = [home |-> "own", rows |-> n]
    OBVIOUS
  <2>2. u \in Views /\ u.rows = n
    BY <2>1 DEF Views
  <2>3. Ensured(v, n) = u
    BY <1>3, <2>1 DEF Ensured
  <2> QED
    BY <1>1, <2>2, <2>3
<1> QED
  BY <1>2, <1>3

\* The receiver state holds the graph.
Forwarded(s, g) ==
  s.ev.policy # "tiled" => /\ s.arrays.A0.rows >= Receivers(g)
                           /\ conf.dual => s.arrays.A1.rows >= Receivers(g)

LEMMA BatchFacts ==
  ASSUME NEW g \in Graphs, Receivers(g) > 0
  PROVE  LastBatch(g) \in Counts
<1>1. PICK r \in Nat : r = Receivers(g) /\ r > 0
  BY GraphFacts
<1>2. PICK n \in Nat : n = TileRows(g) /\ n > 0 /\ n =< MaxInt
  BY GraphFacts, GraphCounts, CountFacts
<1>3. PICK q \in Nat : q = (r - 1) % n /\ q < n
  BY <1>1, <1>2
<1>4. LastBatch(g) = q + 1
  BY <1>1, <1>2, <1>3 DEF LastBatch
<1>5. MaxInt \in Nat
  BY CountFacts
<1> QED
  BY <1>2, <1>3, <1>4, <1>5 DEF Counts

LEMMA EvaluatedFacts ==
  ASSUME NEW s, Stored(s), NEW g \in Graphs, Tiled(s, g), NEW t, t = Evaluated(s, g)
  PROVE  /\ Stored(t) /\ Beside(s, t) /\ Forwarded(t, g)
         /\ t.arrays.energies = s.arrays.energies /\ t.arrays.forces = s.arrays.forces
         /\ t.arrays.atomForces = s.arrays.atomForces
<1>1. s.arrays.A0 \in Views /\ s.arrays.A1 \in Views
  BY StateParts DEF Stored, Extents
<1>2. PICK n \in Nat : n = StateRows(s, g) /\ n \in Counts /\ n >= Receivers(g)
  BY ResultCounts, CountFacts
<1>3. PICK b : b = [home |-> "arena", rows |-> LastBatch(g)]
  OBVIOUS
<1>4. s.ev.policy = "tiled" => b \in Views
  BY <1>3, BatchFacts DEF Tiled, Views
<1>5. Receivers(g) \in Nat
  BY GraphFacts
<1>6. PICK v \in Views :
        /\ v = IF s.ev.policy = "tiled" THEN b ELSE Ensured(s.arrays.A0, n)
        /\ s.ev.policy # "tiled" => v.rows >= Receivers(g)
  <2>1. Ensured(s.arrays.A0, n) \in Views /\ Ensured(s.arrays.A0, n).rows >= n
    BY <1>1, <1>2, EnsuredFacts
  <2>2. Ensured(s.arrays.A0, n).rows \in Nat
    BY <2>1, CountFacts DEF Views
  <2>3. Ensured(s.arrays.A0, n).rows >= Receivers(g)
    BY <1>2, <1>5, <2>1, <2>2
  <2> QED
    BY <1>4, <2>1, <2>3
<1>7. PICK w \in Views :
        /\ w = IF ~ conf.dual THEN s.arrays.A1
               ELSE IF s.ev.policy = "tiled" THEN b ELSE Ensured(s.arrays.A1, n)
        /\ s.ev.policy # "tiled" /\ conf.dual => w.rows >= Receivers(g)
  <2>1. Ensured(s.arrays.A1, n) \in Views /\ Ensured(s.arrays.A1, n).rows >= n
    BY <1>1, <1>2, EnsuredFacts
  <2>2. Ensured(s.arrays.A1, n).rows \in Nat
    BY <2>1, CountFacts DEF Views
  <2>3. Ensured(s.arrays.A1, n).rows >= Receivers(g)
    BY <1>2, <1>5, <2>1, <2>2
  <2> QED
    BY <1>1, <1>4, <2>1, <2>3
<1>8. PICK a : a = [s.arrays EXCEPT !.A0 = v, !.A1 = w]
  OBVIOUS
<1>9. t = WithArrays(s, a)
  BY <1>2, <1>3, <1>6, <1>7, <1>8, Zenon DEF Evaluated, WithArrays
<1>10. /\ Stored(t) /\ Beside(s, t) /\ t.arrays.A0 = v /\ t.arrays.A1 = w
       /\ t.arrays.energies = s.arrays.energies /\ t.arrays.forces = s.arrays.forces
       /\ t.arrays.atomForces = s.arrays.atomForces
  <2>1. Viewed(s, a, v, w)
    BY <1>8 DEF Viewed
  <2> QED
    BY <1>9, <2>1, ViewFacts
<1>11. Forwarded(t, g)
  BY <1>6, <1>7, <1>10 DEF Forwarded, Beside
<1> QED
  BY <1>10, <1>11

-----------------------------------------------------------------------------
(***************************************************************************)
(* The inductive invariant                                                 *)
(***************************************************************************)

\* The evaluator and its arrays agree, whatever came before.
Sound == Stored(State) /\ TiledYOnly(State)

\* A capacity request keeps the capacity bundle, and debug plans are for it.
Asked == /\ profile = "capacity" => conf.bundle /\ ev.bundle
         /\ debug # "none" => profile = "capacity"

\* A valid token is for a graph that its plan and arrays hold.
Token == pc # "none" => /\ graph \in Graphs /\ report.plan = ev.policy
                        /\ Laid(State, graph) /\ Tiled(State, graph)

Results == pc = "evaluated" => Answered(State, graph) /\ Forwarded(State, graph)

PInv == TypeOK /\ Sound /\ Asked /\ Token /\ Results

LEMMA Invariant == PInv => TypeOK /\ ArraysCover
<1> SUFFICES ASSUME PInv PROVE TypeOK /\ ArraysCover
  OBVIOUS
<1>1. State.ev = ev /\ State.arrays = arrays
  BY DEF State
<1>2. TypeOK
  BY DEF PInv
<1>3. ASSUME pc # "none" \/ pc = "evaluated"
      PROVE  pc # "none" /\ Laid(State, graph) /\ Tiled(State, graph)
  BY <1>3 DEF PInv, Token
<1>4. PICK edges : edges = IF ev.policy = "tiled" THEN TileEdges(graph) ELSE Edges(graph)
  OBVIOUS
<1>5. PlanEdges(State, graph) = edges
  BY <1>1, <1>4 DEF PlanEdges
<1>6. pc # "none" =>
        /\ arrays.geometry >= edges /\ arrays.Y >= edges
        /\ ev.harmonics = "retained" => arrays.gradient >= edges
        /\ ev.policy = "tiled" => arrays.types >= edges
  BY <1>1, <1>3, <1>5 DEF Laid
<1>7. pc # "none" /\ ev.policy = "tiled" =>
        /\ graph \in Graphs /\ ev.tileEdges >= edges /\ arrays.arena >= TileRows(graph)
        /\ conf.dual => arrays.graphH1 >= graph.features /\ arrays.local >= ev.tileEdges
  BY <1>1, <1>3, <1>4 DEF Tiled, Housed, PInv, Token
<1>8. pc # "none" /\ ev.policy = "tiled" /\ conf.dual => arrays.local >= edges
  <2> SUFFICES ASSUME pc # "none" /\ ev.policy = "tiled" /\ conf.dual
               PROVE  arrays.local >= edges
    OBVIOUS
  <2>1. edges \in Nat
    BY <1>4, <1>7, GraphFacts
  <2>2. ev \in Evaluators /\ arrays \in Extents
    BY <1>2 DEF TypeOK
  <2>3. arrays.local \in Nat /\ ev.tileEdges \in Nat
    BY <2>2, CountFacts DEF Evaluators, Extents
  <2> QED
    BY <1>7, <2>1, <2>3
<1>9. pc = "evaluated" =>
        /\ arrays.energies >= Receivers(graph) /\ arrays.forces >= edges
        /\ ev.policy = "tiled" => arrays.atomForces >= graph.features
        /\ ev.policy # "tiled" => arrays.A0.rows >= Receivers(graph)
        /\ ev.policy # "tiled" /\ conf.dual => arrays.A1.rows >= Receivers(graph)
  BY <1>1, <1>5 DEF PInv, Results, Answered, Forwarded
<1>10. ArraysCover
  BY <1>4, <1>6, <1>7, <1>8, <1>9 DEF ArraysCover
<1> QED
  BY <1>2, <1>10

LEMMA Initially == Init => PInv
<1> SUFFICES ASSUME Init PROVE PInv
  OBVIOUS
<1>1. PICK e : e = ev
  OBVIOUS
<1>2. e = [bundle |-> FALSE, harmonics |-> "retained", policy |-> "pending",
           selected |-> 0, schedule |-> 0, geoCapacity |-> 0, geoPlanned |-> 0,
           planned |-> [receivers |-> 0, features |-> 0, edges |-> 0],
           tileEdges |-> 0, arenaPlanned |-> 0]
  BY <1>1 DEF Init
<1>3. e \in Evaluators /\ e.geoCapacity = 0 /\ e.policy = "pending" /\ e.arenaPlanned = 0
  BY <1>2, ZeroCount DEF Evaluators
<1>4. PICK a : a = arrays
  OBVIOUS
<1>5. a \in Extents /\ a.arena = 0
  <2>1. a = NoArrays
    BY <1>4 DEF Init
  <2> QED
    BY <2>1, ZeroCount, NoViewFacts DEF NoArrays, Extents
<1>6. State = [ev |-> e, arrays |-> a]
  BY <1>1, <1>4 DEF State
<1>7. Stored(State) /\ State.ev = e
  BY <1>3, <1>5, <1>6, StoredBy
<1>8. Sound
  BY <1>3, <1>7 DEF Sound, TiledYOnly
<1>9. conf \in Configurations /\ 0 \in 0 .. MaxPrepared
  BY ConfsAssumption, DeviceAssumption DEF Init
<1>10. TypeOK
  BY <1>1, <1>3, <1>4, <1>5, <1>9 DEF Init, TypeOK, Profiles
<1>11. Asked /\ Token /\ Results
  BY DEF Init, Asked, Token, Results
<1> QED
  BY <1>8, <1>10, <1>11 DEF PInv

\* A step that becomes t.
LEMMA StateBecomes ==
  ASSUME NEW t, Stored(t), TiledYOnly(t), Becomes(t)
  PROVE  /\ Sound' /\ State' = t /\ ev' = t.ev /\ arrays' = t.arrays
         /\ ev' \in Evaluators /\ arrays' \in Extents
<1>1. t = [ev |-> t.ev, arrays |-> t.arrays] /\ t.ev \in Evaluators /\ t.arrays \in Extents
  BY StateParts DEF Stored
<1>2. ev' = t.ev /\ arrays' = t.arrays
  BY DEF Becomes
<1>3. State' = t
  <2>1. State' = [ev |-> ev', arrays |-> arrays']
    BY DEF State
  <2> QED
    BY <1>1, <1>2, <2>1
<1>4. Sound'
  <2>1. Stored(State')
    BY <1>3
  <2>2. TiledYOnly(State')
    BY <1>3
  <2> QED
    BY <2>1, <2>2 DEF Sound
<1> QED
  BY <1>1, <1>2, <1>3, <1>4

LEMMA StateIs == State.ev = ev /\ State.arrays = arrays
  BY DEF State

LEMMA Resolves ==
  ASSUME PInv, NEW p \in Profiles, NEW d \in DebugPlans \cup {"none"}, Resolve(p, d)
  PROVE  PInv'
<1>1. PICK t : t = set_low_memory(State, p = "capacity")
  OBVIOUS
<1>2. PICK enabled \in BOOLEAN : enabled = (p = "capacity")
  OBVIOUS
<1>3. Stored(State) /\ conf \in Configurations
  BY DEF PInv, Sound, TypeOK
<1>4. t = set_low_memory(State, enabled)
  BY <1>1, <1>2, Zenon
<1>5. Stored(t) /\ t.ev.policy = "pending" /\ (enabled => t.ev.bundle)
  BY <1>3, <1>4, LowMemoryFacts
<1>6. TiledYOnly(t)
  BY <1>5 DEF TiledYOnly
<1>7. Becomes(t)
  BY <1>1, Zenon DEF Resolve
<1>8. Sound' /\ ev' = t.ev /\ ev' \in Evaluators /\ arrays' \in Extents
  BY <1>5, <1>6, <1>7, StateBecomes
<1>9. /\ profile' = p /\ debug' = d /\ pc' = "none" /\ conf' = conf /\ allowFixed' = allowFixed
      /\ prepared' = prepared /\ (p = "capacity" => conf.bundle)
      /\ (d # "none" => p = "capacity")
  BY DEF Resolve, Invalidated
<1>10. d \in Plans \cup {"none"}
  BY DebugAssumption
<1>11. TypeOK'
  BY <1>8, <1>9, <1>10 DEF PInv, TypeOK
<1>12. Asked'
  BY <1>2, <1>5, <1>8, <1>9 DEF Asked
<1>13. Token' /\ Results'
  BY <1>9 DEF Token, Results
<1> QED
  BY <1>8, <1>11, <1>12, <1>13 DEF PInv

LEMMA Allows ==
  ASSUME PInv, set_allow_fixed_workspace
  PROVE  PInv'
<1>1. /\ allowFixed' = ~allowFixed /\ pc' = "none"
      /\ UNCHANGED <<conf, profile, debug, ev, arrays, prepared>>
  BY DEF set_allow_fixed_workspace, Invalidated
<1>2. State' = State
  BY <1>1 DEF State
<1>3. Sound'
  <2>1. Stored(State') /\ TiledYOnly(State')
    BY <1>2 DEF PInv, Sound
  <2> QED
    BY <2>1 DEF Sound
<1>4. TypeOK' /\ Asked'
  BY <1>1 DEF PInv, TypeOK, Asked
<1>5. Token' /\ Results'
  BY <1>1 DEF Token, Results
<1> QED
  BY <1>3, <1>4, <1>5 DEF PInv

\* The plan of a capacity request within a known budget charges the estimate
\* that the report shows, or less than the budget.
InBudget(t, e, g, free) ==
  Report(e, g, free).estimates[Choose(e, g, free)] =< Available(e, free)
    => t.ev.selected =< Available(e, free)

\* What the planner leaves for graph g, from evaluator e.
PlannedWell(t, e, g, free) ==
  /\ Stored(t) /\ TiledYOnly(t) /\ t.ev.policy = Choose(e, g, free)
  /\ profile = "capacity" =>
       e.bundle /\ t.ev.bundle /\ (free # Unknown => InBudget(t, e, g, free))

\* The report's estimates: those of the choice, with the segments of the
\* schedule for a tiled plan.
Revised(e, g, free) ==
  [Estimates(e, g) EXCEPT !.tiled = IF Choose(e, g, free) = "tiled"
                                    THEN estimate_tiled_graph_bytes(g, g.segments)
                                    ELSE Estimates(e, g).tiled]

\* The report's flags.
Flagged(rep, e, free) ==
  /\ rep.known <=> free # Unknown
  /\ rep.boundary <=> /\ free # Unknown /\ profile = "capacity"
                      /\ BoundaryAttempt(e, rep.estimates, Available(e, free))

LEMMA ReportFacts ==
  ASSUME NEW e, NEW g, NEW free, NEW rep, rep = Report(e, g, free)
  PROVE  /\ rep.plan = Choose(e, g, free) /\ rep.available = Available(e, free)
         /\ rep.estimates = Revised(e, g, free) /\ Flagged(rep, e, free)
<1>1. PICK p : p = Choose(e, g, free)
  OBVIOUS
<1>2. PICK full : full = Revised(e, g, free)
  OBVIOUS
<1>3. PICK avail : avail = Available(e, free)
  OBVIOUS
<1>4. PICK known \in BOOLEAN : known = (free # Unknown)
  OBVIOUS
<1>5. PICK b \in BOOLEAN : b = (/\ free # Unknown /\ profile = "capacity"
                                /\ BoundaryAttempt(e, full, avail))
  OBVIOUS
<1>6. rep = [plan |-> p, known |-> known, available |-> avail, estimates |-> full,
             boundary |-> b]
  BY <1>1, <1>2, <1>3, <1>4, <1>5, Zenon DEF Report, Revised
<1>7. /\ rep.plan = p /\ rep.known = known /\ rep.available = avail /\ rep.estimates = full
      /\ rep.boundary = b
  BY <1>6
<1>8. rep.known <=> free # Unknown
  BY <1>4, <1>7
<1>9. rep.boundary <=> /\ free # Unknown /\ profile = "capacity"
                       /\ BoundaryAttempt(e, full, avail)
  BY <1>5, <1>7
<1> QED
  BY <1>1, <1>2, <1>3, <1>7, <1>8, <1>9, Zenon DEF Flagged

\* The bytes that the report shows for each plan.
Shown(e, g, free, plan) ==
  IF plan = "tiled" /\ Choose(e, g, free) = "tiled"
  THEN estimate_tiled_graph_bytes(g, g.segments) ELSE Estimates(e, g)[plan]

LEMMA ShownFacts ==
  ASSUME NEW e, NEW g, NEW free, NEW plan \in Plans
  PROVE  Report(e, g, free).estimates[plan] = Shown(e, g, free, plan)
<1>1. PICK rep : rep = Report(e, g, free)
  OBVIOUS
<1>2. PICK est : est = Estimates(e, g)
  OBVIOUS
<1>3. PICK x : x = IF Choose(e, g, free) = "tiled"
                   THEN estimate_tiled_graph_bytes(g, g.segments) ELSE est.tiled
  OBVIOUS
<1>4. rep.estimates = [est EXCEPT !.tiled = x]
  <2>1. rep.estimates = Revised(e, g, free)
    BY <1>1, ReportFacts
  <2> QED
    BY <1>2, <1>3, <2>1, Zenon DEF Revised
<1>5. DOMAIN est = Plans
  BY <1>2 DEF Estimates, Plans
<1>6. [est EXCEPT !.tiled = x][plan] = IF plan = "tiled" THEN x ELSE est[plan]
  BY <1>5
<1> QED
  BY <1>1, <1>2, <1>3, <1>4, <1>6 DEF Shown

LEMMA PlannedFacts ==
  ASSUME PInv, NEW g \in Graphs, NEW free \in Answers, NEW e, e = Released(State).ev,
         NEW t, t = Planned(g, free)
  PROVE  PlannedWell(t, e, g, free)
<1>1. /\ Stored(State) /\ conf \in Configurations /\ debug \in Plans \cup {"none"}
      /\ (profile = "capacity" => conf.bundle /\ State.ev.bundle)
  BY StateIs DEF PInv, Sound, TypeOK, Asked
<1>2. PICK s : s = Released(State)
  OBVIOUS
<1>3. Stored(s) /\ s.ev = e /\ e.bundle = State.ev.bundle
  BY <1>1, <1>2, ReleasedFacts
<1>4. PICK plan \in Plans : plan = Choose(e, g, free)
  BY <1>1, ChooseFacts
<1>5. PICK d : d = Decision(e, g, plan)
  OBVIOUS
<1>6. /\ Decided(d, g) /\ d.plan = plan /\ d.exact = Estimates(e, g)[plan]
      /\ d.bundle = (plan # "speed" \/ conf.bundle)
  BY <1>1, <1>5, DecisionFacts
<1>7. PICK u : u = SelectDecision(s, g, free, d)
  OBVIOUS
<1>8. /\ Stored(u) /\ TiledYOnly(u) /\ u.ev.policy = d.plan /\ u.ev.bundle = d.bundle
      /\ profile = "capacity" /\ free # Unknown /\ d.bundle
           => Charged(u, d, Available(s.ev, free))
  BY <1>1, <1>3, <1>6, <1>7, SelectFacts
<1>9. t = Scheduled(u, g)
  BY <1>2, <1>3, <1>4, <1>5, <1>7 DEF Planned, Select
<1>10. /\ Stored(t) /\ TiledYOnly(t) /\ t.ev.policy = u.ev.policy
       /\ t.ev.bundle = u.ev.bundle
       /\ t.ev.selected = IF u.ev.policy = "tiled" /\ conf.dual
                          THEN estimate_tiled_graph_bytes(g, g.segments) ELSE u.ev.selected
  BY <1>8, <1>9, ScheduledFacts
<1>11. ASSUME profile = "capacity"
       PROVE  e.bundle /\ t.ev.bundle
  BY <1>1, <1>3, <1>6, <1>8, <1>10, <1>11
<1>12. ASSUME profile = "capacity", free # Unknown
       PROVE  InBudget(t, e, g, free)
  <2>1. Charged(u, d, Available(e, free))
    BY <1>3, <1>8, <1>10, <1>11, <1>12
  <2>2. Report(e, g, free).estimates[plan] = Shown(e, g, free, plan)
    BY ShownFacts
  <2>3. CASE plan # "tiled"
    <3>1. Shown(e, g, free, plan) = d.exact /\ t.ev.selected = u.ev.selected
      BY <1>6, <1>8, <1>10, <2>3 DEF Shown
    <3> QED
      BY <1>4, <2>1, <2>2, <3>1 DEF InBudget, Charged
  <2>4. CASE plan = "tiled"
    <3>1. Shown(e, g, free, plan) = estimate_tiled_graph_bytes(g, g.segments)
      BY <1>4, <2>4 DEF Shown
    <3>2. u.ev.selected = TiledBytes(g)
      BY <1>1, <1>6, <2>1, <2>4, PlanBytes DEF Charged
    <3>3. t.ev.selected = estimate_tiled_graph_bytes(g, g.segments)
      <4>1. CASE conf.dual
        BY <1>6, <1>8, <1>10, <2>4, <4>1
      <4>2. CASE ~conf.dual
        BY <1>10, <3>2, <4>2, TiledOrder DEF TiledBytes
      <4> QED
        BY <4>1, <4>2
    <3> QED
      BY <1>4, <2>2, <3>1, <3>3 DEF InBudget
  <2> QED
    BY <2>3, <2>4
<1> QED
  BY <1>4, <1>6, <1>8, <1>10, <1>11, <1>12 DEF PlannedWell

\* A preparation that leaves no token.
LEMMA Untokened ==
  ASSUME PInv, NEW t, Stored(t), TiledYOnly(t), profile = "capacity" => t.ev.bundle,
         NEW g, NewGraph(g), PrepareTo(t), Invalidated
  PROVE  PInv'
<1>1. /\ Becomes(t) /\ UNCHANGED <<conf, profile, debug, allowFixed>> /\ pc' = "none"
      /\ prepared' = prepared + 1 /\ prepared < MaxPrepared
  BY DEF PrepareTo, Invalidated, NewGraph
<1>2. Sound' /\ ev' = t.ev /\ ev' \in Evaluators /\ arrays' \in Extents
  BY <1>1, StateBecomes
<1>3. prepared' \in 0 .. MaxPrepared
  BY <1>1, DeviceAssumption DEF PInv, TypeOK
<1>4. TypeOK'
  BY <1>1, <1>2, <1>3 DEF PInv, TypeOK
<1>5. Asked'
  BY <1>1, <1>2 DEF PInv, Asked
<1>6. Token' /\ Results'
  BY <1>1 DEF Token, Results
<1> QED
  BY <1>2, <1>4, <1>5, <1>6 DEF PInv

LEMMA Refuses ==
  ASSUME PInv, NEW g \in Graphs, NEW free \in Answers, PrepareRefused(g, free)
  PROVE  PInv'
<1>1. PICK t : t = IF Qualified(Released(State).ev, Choose(Released(State).ev, g, free))
                   THEN Planned(g, free) ELSE Released(State)
  OBVIOUS
<1>2. NewGraph(g) /\ PrepareTo(t) /\ Invalidated
  BY <1>1, Zenon DEF PrepareRefused
<1>3. CASE t = Planned(g, free)
  <2>1. PICK e : e = Released(State).ev
    OBVIOUS
  <2>2. PlannedWell(t, e, g, free)
    BY <1>3, <2>1, PlannedFacts
  <2> QED
    BY <1>2, <2>2, Untokened DEF PlannedWell
<1>4. CASE t = Released(State)
  <2>1. /\ Stored(State) /\ TiledYOnly(State) /\ (profile = "capacity" => State.ev.bundle)
    BY StateIs DEF PInv, Sound, Asked
  <2>2. /\ Stored(t) /\ t.ev.bundle = State.ev.bundle /\ t.ev.policy = State.ev.policy
        /\ t.ev.harmonics = State.ev.harmonics
    BY <1>4, <2>1, ReleasedFacts
  <2>3. TiledYOnly(t)
    BY <2>1, <2>2 DEF TiledYOnly
  <2> QED
    BY <1>2, <2>1, <2>2, <2>3, Untokened
<1> QED
  BY <1>1, <1>3, <1>4

LEMMA KeptYOnly ==
  ASSUME NEW s, NEW t, TiledYOnly(s), Kept(s, t)
  PROVE  TiledYOnly(t)
  BY DEF TiledYOnly, Kept

LEMMA WorkspaceFailing ==
  ASSUME PInv, NEW g \in Graphs, NEW free \in Answers, NEW n \in 0 .. 2,
         WorkspaceFails(g, free, n)
  PROVE  PInv'
<1>1. PICK e : e = Released(State).ev
  OBVIOUS
<1>2. PICK u : u = Planned(g, free)
  OBVIOUS
<1>3. PlannedWell(u, e, g, free)
  BY <1>1, <1>2, PlannedFacts
<1>4. PICK w : w = TileHigh(u, g)
  OBVIOUS
<1>5. Stored(w) /\ Kept(u, w)
  BY <1>3, <1>4, TileHighFacts DEF PlannedWell
<1>6. PICK t : t = WorkspaceSteps(w, g, n)
  OBVIOUS
<1>7. Stored(t) /\ Kept(w, t)
  <2>1. n \in Stages
    BY DEF Stages
  <2> QED
    BY <1>5, <1>6, <2>1, WorkspaceStepFacts
<1>8. TiledYOnly(t)
  BY <1>3, <1>5, <1>7, KeptYOnly DEF PlannedWell
<1>9. profile = "capacity" => t.ev.bundle
  BY <1>3, <1>5, <1>7 DEF PlannedWell, Kept
<1>10. NewGraph(g) /\ PrepareTo(t) /\ Invalidated
  BY <1>2, <1>4, <1>6 DEF WorkspaceFails
<1> QED
  BY <1>7, <1>8, <1>9, <1>10, Untokened

\* The state after the workspace is prepared.
LEMMA WorkspaceReady ==
  ASSUME NEW u, NEW e, NEW g \in Graphs, NEW free, PlannedWell(u, e, g, free),
         Choose(e, g, free) = "tiled" => Receivers(g) > 0, NEW w, w = Workspace(u, g)
  PROVE  Stored(w) /\ Kept(u, w) /\ TiledYOnly(w) /\ Tiled(w, g)
<1>1. Stored(u) /\ TiledYOnly(u) /\ u.ev.policy = Choose(e, g, free)
  BY DEF PlannedWell
<1>2. /\ Stored(w) /\ Kept(u, w)
      /\ u.ev.policy = "tiled" => Housed(w, g) /\ w.ev.tileEdges >= TileEdges(g)
  BY <1>1, WorkspaceFacts
<1>3. TiledYOnly(w)
  BY <1>1, <1>2, KeptYOnly
<1>4. Tiled(w, g)
  BY <1>1, <1>2 DEF Tiled, Kept
<1> QED
  BY <1>2, <1>3, <1>4

LEMMA GeometryFailing ==
  ASSUME PInv, NEW g \in Graphs, NEW free \in Answers, GeometryFails(g, free)
  PROVE  PInv'
<1>1. PICK e : e = Released(State).ev
  OBVIOUS
<1>2. PICK u : u = Planned(g, free)
  OBVIOUS
<1>3. PlannedWell(u, e, g, free)
  BY <1>1, <1>2, PlannedFacts
<1>4. PICK w : w = Workspace(u, g)
  OBVIOUS
<1>5. Choose(e, g, free) = "tiled" => Receivers(g) > 0
  BY <1>1 DEF GeometryFails, Accepts
<1>6. Stored(w) /\ Kept(u, w) /\ TiledYOnly(w)
  BY <1>3, <1>4, <1>5, WorkspaceReady
<1>7. PICK t : t = GeometryReleased(w)
  OBVIOUS
<1>8. Stored(t) /\ Kept(w, t)
  BY <1>6, <1>7, GeometryReleasedFacts
<1>9. TiledYOnly(t)
  BY <1>6, <1>8, KeptYOnly
<1>10. profile = "capacity" => t.ev.bundle
  BY <1>3, <1>6, <1>8 DEF PlannedWell, Kept
<1>11. NewGraph(g) /\ PrepareTo(t) /\ Invalidated
  BY <1>2, <1>4, <1>7 DEF GeometryFails
<1> QED
  BY <1>8, <1>9, <1>10, <1>11, Untokened

\* What a preparation becomes.
LEMMA PreparedFacts ==
  ASSUME PInv, NEW g \in Graphs, NEW free \in Answers, Prepare(g, free), NEW e,
         e = Released(State).ev
  PROVE  \E t : /\ PlannedWell(t, e, g, free) /\ Laid(t, g) /\ Tiled(t, g)
                /\ PrepareTo(t)
<1>1. PICK u : u = Planned(g, free)
  OBVIOUS
<1>2. PlannedWell(u, e, g, free)
  BY <1>1, PlannedFacts
<1>3. PICK w : w = Workspace(u, g)
  OBVIOUS
<1>4. Choose(e, g, free) = "tiled" => Receivers(g) > 0
  BY DEF Prepare, Accepts
<1>5. Stored(w) /\ Kept(u, w) /\ TiledYOnly(w) /\ Tiled(w, g)
  BY <1>2, <1>3, <1>4, WorkspaceReady
<1>6. PICK t : t = reserve_geometry(w, g)
  OBVIOUS
<1>7. Stored(t) /\ Kept(w, t) /\ Aside(w, t) /\ Laid(t, g)
  BY <1>5, <1>6, ReserveFacts
<1>8. TiledYOnly(t)
  BY <1>5, <1>7, KeptYOnly
<1>9. Tiled(t, g)
  BY <1>5, <1>7 DEF Tiled, Housed, Kept, Aside
<1>10. PlannedWell(t, e, g, free)
  <2>1. Kept(u, t)
    BY <1>5, <1>7 DEF Kept
  <2> QED
    BY <1>2, <1>7, <1>8, <2>1 DEF PlannedWell, InBudget, Kept
<1>11. PrepareTo(t)
  BY <1>1, <1>3, <1>6 DEF Prepare
<1> QED
  BY <1>7, <1>9, <1>10, <1>11

LEMMA Prepares ==
  ASSUME PInv, NEW g \in Graphs, NEW free \in Answers, Prepare(g, free)
  PROVE  PInv'
<1>1. PICK e : e = Released(State).ev
  OBVIOUS
<1>2. PICK t : /\ PlannedWell(t, e, g, free) /\ Laid(t, g) /\ Tiled(t, g) /\ PrepareTo(t)
  BY <1>1, PreparedFacts
<1>3. /\ Becomes(t) /\ UNCHANGED <<conf, profile, debug, allowFixed>> /\ pc' = "prepared"
      /\ graph' = g /\ prepared' = prepared + 1 /\ prepared < MaxPrepared
      /\ report' = Report(e, g, free)
  BY <1>1, <1>2 DEF Prepare, PrepareTo, NewGraph
<1>4. Sound' /\ State' = t /\ ev' = t.ev /\ ev' \in Evaluators /\ arrays' \in Extents
  BY <1>2, <1>3, StateBecomes DEF PlannedWell
<1>5. prepared' \in 0 .. MaxPrepared
  BY <1>3, DeviceAssumption DEF PInv, TypeOK
<1>6. TypeOK'
  BY <1>3, <1>4, <1>5 DEF PInv, TypeOK
<1>7. Asked'
  BY <1>2, <1>3, <1>4 DEF PInv, Asked, PlannedWell
<1>8. report'.plan = ev'.policy
  <2>1. report'.plan = Choose(e, g, free)
    BY <1>3, ReportFacts
  <2> QED
    BY <1>2, <1>4, <2>1 DEF PlannedWell
<1>9. Laid(State, graph)'
  BY <1>2, <1>3, <1>4 DEF Laid, PlanEdges
<1>10. Tiled(State, graph)'
  BY <1>2, <1>3, <1>4 DEF Tiled, Housed
<1>11. Token' /\ Results'
  BY <1>3, <1>8, <1>9, <1>10 DEF Token, Results
<1> QED
  BY <1>4, <1>6, <1>7, <1>11 DEF PInv

\* The evaluator as an evaluation finds it.
LEMMA BegunFacts ==
  ASSUME PInv, pc # "none", NEW b, b = Begun
  PROVE  /\ Stored(b) /\ TiledYOnly(b) /\ Kept(State, b) /\ Laid(b, graph) /\ Tiled(b, graph)
         /\ graph \in Graphs /\ b.ev.planned = State.ev.planned
<1>1. /\ Stored(State) /\ TiledYOnly(State) /\ graph \in Graphs /\ Tiled(State, graph)
  BY DEF PInv, Sound, Token
<1>2. /\ Stored(b) /\ Kept(State, b) /\ Aside(State, b) /\ Laid(b, graph)
      /\ b.ev.planned = State.ev.planned
  BY <1>1, ReserveFacts DEF Begun
<1>3. Tiled(b, graph)
  BY <1>1, <1>2 DEF Tiled, Housed, Kept, Aside
<1> QED
  BY <1>1, <1>2, <1>3, KeptYOnly

\* A step of the prepared graph that leaves its geometry and its workspace.
LEMMA Evaluates ==
  ASSUME PInv, pc # "none", NEW b, b = Begun, NEW t, Stored(t), Beside(b, t), Becomes(t),
         pc' \in {"prepared", "evaluated"},
         pc' = "evaluated" => Answered(t, graph) /\ Forwarded(t, graph),
         UNCHANGED <<conf, profile, debug, allowFixed, graph, report, prepared>>
  PROVE  /\ PInv' /\ ev'.bundle = ev.bundle /\ ev'.selected = ev.selected
         /\ ev'.policy = ev.policy /\ ev'.planned = ev.planned
<1>1. /\ Stored(b) /\ TiledYOnly(b) /\ Kept(State, b) /\ Laid(b, graph) /\ Tiled(b, graph)
      /\ graph \in Graphs /\ b.ev.planned = State.ev.planned
  BY BegunFacts
<1>2. TiledYOnly(t) /\ t.ev = b.ev
  BY <1>1 DEF TiledYOnly, Beside
<1>3. Laid(t, graph) /\ Tiled(t, graph)
  BY <1>1, BesideFacts
<1>4. Sound' /\ State' = t /\ ev' = t.ev /\ ev' \in Evaluators /\ arrays' \in Extents
  BY <1>2, StateBecomes
<1>5. /\ ev'.bundle = ev.bundle /\ ev'.selected = ev.selected /\ ev'.policy = ev.policy
      /\ ev'.planned = ev.planned
  BY <1>1, <1>2, <1>4, StateIs DEF Kept
<1>6. TypeOK'
  BY <1>4 DEF PInv, TypeOK
<1>7. Asked'
  BY <1>5 DEF PInv, Asked
<1>8. Laid(State, graph)'
  BY <1>3, <1>4 DEF Laid, PlanEdges
<1>9. Tiled(State, graph)'
  BY <1>3, <1>4 DEF Tiled, Housed
<1>10. Token'
  <2>1. report'.plan = ev'.policy
    BY <1>5 DEF PInv, Token
  <2> QED
    BY <1>1, <1>8, <1>9, <2>1 DEF Token
<1>11. Results'
  <2> SUFFICES ASSUME pc' = "evaluated"
               PROVE  Answered(State, graph)' /\ Forwarded(State, graph)'
    BY DEF Results
  <2>1. Answered(t, graph) /\ Forwarded(t, graph)
    OBVIOUS
  <2>2. Answered(State, graph)'
    BY <1>4, <2>1 DEF Answered, PlanEdges
  <2>3. Forwarded(State, graph)'
    BY <1>4, <2>1 DEF Forwarded
  <2> QED
    BY <2>2, <2>3
<1> QED
  BY <1>4, <1>5, <1>6, <1>7, <1>10, <1>11 DEF PInv

\* What an evaluation, whole or failing, keeps beside the invariant.
Standing == /\ ev'.bundle = ev.bundle /\ ev'.selected = ev.selected
            /\ ev'.policy = ev.policy /\ ev'.planned = ev.planned

LEMMA Evaluation ==
  ASSUME PInv, Evaluate
  PROVE  PInv' /\ Standing
<1>1. /\ pc # "none" /\ Becomes(Evaluated(ensure_results(Begun, graph), graph))
      /\ pc' = "evaluated"
      /\ UNCHANGED <<conf, profile, debug, allowFixed, graph, report, prepared>>
  BY DEF Evaluate
<1>2. PICK b : b = Begun
  OBVIOUS
<1>3. Stored(b) /\ Tiled(b, graph) /\ Laid(b, graph) /\ graph \in Graphs
  BY <1>1, <1>2, BegunFacts
<1>4. PICK d : d = ensure_results(b, graph)
  OBVIOUS
<1>5. Stored(d) /\ Beside(b, d) /\ Answered(d, graph)
  BY <1>3, <1>4, EnsureFacts
<1>6. Tiled(d, graph)
  BY <1>3, <1>5, BesideFacts
<1>7. PICK t : t = Evaluated(d, graph)
  OBVIOUS
<1>8. /\ Stored(t) /\ Beside(d, t) /\ Forwarded(t, graph)
      /\ t.arrays.energies = d.arrays.energies /\ t.arrays.forces = d.arrays.forces
      /\ t.arrays.atomForces = d.arrays.atomForces
  BY <1>3, <1>5, <1>6, <1>7, EvaluatedFacts
<1>9. Beside(b, t)
  BY <1>5, <1>8 DEF Beside
<1>10. Answered(t, graph)
  BY <1>5, <1>8 DEF Answered, PlanEdges, Beside
<1>11. Becomes(t)
  BY <1>1, <1>2, <1>4, <1>7
<1> QED
  BY <1>1, <1>2, <1>8, <1>9, <1>10, <1>11, Evaluates DEF Standing

LEMMA EvaluationFailing ==
  ASSUME PInv, NEW n \in 0 .. 4, EvaluateFails(n)
  PROVE  PInv' /\ Standing
<1>1. PICK b : b = Begun
  OBVIOUS
<1>2. PICK d : d = ensure_results(b, graph)
  OBVIOUS
<1>3. PICK m : m = StateRows(d, graph)
  OBVIOUS
<1>4. /\ pc # "none" /\ pc' = "prepared"
      /\ UNCHANGED <<conf, profile, debug, allowFixed, graph, report, prepared>>
      /\ \/ n \in 0 .. 2 /\ Becomes(ResultSteps(b, graph, n))
         \/ Becomes([d EXCEPT !.arrays = [d.arrays EXCEPT !.A0 = NoView]])
         \/ Becomes([d EXCEPT !.arrays = [d.arrays EXCEPT !.A0 = Ensured(d.arrays.A0, m),
                                                          !.A1 = NoView]])
  <2>1. /\ pc # "none" /\ pc' = "prepared"
        /\ UNCHANGED <<conf, profile, debug, allowFixed, graph, report, prepared>>
        /\ \/ (n < 2 \/ n = 2) /\ Becomes(ResultSteps(b, graph, n))
           \/ Becomes([d EXCEPT !.arrays = [d.arrays EXCEPT !.A0 = NoView]])
           \/ Becomes([d EXCEPT !.arrays = [d.arrays EXCEPT !.A0 = Ensured(d.arrays.A0, m),
                                                            !.A1 = NoView]])
    BY <1>1, <1>2, <1>3, Zenon DEF EvaluateFails
  <2>2. (n < 2 \/ n = 2) => n \in 0 .. 2
    OBVIOUS
  <2> QED
    BY <2>1, <2>2, Zenon
<1>5. Stored(b) /\ Tiled(b, graph) /\ Laid(b, graph) /\ graph \in Graphs
  BY <1>1, <1>4, BegunFacts
<1>6. Stored(d) /\ Beside(b, d)
  BY <1>2, <1>5, EnsureFacts
<1>7. Tiled(d, graph) /\ m \in Counts /\ d.arrays.A0 \in Views /\ d.arrays.A1 \in Views
  <2>1. Tiled(d, graph)
    BY <1>5, <1>6, BesideFacts
  <2>2. m \in Counts
    BY <1>3, <1>5, <1>6, <2>1, ResultCounts
  <2>3. d.arrays.A0 \in Views /\ d.arrays.A1 \in Views
    BY <1>6, StateParts DEF Stored, Extents
  <2> QED
    BY <2>1, <2>2, <2>3
<1>8. \E t : Stored(t) /\ Beside(b, t) /\ Becomes(t)
  <2>1. CASE n \in 0 .. 2 /\ Becomes(ResultSteps(b, graph, n))
    <3>1. PICK t : t = ResultSteps(b, graph, n)
      OBVIOUS
    <3>2. n \in Stages
      BY <2>1 DEF Stages
    <3>3. Stored(t) /\ Beside(b, t)
      BY <1>5, <3>1, <3>2, ResultStepFacts
    <3> QED
      BY <2>1, <3>1, <3>3
  <2>2. CASE Becomes([d EXCEPT !.arrays = [d.arrays EXCEPT !.A0 = NoView]])
    <3>1. PICK a : a = [d.arrays EXCEPT !.A0 = NoView]
      OBVIOUS
    <3>2. PICK t : t = WithArrays(d, a)
      OBVIOUS
    <3>3. PICK w \in Views : w = d.arrays.A1
      BY <1>7
    <3>4. PICK v \in Views : v = NoView
      BY NoViewFacts
    <3>5. Viewed(d, a, v, w)
      BY <3>1, <3>3, <3>4 DEF Viewed
    <3>6. Stored(t) /\ Beside(d, t)
      BY <1>6, <3>2, <3>5, ViewFacts
    <3>7. Beside(b, t)
      BY <1>6, <3>6 DEF Beside
    <3>8. Becomes(t)
      BY <2>2, <3>1, <3>2, Zenon DEF WithArrays
    <3> QED
      BY <3>6, <3>7, <3>8
  <2>3. CASE Becomes([d EXCEPT !.arrays = [d.arrays EXCEPT !.A0 = Ensured(d.arrays.A0, m),
                                                           !.A1 = NoView]])
    <3>1. PICK v \in Views : v = Ensured(d.arrays.A0, m)
      BY <1>7, EnsuredFacts
    <3>2. PICK w \in Views : w = NoView
      BY NoViewFacts
    <3>3. PICK a : a = [d.arrays EXCEPT !.A0 = v, !.A1 = w]
      OBVIOUS
    <3>4. PICK t : t = WithArrays(d, a)
      OBVIOUS
    <3>5. Viewed(d, a, v, w)
      BY <3>3 DEF Viewed
    <3>6. Stored(t) /\ Beside(d, t)
      BY <1>6, <3>4, <3>5, ViewFacts
    <3>7. Beside(b, t)
      BY <1>6, <3>6 DEF Beside
    <3>8. Becomes(t)
      BY <2>3, <3>1, <3>2, <3>3, <3>4, Zenon DEF WithArrays
    <3> QED
      BY <3>6, <3>7, <3>8
  <2> QED
    BY <1>4, <2>1, <2>2, <2>3
<1>9. PICK t : Stored(t) /\ Beside(b, t) /\ Becomes(t)
  BY <1>8
<1>10. pc' \in {"prepared", "evaluated"} /\ pc' # "evaluated"
  BY <1>4
<1> QED
  BY <1>1, <1>4, <1>9, <1>10, Evaluates DEF Standing

LEMMA Inductive == PInv /\ [Next]_vars => PInv'
<1> SUFFICES ASSUME PInv, [Next]_vars PROVE PInv'
  OBVIOUS
<1>1. ASSUME NEW p \in Profiles, NEW d \in DebugPlans \cup {"none"}, Resolve(p, d)
      PROVE  PInv'
  BY <1>1, Resolves
<1>2. CASE set_allow_fixed_workspace
  BY <1>2, Allows
<1>3. ASSUME NEW g \in Graphs, NEW free \in FreeBytes \cup {Unknown},
             \/ Prepare(g, free) \/ PrepareRefused(g, free)
             \/ \E n \in 0 .. 2 : WorkspaceFails(g, free, n)
             \/ GeometryFails(g, free)
      PROVE  PInv'
  <2>0. free \in Answers
    BY DEF Answers
  <2>1. CASE Prepare(g, free)
    BY <2>0, <2>1, Prepares
  <2>2. CASE PrepareRefused(g, free)
    BY <2>0, <2>2, Refuses
  <2>3. ASSUME NEW n \in 0 .. 2, WorkspaceFails(g, free, n) PROVE PInv'
    BY <2>0, <2>3, WorkspaceFailing
  <2>4. CASE GeometryFails(g, free)
    BY <2>0, <2>4, GeometryFailing
  <2> QED
    BY <1>3, <2>1, <2>2, <2>3, <2>4
<1>4. CASE Evaluate
  BY <1>4, Evaluation
<1>5. ASSUME NEW n \in 0 .. 4, EvaluateFails(n) PROVE PInv'
  BY <1>5, EvaluationFailing
<1>6. CASE UNCHANGED vars
  BY <1>6 DEF vars, PInv, TypeOK, Sound, Asked, Token, Results, State, Stored, TiledYOnly,
              Laid, PlanEdges, Tiled, Housed, Answered, Forwarded
<1> QED
  BY <1>1, <1>2, <1>3, <1>4, <1>5, <1>6 DEF Next

-----------------------------------------------------------------------------
(***************************************************************************)
(* The report                                                              *)
(***************************************************************************)
LEMMA MinIs ==
  ASSUME NEW S, NEW m \in S, S \subseteq Nat, \A y \in S : m =< y
  PROVE  Min(S) = m
<1>1. PICK x : x = Min(S)
  OBVIOUS
<1>2. x \in S /\ \A y \in S : x =< y
  BY <1>1, Zenon DEF Min
<1> QED
  BY <1>1, <1>2

LEMMA CandidateSeq ==
  ASSUME NEW p, NEW c, NEW b \in BOOLEAN,
         c = <<"speed", p>> \o (IF b THEN <<"tiled">> ELSE <<>>)
  PROVE  /\ DOMAIN c = IF b THEN {1, 2, 3} ELSE {1, 2}
         /\ c[1] = "speed" /\ c[2] = p /\ (b => c[3] = "tiled")
<1>1. CASE b
  <2>0. PICK S : "speed" \in S /\ p \in S /\ "tiled" \in S
    <3>1. \E S : S = {"speed", p, "tiled"}
      OBVIOUS
    <3> QED
      BY <3>1
  <2>1. PICK q : q = <<"speed", p>>
    OBVIOUS
  <2>2. PICK r : r = <<"tiled">>
    OBVIOUS
  <2>3. c = q \o r
    BY <1>1, <2>1, <2>2, Zenon
  <2>4. /\ q \in Seq(S) /\ r \in Seq(S)
        /\ Len(q) = 2 /\ q[1] = "speed" /\ q[2] = p /\ Len(r) = 1 /\ r[1] = "tiled"
    BY <2>0, <2>1, <2>2
  <2>5. DOMAIN c = 1 .. 3 /\ c[1] = q[1] /\ c[2] = q[2] /\ c[3] = r[1]
    <3>1. PICK t : t = q \o r
      OBVIOUS
    <3>2. /\ t \in Seq(S) /\ Len(t) = 3
          /\ \A i \in 1 .. 3 : t[i] = IF i =< 2 THEN q[i] ELSE r[i - 2]
      <4>1. q \in Seq(S) /\ r \in Seq(S) /\ Len(q) = 2 /\ Len(r) = 1
        BY <2>4
      <4>2. /\ q \o r \in Seq(S) /\ Len(q \o r) = Len(q) + Len(r)
            /\ \A i \in 1 .. Len(q) + Len(r) :
                 (q \o r)[i] = IF i <= Len(q) THEN q[i] ELSE r[i - Len(q)]
        BY <4>1, ConcatProperties, Zenon
      <4> QED
        BY <3>1, <4>1, <4>2
    <3>3. t[1] = q[1] /\ t[2] = q[2] /\ t[3] = r[1]
      BY <3>2
    <3>4. DOMAIN t = 1 .. 3
      BY <3>2
    <3> QED
      BY <2>3, <3>1, <3>3, <3>4
  <2>6. DOMAIN c = {1, 2, 3}
    BY <2>5
  <2> QED
    BY <1>1, <2>4, <2>5, <2>6
<1>2. CASE ~b
  <2>1. c = <<"speed", p>>
    BY <1>2
  <2> QED
    BY <1>2, <2>1
<1> QED
  BY <1>1, <1>2

\* The candidates that fit, and the fastest of them.
FittingOf(c, est, available) == {i \in DOMAIN c : est[c[i]] =< available}

Fastest(c, est, available, plan) ==
  IF FittingOf(c, est, available) # {} THEN plan = c[Min(FittingOf(c, est, available))]
  ELSE \A i \in DOMAIN c : est[plan] =< est[c[i]]

\* Two or three candidates, in the order in which they are tried.
LEMMA FastestOf ==
  ASSUME NEW c, NEW p, NEW b \in BOOLEAN,
         DOMAIN c = IF b THEN {1, 2, 3} ELSE {1, 2},
         c[1] = "speed", c[2] = p, b => c[3] = "tiled",
         NEW est, NEW x \in Nat, NEW y \in Nat, NEW z \in Nat,
         est["speed"] = x, est[p] = y, est["tiled"] = z,
         NEW available \in Nat, NEW plan,
         \/ x =< available /\ plan = "speed"
         \/ x > available /\ y =< available /\ plan = p
         \/ x > available /\ y > available /\ b /\ plan = "tiled" /\ z =< x /\ z =< y
         \/ x > available /\ y > available /\ plan = p /\ y =< x
            /\ (b => z > available /\ y =< z)
  PROVE  Fastest(c, est, available, plan)
<1>1. PICK F : F = FittingOf(c, est, available)
  OBVIOUS
<1>2. F \subseteq Nat
  BY <1>1 DEF FittingOf
<1>3. /\ 1 \in F <=> x =< available
      /\ 2 \in F <=> y =< available
      /\ 3 \in F <=> b /\ z =< available
      /\ \A i \in F : i = 1 \/ i = 2 \/ i = 3
  BY <1>1 DEF FittingOf
<1>4. CASE x =< available /\ plan = "speed"
  <2>1. Min(F) = 1
    <3>1. 1 \in F /\ \A i \in F : 1 =< i
      BY <1>3, <1>4
    <3> QED
      BY <1>2, <3>1, MinIs
  <2> QED
    BY <1>1, <1>3, <1>4, <2>1 DEF Fastest
<1>5. CASE x > available /\ y =< available /\ plan = p
  <2>1. Min(F) = 2
    <3>1. 2 \in F /\ \A i \in F : 2 =< i
      BY <1>3, <1>5
    <3> QED
      BY <1>2, <3>1, MinIs
  <2> QED
    BY <1>1, <1>3, <1>5, <2>1 DEF Fastest
<1>6. CASE x > available /\ y > available /\ b /\ plan = "tiled" /\ z =< x /\ z =< y
  <2>1. CASE z =< available
    <3>1. Min(F) = 3
      <4>1. 3 \in F /\ \A i \in F : 3 =< i
        BY <1>3, <1>6, <2>1
      <4> QED
        BY <1>2, <4>1, MinIs
    <3> QED
      BY <1>1, <1>3, <1>6, <2>1, <3>1 DEF Fastest
  <2>2. CASE ~(z =< available)
    <3>1. F = {}
      BY <1>3, <1>6, <2>2
    <3>2. \A i \in DOMAIN c : est[plan] =< est[c[i]]
      BY <1>6
    <3> QED
      BY <1>1, <3>1, <3>2 DEF Fastest
  <2> QED
    BY <2>1, <2>2
<1>7. CASE x > available /\ y > available /\ plan = p /\ y =< x
           /\ (b => z > available /\ y =< z)
  <2>1. F = {}
    BY <1>3, <1>7
  <2>2. \A i \in DOMAIN c : est[plan] =< est[c[i]]
    BY <1>7
  <2> QED
    BY <1>1, <2>1, <2>2 DEF Fastest
<1> QED
  BY <1>4, <1>5, <1>6, <1>7

\* A budgeted capacity request chooses the fastest candidate that fits.
LEMMA ChoiceFastest ==
  ASSUME conf \in Configurations, conf.bundle, NEW e, e.selected \in Nat, NEW g \in Graphs,
         NEW free \in Answers, free # Unknown, profile = "capacity", debug = "none", NEW c,
         c = Candidates(e)
  PROVE  Fastest(c, Report(e, g, free).estimates, Available(e, free), Choose(e, g, free))
<1>1. PICK plan : plan = Choose(e, g, free)
  OBVIOUS
<1>2. PICK p : p = selected_capacity_policy(e)
  OBVIOUS
<1>3. PICK b \in BOOLEAN : b <=> allowFixed /\ tiled_admitted(e)
  OBVIOUS
<1>4. c = <<"speed", p>> \o (IF b THEN <<"tiled">> ELSE <<>>)
  BY <1>2, <1>3 DEF Candidates
<1>5. /\ DOMAIN c = IF b THEN {1, 2, 3} ELSE {1, 2}
      /\ c[1] = "speed" /\ c[2] = p /\ (b => c[3] = "tiled")
  BY <1>4, CandidateSeq
<1>6. PICK available \in Nat : available = Available(e, free)
  BY AvailableFacts
<1>7. PICK est : est = Report(e, g, free).estimates
  OBVIOUS
<1>8. p = (IF y_only_admitted(e) THEN "yOnly" ELSE "retained") /\ p # "tiled" /\ p \in Plans
  BY <1>2 DEF selected_capacity_policy, Plans
<1>9. /\ Estimates(e, g).speed = SpeedBytes(e, g) /\ Estimates(e, g).yOnly = YOnlyBytes(g)
      /\ Estimates(e, g).retained = RetainedBytes(g) /\ Estimates(e, g).tiled = TiledBytes(g)
  BY PlanBytes
<1>10. PICK x \in Nat : x = SpeedBytes(e, g)
  BY PlanBytes
<1>11. PICK y \in Nat : y = IF y_only_admitted(e) THEN YOnlyBytes(g) ELSE RetainedBytes(g)
  BY PlanBytes
<1>12. PICK z \in Nat : /\ z = Shown(e, g, free, "tiled") /\ z =< TiledBytes(g)
                        /\ plan # "tiled" => z = TiledBytes(g)
  <2>1. CASE plan = "tiled"
    <3>1. PICK z \in Nat : z = estimate_tiled_graph_bytes(g, g.segments)
      BY GraphFacts, TiledNat
    <3>2. z = Shown(e, g, free, "tiled")
      BY <1>1, <2>1, <3>1 DEF Shown
    <3>3. z =< TiledBytes(g)
      BY <3>1, TiledOrder DEF TiledBytes
    <3> QED
      BY <2>1, <3>1, <3>2, <3>3
  <2>2. CASE plan # "tiled"
    <3>1. PICK z \in Nat : z = TiledBytes(g)
      BY PlanBytes
    <3>2. z = Shown(e, g, free, "tiled")
      BY <1>1, <1>9, <2>2, <3>1 DEF Shown
    <3> QED
      BY <3>1, <3>2
  <2> QED
    BY <2>1, <2>2
<1>13. est["speed"] = x /\ est[p] = y /\ est["tiled"] = z
  <2>1. est["speed"] = Shown(e, g, free, "speed") /\ est[p] = Shown(e, g, free, p)
        /\ est["tiled"] = Shown(e, g, free, "tiled")
    BY <1>7, <1>8, ShownFacts DEF Plans
  <2>2. Shown(e, g, free, "speed") = x
    BY <1>9, <1>10 DEF Shown
  <2>3. Shown(e, g, free, p) = y
    BY <1>8, <1>9, <1>11 DEF Shown
  <2> QED
    BY <1>12, <2>1, <2>2, <2>3
<1>14. y =< x
  <2>1. CASE y_only_admitted(e)
    BY <1>10, <1>11, <2>1, PlanBytes
  <2>2. CASE ~y_only_admitted(e)
    <3>1. SpeedRetains(e, Edges(g))
      BY <2>2 DEF SpeedRetains
    <3> QED
      BY <1>10, <1>11, <2>2, <3>1, PlanBytes
  <2> QED
    BY <2>1, <2>2
<1>15. b => y_only_admitted(e)
  BY <1>3 DEF tiled_admitted
<1>16. \/ SpeedFits(e, g, free) /\ plan = "speed"
       \/ ~SpeedFits(e, g, free) /\ FixedTried(e, g, free) /\ plan = "tiled"
       \/ ~SpeedFits(e, g, free) /\ ~FixedTried(e, g, free) /\ plan = p
  <2>1. profile # "speed"
    OBVIOUS
  <2> QED
    BY <1>1, <1>2, <2>1, ChooseCases
<1>17. SpeedFits(e, g, free) <=> x =< available
  BY <1>6, <1>9, <1>10 DEF SpeedFits
<1>18. PICK w \in Nat : w = YOnlyBytes(g)
  BY PlanBytes
<1>19. PICK v \in Nat : v = TiledBytes(g)
  BY PlanBytes
<1>20. FixedTried(e, g, free) <=> b /\ w > available /\ v < w
  BY <1>3, <1>6, <1>9, <1>18, <1>19 DEF FixedTried
<1>21. z =< v /\ (plan # "tiled" => z = v) /\ (b => y = w)
  BY <1>11, <1>12, <1>15, <1>18, <1>19
<1>22. \/ x =< available /\ plan = "speed"
       \/ x > available /\ y =< available /\ plan = p
       \/ x > available /\ y > available /\ b /\ plan = "tiled" /\ z =< x /\ z =< y
       \/ x > available /\ y > available /\ plan = p /\ y =< x
          /\ (b => z > available /\ y =< z)
  <2>1. CASE SpeedFits(e, g, free) /\ plan = "speed"
    BY <1>17, <2>1
  <2>2. CASE ~SpeedFits(e, g, free) /\ FixedTried(e, g, free) /\ plan = "tiled"
    <3>1. ~(x =< available) /\ b /\ w > available /\ v < w
      BY <1>17, <1>20, <2>2
    <3> QED
      BY <1>14, <1>21, <2>2, <3>1
  <2>3. CASE ~SpeedFits(e, g, free) /\ ~FixedTried(e, g, free) /\ plan = p
    <3>1. ~(x =< available) /\ ~(b /\ w > available /\ v < w)
      BY <1>17, <1>20, <2>3
    <3>2. b => z = v /\ y = w
      BY <1>8, <1>21, <2>3
    <3> QED
      BY <1>14, <2>3, <3>1, <3>2
  <2> QED
    BY <1>16, <2>1, <2>2, <2>3
<1>23. Fastest(c, est, available, plan)
  BY <1>5, <1>13, <1>22, FastestOf
<1> QED
  BY <1>1, <1>6, <1>7, <1>23

\* A boundary attempt: no candidate fits.
LEMMA BoundaryNone ==
  ASSUME conf \in Configurations, NEW e, e.selected \in Nat, NEW g \in Graphs,
         NEW free \in Answers, NEW est, est = Report(e, g, free).estimates,
         NEW available \in Nat, BoundaryAttempt(e, est, available), NEW c, c = Candidates(e)
  PROVE  FittingOf(c, est, available) = {}
<1>1. PICK p : p = selected_capacity_policy(e)
  OBVIOUS
<1>2. PICK b \in BOOLEAN : b <=> allowFixed /\ tiled_admitted(e)
  OBVIOUS
<1>3. c = <<"speed", p>> \o (IF b THEN <<"tiled">> ELSE <<>>)
  BY <1>1, <1>2 DEF Candidates
<1>4. /\ DOMAIN c = IF b THEN {1, 2, 3} ELSE {1, 2}
      /\ c[1] = "speed" /\ c[2] = p /\ (b => c[3] = "tiled")
  BY <1>3, CandidateSeq
<1>5. p = "yOnly" \/ p = "retained"
  BY <1>1 DEF selected_capacity_policy
<1>6. /\ est["speed"] \in Nat /\ est["yOnly"] \in Nat /\ est["retained"] \in Nat
      /\ est["tiled"] \in Nat
  <2>1. /\ Estimates(e, g)["speed"] \in Nat /\ Estimates(e, g)["yOnly"] \in Nat
        /\ Estimates(e, g)["retained"] \in Nat /\ Estimates(e, g)["tiled"] \in Nat
    BY PlanBytes
  <2>2. estimate_tiled_graph_bytes(g, g.segments) \in Nat
    BY GraphFacts, TiledNat
  <2>3. \A plan \in Plans : est[plan] = Shown(e, g, free, plan)
    BY ShownFacts
  <2>4. \A plan \in Plans : Estimates(e, g)[plan] \in Nat
    BY <2>1 DEF Plans
  <2>5. \A plan \in Plans : est[plan] \in Nat
    BY <2>2, <2>3, <2>4 DEF Shown
  <2> QED
    BY <2>5 DEF Plans
<1>7. /\ est["speed"] > available /\ est["yOnly"] > available /\ est["retained"] > available
      /\ b => est["tiled"] > available
  BY <1>2 DEF BoundaryAttempt
<1>8. \A i \in DOMAIN c : ~(est[c[i]] =< available)
  <2>1. ~(est["speed"] =< available) /\ ~(est[p] =< available)
        /\ (b => ~(est["tiled"] =< available))
    BY <1>5, <1>6, <1>7
  <2> QED
    BY <1>4, <2>1
<1> QED
  BY <1>8 DEF FittingOf

\* The report and the bytes that are selected.
Reports == FastestFit /\ BoundaryHonest /\ WithinBudget

LEMMA ReportsPrepared ==
  ASSUME PInv, NEW g \in Graphs, NEW free \in Answers, Prepare(g, free)
  PROVE  Reports'
<1>1. PICK e : e = Released(State).ev
  OBVIOUS
<1>2. PICK t : PlannedWell(t, e, g, free) /\ PrepareTo(t)
  BY <1>1, PreparedFacts
<1>3. /\ conf' = conf /\ profile' = profile /\ debug' = debug /\ allowFixed' = allowFixed
      /\ ev' = t.ev /\ report' = Report(e, g, free)
  BY <1>1, <1>2 DEF Prepare, PrepareTo, Becomes
<1>4. conf \in Configurations /\ Stored(State) /\ (profile = "capacity" => conf.bundle)
  BY DEF PInv, TypeOK, Sound, Asked
<1>5. e.selected \in Nat
  <2>1. Stored(Released(State))
    BY <1>4, ReleasedFacts
  <2> QED
    BY <1>1, <2>1, StateParts DEF Stored, Evaluators
<1>6. PICK c : c = Candidates(e)
  OBVIOUS
<1>7. profile = "capacity" => Candidates(ev)' = c
  <2> SUFFICES ASSUME profile = "capacity" PROVE Candidates(ev)' = c
    OBVIOUS
  <2>1. e.bundle /\ ev'.bundle
    BY <1>2, <1>3 DEF PlannedWell
  <2>2. y_only_admitted(ev)' <=> y_only_admitted(e)
    BY <1>3, <2>1 DEF y_only_admitted
  <2>3. tiled_admitted(ev)' <=> tiled_admitted(e)
    BY <1>3, <2>2 DEF tiled_admitted
  <2>4. selected_capacity_policy(ev)' = selected_capacity_policy(e)
    BY <2>2 DEF selected_capacity_policy
  <2> QED
    BY <1>3, <1>6, <2>3, <2>4 DEF Candidates
<1>8. PICK rep : rep = Report(e, g, free)
  OBVIOUS
<1>9. PICK available \in Nat : available = Available(e, free)
  BY <1>5, AvailableFacts
<1>10. /\ rep.plan = Choose(e, g, free) /\ rep.available = available /\ Flagged(rep, e, free)
  BY <1>8, <1>9, ReportFacts
<1>11. report' = rep
  BY <1>3, <1>8
<1>12. profile = "capacity" => Fitting(ev)' = FittingOf(c, rep.estimates, available)
  BY <1>7, <1>10, <1>11 DEF Fitting, FittingOf
<1>13. rep.known <=> free # Unknown
  BY <1>10 DEF Flagged
<1>14. FastestFit'
  <2> SUFFICES ASSUME Budgeted', debug' = "none"
               PROVE  (IF Fitting(ev) # {} THEN report.plan = Candidates(ev)[Min(Fitting(ev))]
                       ELSE \A i \in DOMAIN Candidates(ev) :
                              report.estimates[report.plan]
                                =< report.estimates[Candidates(ev)[i]])'
    BY DEF FastestFit
  <2>1. free # Unknown /\ profile = "capacity" /\ debug = "none"
    BY <1>3, <1>11, <1>13 DEF Budgeted
  <2>2. Fastest(c, rep.estimates, available, rep.plan)
    BY <1>4, <1>5, <1>6, <1>8, <1>9, <1>10, <2>1, ChoiceFastest
  <2> QED
    BY <1>7, <1>11, <1>12, <2>1, <2>2 DEF Fastest
<1>15. BoundaryHonest'
  <2> SUFFICES ASSUME report'.known, report'.boundary
               PROVE  Fitting(ev)' = {}
    BY DEF BoundaryHonest
  <2>1. profile = "capacity" /\ BoundaryAttempt(e, rep.estimates, available)
    BY <1>9, <1>10, <1>11 DEF Flagged
  <2>2. FittingOf(c, rep.estimates, available) = {}
    BY <1>4, <1>5, <1>6, <1>8, <2>1, BoundaryNone
  <2> QED
    BY <1>12, <2>1, <2>2
<1>16. WithinBudget'
  <2> SUFFICES ASSUME Budgeted', report'.estimates[report'.plan] =< report'.available
               PROVE  ev'.selected =< report'.available
    BY DEF WithinBudget
  <2>1. free # Unknown /\ profile = "capacity"
    BY <1>3, <1>11, <1>13 DEF Budgeted
  <2>2. InBudget(t, e, g, free)
    BY <1>2, <2>1 DEF PlannedWell
  <2> QED
    BY <1>3, <1>8, <1>9, <1>10, <1>11, <2>2 DEF InBudget
<1> QED
  BY <1>14, <1>15, <1>16 DEF Reports

\* Without a token there is nothing to report.
LEMMA NoToken ==
  ASSUME pc' = "none"
  PROVE  Reports'
  BY DEF Reports, FastestFit, BoundaryHonest, WithinBudget, Budgeted

\* The report stays true while its graph is evaluated.
LEMMA ReportsKept ==
  ASSUME Reports, pc # "none", ev'.bundle = ev.bundle, ev'.selected = ev.selected,
         UNCHANGED <<conf, profile, debug, allowFixed, report>>
  PROVE  Reports'
<1>1. /\ conf' = conf /\ profile' = profile /\ debug' = debug /\ allowFixed' = allowFixed
      /\ report' = report
  OBVIOUS
<1>2. y_only_admitted(ev)' <=> y_only_admitted(ev)
  BY <1>1 DEF y_only_admitted
<1>3. tiled_admitted(ev)' <=> tiled_admitted(ev)
  BY <1>1, <1>2 DEF tiled_admitted
<1>4. selected_capacity_policy(ev)' = selected_capacity_policy(ev)
  BY <1>2 DEF selected_capacity_policy
<1>5. Candidates(ev)' = Candidates(ev)
  BY <1>1, <1>3, <1>4 DEF Candidates
<1>6. Fitting(ev)' = Fitting(ev)
  BY <1>1, <1>5 DEF Fitting
<1>7. Budgeted' => Budgeted
  BY <1>1 DEF Budgeted
<1>8. FastestFit'
  BY <1>1, <1>5, <1>6, <1>7 DEF Reports, FastestFit
<1>9. BoundaryHonest'
  BY <1>1, <1>6 DEF Reports, BoundaryHonest
<1>10. WithinBudget'
  BY <1>1, <1>7 DEF Reports, WithinBudget
<1> QED
  BY <1>8, <1>9, <1>10 DEF Reports

LEMMA ReportsInductive == PInv /\ Reports /\ [Next]_vars => Reports'
<1> SUFFICES ASSUME PInv, Reports, [Next]_vars PROVE Reports'
  OBVIOUS
<1>1. ASSUME NEW p, NEW d, Resolve(p, d) PROVE Reports'
  BY <1>1, NoToken DEF Resolve, Invalidated
<1>2. CASE set_allow_fixed_workspace
  BY <1>2, NoToken DEF set_allow_fixed_workspace, Invalidated
<1>3. ASSUME NEW g \in Graphs, NEW free \in FreeBytes \cup {Unknown},
             \/ Prepare(g, free) \/ PrepareRefused(g, free)
             \/ \E n \in 0 .. 2 : WorkspaceFails(g, free, n)
             \/ GeometryFails(g, free)
      PROVE  Reports'
  <2>1. CASE Prepare(g, free)
    <3>1. free \in Answers
      BY DEF Answers
    <3> QED
      BY <2>1, <3>1, ReportsPrepared
  <2>2. CASE PrepareRefused(g, free)
    BY <2>2, NoToken DEF PrepareRefused, Invalidated
  <2>3. ASSUME NEW n \in 0 .. 2, WorkspaceFails(g, free, n) PROVE Reports'
    BY <2>3, NoToken DEF WorkspaceFails, Invalidated
  <2>4. CASE GeometryFails(g, free)
    BY <2>4, NoToken DEF GeometryFails, Invalidated
  <2> QED
    BY <1>3, <2>1, <2>2, <2>3, <2>4
<1>4. CASE Evaluate
  <2>1. pc # "none" /\ UNCHANGED <<conf, profile, debug, allowFixed, report>>
    BY <1>4 DEF Evaluate
  <2> QED
    BY <1>4, <2>1, Evaluation, ReportsKept DEF Standing
<1>5. ASSUME NEW n \in 0 .. 4, EvaluateFails(n) PROVE Reports'
  <2>1. pc # "none" /\ UNCHANGED <<conf, profile, debug, allowFixed, report>>
    BY <1>5, Zenon DEF EvaluateFails
  <2> QED
    BY <1>5, <2>1, EvaluationFailing, ReportsKept DEF Standing
<1>6. CASE UNCHANGED vars
  <2>1. CASE pc = "none"
    BY <1>6, <2>1, NoToken DEF vars
  <2>2. CASE pc # "none"
    BY <1>6, <2>2, ReportsKept DEF vars
  <2> QED
    BY <2>1, <2>2
<1> QED
  BY <1>1, <1>2, <1>3, <1>4, <1>5, <1>6 DEF Next

LEMMA ReportsInitially == Init => Reports
  BY DEF Init, Reports, FastestFit, BoundaryHonest, WithinBudget, Budgeted

-----------------------------------------------------------------------------
(***************************************************************************)
(* Theorems                                                                *)
(***************************************************************************)

\* Every capacity that the planner records and every extent of an array stays
\* a count that an int holds, through the high-water slack and the doubling of
\* the geometry capacity.
THEOREM TypeCorrect == Spec => []TypeOK
<1>1. PInv => TypeOK
  BY Invariant
<1> QED
  BY Initially, Inductive, <1>1, PTL DEF Spec

\* Whatever plans, requests and failed allocations came before, the arrays of
\* a graph with a valid token hold it: reserve_execution_geometry_workspace,
\* the tiled workspaces and ensure_execution_result_capacity leave no array
\* that is too short for the plan that runs.
THEOREM Covered == Spec => []ArraysCover
<1>1. PInv => ArraysCover
  BY Invariant
<1> QED
  BY Initially, Inductive, <1>1, PTL DEF Spec

\* A capacity request runs the fastest qualified plan whose estimate fits the
\* budget of its device query, and the smallest where none fits
\* (select_low_memory_policy_for_graph).
THEOREM FastestPlan == Spec => []FastestFit
<1>1. Reports => FastestFit
  BY DEF Reports
<1> QED
  BY Initially, Inductive, ReportsInitially, ReportsInductive, <1>1, PTL DEF Spec

\* A boundary attempt is reported only where no qualified candidate fits
\* (refresh_execution_plan_report).
THEOREM HonestBoundary == Spec => []BoundaryHonest
<1>1. Reports => BoundaryHonest
  BY DEF Reports
<1> QED
  BY Initially, Inductive, ReportsInitially, ReportsInductive, <1>1, PTL DEF Spec

\* The high-water capacity that is planned for later graphs never takes a
\* capacity request past its budget.
THEOREM BudgetKept == Spec => []WithinBudget
<1>1. Reports => WithinBudget
  BY DEF Reports
<1> QED
  BY Initially, Inductive, ReportsInitially, ReportsInductive, <1>1, PTL DEF Spec
=============================================================================
