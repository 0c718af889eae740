-------------------------- MODULE MCNeighborCache --------------------------
(***************************************************************************)
(* Instances of NeighborCache for TLC.  Cells and positions are numbers;   *)
(* 0 is a cell without an inverse.                                         *)
(***************************************************************************)
EXTENDS NeighborCache, Integers

Distance(i, j) == IF i < j THEN j - i ELSE i - j

\* Together the displacement and the deformation stay within a skin of 1.
\* Without a skin nothing may move, but the cell may have grown.
MCNear(s, t, a) ==
  IF s THEN Distance(t.pos, a.pos) + Distance(t.cell, a.cell) <= 1
  ELSE t.pos = a.pos /\ t.cell <= a.cell

\* Positions 0 and 1 give the same sources and degrees, with other shifts.
MCPairs(t) == <<t.kind, t.pos \div 2>>

MCTiled == {<<k, 1>> : k \in Full}

CONSTANTS bulk, gas

Direct == [mode |-> "direct", field |-> FALSE, single |-> FALSE, skin |-> TRUE,
           tiled |-> TRUE, kinds |-> Kind, device |-> {},
           requests |-> {"native", "explicit"}, faults |-> {}]

\* Graphs built on the host; graphs built on the device where eligible; a
\* field-coupled model of one species; the generic mode with and without a skin.
Host == [Direct EXCEPT !.faults = {"graph", "geometry", "policy"}]
OnDevices == [Direct EXCEPT !.device = {bulk}, !.requests = {"native"},
                            !.faults = FaultKinds \ {"tables"}]
Fields == [Direct EXCEPT !.field = TRUE, !.kinds = {bulk}, !.device = {bulk},
                         !.requests = RequestKinds, !.faults = FaultKinds]
Generic(r) == [Direct EXCEPT !.mode = "generic", !.requests = {r},
                             !.faults = {"graph", "geometry"}]

\* Without a skin: one layer, which keeps the cache, in both modes; two layers
\* that may take a fixed-workspace plan, and have a cache only under one; two
\* layers that may not, and never have one; and field coupling, where
\* permitting such plans has no effect.
NoSkin == [Direct EXCEPT !.skin = FALSE, !.requests = {"native"}]
NoSkinSetups ==
  {[NoSkin EXCEPT !.faults = {"policy"}],
   [NoSkin EXCEPT !.single = TRUE, !.faults = {"graph", "geometry", "policy"}],
   [NoSkin EXCEPT !.single = TRUE, !.mode = "generic"],
   [NoSkin EXCEPT !.tiled = FALSE, !.faults = {"graph", "policy"}],
   [NoSkin EXCEPT !.field = TRUE, !.kinds = {bulk}],
   [NoSkin EXCEPT !.mode = "generic"]}

AllSetups ==
  {Host, OnDevices, Fields, Generic("native"), Generic("explicit")} \cup NoSkinSetups

\* A two-layer model whose table preparation may fail.
TablesSetup == {[Direct EXCEPT !.faults = {"tables"}]}
=============================================================================
