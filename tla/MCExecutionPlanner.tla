------------------------- MODULE MCExecutionPlanner -------------------------
(* Graphs below and above the tile limit of two receivers and a device on    *)
(* which speed, Y-only and tiled are each the fastest that fits for some.    *)
EXTENDS ExecutionPlanner

MCGraphs ==
  {NoGraph,
   [degrees |-> <<4>>, features |-> 1, segments |-> 3],
   [degrees |-> <<4, 4, 3>>, features |-> 5, segments |-> 6]}

MCCost ==
  [base |-> 2, receiver |-> 3, adjoint |-> 2, feature |-> 1, edge |-> 1,
   geometry |-> 2, gradient |-> 2, tiledBase |-> 1, tiledReceiver |-> 1,
   tiledEdge |-> 1, tiledState |-> 1, tiledFeature |-> 1, workspaceRow |-> 2,
   workspaceEdge |-> 2, segment |-> 1]

\* A two-layer and a one-layer model with every plan (CUDA), of which the
\* FP32 one prefers Y-only, a CPU model without Y-only, and one with the speed
\* plan only.
MCConfs ==
  {[bundle |-> TRUE, yOnly |-> TRUE, tiled |-> TRUE, throughputYOnly |-> FALSE,
    compact |-> FALSE, dual |-> TRUE],
   [bundle |-> TRUE, yOnly |-> TRUE, tiled |-> TRUE, throughputYOnly |-> TRUE,
    compact |-> TRUE, dual |-> FALSE],
   [bundle |-> TRUE, yOnly |-> FALSE, tiled |-> FALSE, throughputYOnly |-> FALSE,
    compact |-> FALSE, dual |-> FALSE],
   [bundle |-> FALSE, yOnly |-> FALSE, tiled |-> FALSE, throughputYOnly |-> FALSE,
    compact |-> FALSE, dual |-> FALSE]}

MCFreeBytes == {24, 60}

MCDebugPlans == {"tiled"}
=============================================================================
