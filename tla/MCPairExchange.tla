--------------------------- MODULE MCPairExchange ---------------------------
(* Two ranks and three force evaluations. *)
EXTENDS PairExchange

CONSTANTS r0, r1

MCRanks == {r0, r1}
MCRoot == r0
=============================================================================
