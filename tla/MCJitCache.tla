----------------------------- MODULE MCJitCache -----------------------------
(***************************************************************************)
(* Instances of JitCache for TLC.                                          *)
(***************************************************************************)
EXTENDS JitCache

\* A cache that holds nothing yet.
EmptySpec == Init /\ entry = None /\ [][Next]_vars
=============================================================================
