----------------------------- MODULE MCJitStore -----------------------------
(* The instance of JitStore for TLC. *)
EXTENDS JitStore
=============================================================================
