------------------------------ MODULE MCDirLock ------------------------------
(***************************************************************************)
(* Instances of DirLock for TLC.                                           *)
(***************************************************************************)
EXTENDS DirLock

CONSTANTS Here, There, Far  \* two hosts; the process on the second, if any

MCHostOf == [p \in Proc |-> IF p = Far THEN There ELSE Here]
=============================================================================
