--------------------------- MODULE ArtifactStore ---------------------------
(***************************************************************************)
(* What the JIT cache promises its clients for one key: a slot that holds  *)
(* at most one publication, filled and emptied atomically, never           *)
(* overwritten and never filled twice with the same publication; and       *)
(* clients that are handed only what was published, and only while the     *)
(* slot's content is what they were told it is.                            *)
(***************************************************************************)
CONSTANTS
  Client,  \* the processes that use the key
  Item,    \* publications: records with fields pub and digest
  None     \* an empty slot, or nothing handed out

VARIABLES
  slot,       \* the publication in the slot, or None
  published,  \* every publication the slot has held
  served      \* what each client was handed last, or None

vars == <<slot, published, served>>

Init ==
  /\ slot \in Item \cup {None}
  /\ published = {slot} \ {None}
  /\ served = [c \in Client |-> None]

\* A new publication fills the empty slot.
Publish ==
  \E m \in Item :
    /\ slot = None
    /\ \A old \in published : old.pub # m.pub
    /\ slot' = m
    /\ published' = published \cup {m}
    /\ UNCHANGED served

\* Someone takes the publication out of the slot.
Withdraw ==
  /\ slot' = None
  /\ UNCHANGED <<published, served>>

\* A client is handed a publication whose content the slot has at that moment.
Serve(c) ==
  \E m \in published :
    /\ slot # None
    /\ slot.digest = m.digest
    /\ served' = [served EXCEPT ![c] = m]
    /\ UNCHANGED <<slot, published>>

\* A client gives up, or dies.
Drop(c) ==
  /\ served' = [served EXCEPT ![c] = None]
  /\ UNCHANGED <<slot, published>>

Next ==
  \/ Publish
  \/ Withdraw
  \/ \E c \in Client : Serve(c) \/ Drop(c)

Spec == Init /\ [][Next]_vars
=============================================================================
