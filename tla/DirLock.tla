------------------------------- MODULE DirLock -------------------------------
(***************************************************************************)
(* _directory_key_lock of symmetrix/source/symmetrix/jit.py: a lock made   *)
(* of a directory `<key>.lock.d' and an owner file inside it.  Acquiring   *)
(* is an atomic mkdir; everything else (the owner file, the staleness      *)
(* test, the takeover, the release) is a sequence of file-system calls     *)
(* that name the directory by its path and so act on whatever directory    *)
(* has that path by then.                                                  *)
(***************************************************************************)
EXTENDS Naturals

CONSTANTS
  Proc,    \* processes that want the lock, each once
  HostOf,  \* the host of each process: os.kill(pid, 0) only works on one's own
  Faults,  \* what a run admits: "crash", "age", "timeout"
  None

ASSUME LockAssumption ==
  /\ None \notin Proc
  /\ Faults \subseteq {"crash", "age", "timeout"}

VARIABLES
  lock,  \* the directory at the lock's path, or None
  pc,    \* where each process is
  stolen \* history: a lock directory was taken over

vars == <<lock, pc, stolen>>

\* `aged': stale_age has passed since created_at (owner file) or since the
\* last change of the directory (its modification time).
Owner == [token : Proc, aged : BOOLEAN]
Dir == [owner : Owner \cup {None}, aged : BOOLEAN]

ASSUME NoneAssumption == None \notin Owner /\ None \notin Dir

Ended == {"done", "failed", "dead"}
Points == {"try", "own", "ownfailed", "look", "stat", "steal", "wait", "held",
           "release", "unlink", "rmdir"} \cup Ended

TypeOK ==
  /\ lock \in Dir \cup {None}
  /\ pc \in [Proc -> Points]
  /\ stolen \in BOOLEAN

Init ==
  /\ lock = None
  /\ pc = [p \in Proc |-> "try"]
  /\ stolen = FALSE

Goto(p, l) == pc' = [pc EXCEPT ![p] = l] /\ UNCHANGED stolen

\* The owner a process reads from the path, None when there is none.
ReadOwner == IF lock = None THEN None ELSE lock.owner

\* _owner_is_stale, as process p judges it.
Stale(p, owner) ==
  \/ owner.aged
  \/ HostOf[owner.token] = HostOf[p] /\ pc[owner.token] = "dead"

-----------------------------------------------------------------------------
\* Acquisition

\* Mutant: mkdir(exist_ok=True).
MkdirAnyway(p) ==
  /\ pc[p] = "try"
  /\ lock' = [owner |-> None, aged |-> FALSE]
  /\ Goto(p, "own")

Mkdir(p) ==
  /\ pc[p] = "try"
  /\ IF lock = None
     THEN lock' = [owner |-> None, aged |-> FALSE] /\ Goto(p, "own")
     ELSE Goto(p, "look") /\ UNCHANGED lock

\* Mutant: the file holds the bare token, not the owner record.
WriteToken(p) ==
  /\ pc[p] = "own"
  /\ IF lock # None
     THEN /\ lock' = [owner |-> p, aged |-> FALSE]
          /\ Goto(p, "held")
     ELSE Goto(p, "ownfailed") /\ UNCHANGED lock

\* owner_path.write_text: into the directory now at the path.
WriteOwner(p) ==
  /\ pc[p] = "own"
  /\ IF lock # None
     THEN /\ lock' = [owner |-> [token |-> p, aged |-> FALSE], aged |-> FALSE]
          /\ Goto(p, "held")
     ELSE Goto(p, "ownfailed") /\ UNCHANGED lock

\* `except OSError': rmtree of the path, then raise.
WriteOwnerFailed(p) ==
  /\ pc[p] = "ownfailed"
  /\ lock' = None
  /\ Goto(p, "failed")

\* FileExistsError: read the owner file, if any, and judge it.
Look(p) ==
  /\ pc[p] = "look"
  /\ Goto(p, IF ReadOwner = None THEN "stat"
             ELSE IF Stale(p, ReadOwner) THEN "steal" ELSE "wait")
  /\ UNCHANGED lock

\* Mutant: a directory without an owner file is never stale.
StatNever(p) ==
  /\ pc[p] = "stat"
  /\ Goto(p, IF lock = None THEN "try" ELSE "wait")
  /\ UNCHANGED lock

\* No owner: the directory's own modification time decides.
Stat(p) ==
  /\ pc[p] = "stat"
  /\ Goto(p, IF lock = None THEN "try" ELSE IF lock.aged THEN "steal" ELSE "wait")
  /\ UNCHANGED lock

\* os.replace of the path by a `.stale-' name, whatever is at the path now.
Steal(p) ==
  /\ pc[p] = "steal"
  /\ lock' = None
  /\ stolen' = (stolen \/ lock # None)
  /\ pc' = [pc EXCEPT ![p] = "try"]

\* Not stale: sleep and try again, or give up at the deadline.
Wait(p) ==
  /\ pc[p] = "wait"
  /\ Goto(p, "try")
  /\ UNCHANGED lock

Timeout(p) ==
  /\ "timeout" \in Faults
  /\ pc[p] = "wait"
  /\ Goto(p, "failed")
  /\ UNCHANGED lock

-----------------------------------------------------------------------------
\* Release

Leave(p) ==
  /\ pc[p] = "held"
  /\ Goto(p, "release")
  /\ UNCHANGED lock

\* Only an owner file with one's own token is removed.
Release(p) ==
  /\ pc[p] = "release"
  /\ Goto(p, IF ReadOwner # None /\ ReadOwner.token = p THEN "unlink" ELSE "done")
  /\ UNCHANGED lock

\* Mutant: only the owner file is removed.
UnlinkOnly(p) ==
  /\ pc[p] = "unlink"
  /\ lock' = IF lock = None THEN None ELSE [owner |-> None, aged |-> FALSE]
  /\ Goto(p, "done")

\* rmtree: the owner file first, then the directory if it is empty.
Unlink(p) ==
  /\ pc[p] = "unlink"
  /\ lock' = IF lock = None THEN None ELSE [owner |-> None, aged |-> FALSE]
  /\ Goto(p, "rmdir")

Rmdir(p) ==
  /\ pc[p] = "rmdir"
  /\ lock' = IF ReadOwner = None THEN None ELSE lock
  /\ Goto(p, "done")

-----------------------------------------------------------------------------
Crash(p) ==
  /\ "crash" \in Faults
  /\ pc[p] \notin Ended
  /\ Goto(p, "dead")
  /\ UNCHANGED lock

\* stale_age passes for the directory at the path and for its owner file.
Age ==
  /\ "age" \in Faults
  /\ lock # None
  /\ lock' = [owner |-> IF lock.owner = None THEN None
                        ELSE [lock.owner EXCEPT !.aged = TRUE],
              aged |-> TRUE]
  /\ lock' # lock
  /\ UNCHANGED <<pc, stolen>>

Step(p) ==
  \/ Mkdir(p) \/ WriteOwner(p) \/ WriteOwnerFailed(p) \/ Look(p) \/ Stat(p)
  \/ Steal(p) \/ Wait(p) \/ Timeout(p)
  \/ Leave(p) \/ Release(p) \/ Unlink(p) \/ Rmdir(p)

Finished == (\A p \in Proc : pc[p] \in Ended) /\ UNCHANGED vars

Next == (\E p \in Proc : Step(p) \/ Crash(p)) \/ Age \/ Finished

\* Live processes are scheduled and time passes.
Fairness == (\A p \in Proc : WF_vars(Step(p))) /\ WF_vars(Age)

Spec == Init /\ [][Next]_vars
FairSpec == Spec /\ Fairness

-----------------------------------------------------------------------------
\* Properties

\* As long as no lock directory has been taken over, one process at a time is
\* inside, whatever crashes, ages or times out
\* (test_directory_key_lock_serializes_publishers).
Exclusion ==
  ~stolen => \A p, q \in Proc : pc[p] = "held" /\ pc[q] = "held" => p = q

\* A directory is only taken over when the owner it shows is stale
\* (test_directory_key_lock_does_not_steal_fresh_ownerless_lock).
FreshNotStolen ==
  [][\A p \in Proc :
        pc[p] = "steal" /\ pc'[p] = "try" /\ lock # None =>
          IF lock.owner = None THEN lock.aged ELSE Stale(p, lock.owner)]_vars

\* A lock left by a crash, with or without its owner file, never blocks the
\* others for ever, even if nobody gave up at the deadline.
CrashRecovered == \A p \in Proc : <>(pc[p] \in Ended)

\* Although live holders may lose their directory to a takeover when it ages,
\* and then write and remove files in somebody else's, nothing is left behind:
\* once everyone has ended without a crash the path is free again.
LeftFree ==
  (\A p \in Proc : pc[p] \in {"done", "failed"}) => lock = None
=============================================================================
