---------------------------- MODULE DirLockProofs ----------------------------
(***************************************************************************)
(* Proofs about DirLock for any number of processes, hosts and faults: the *)
(* type invariant, mutual exclusion up to the first takeover, and that the *)
(* lock's path is free once everyone has ended without a crash.            *)
(***************************************************************************)
EXTENDS DirLock, TLAPS

Inside == {"own", "held", "release", "unlink", "rmdir"}

\* Whoever is inside is alone, and the directory at the path is its own.
OneInside ==
  /\ \A p, q \in Proc : pc[p] \in Inside /\ pc[q] \in Inside => p = q
  /\ \A p \in Proc :
       /\ pc[p] # "ownfailed"
       /\ pc[p] \in Inside => lock # None
       /\ pc[p] \in {"held", "release", "unlink"}
            => lock.owner # None /\ lock.owner.token = p
       /\ pc[p] = "rmdir" => lock.owner = None

LInv == TypeOK /\ (~stolen => OneInside)

-----------------------------------------------------------------------------
\* The directories the code makes.
LEMMA NewDirs ==
  /\ [owner |-> None, aged |-> FALSE] \in Dir
  /\ \A p \in Proc : [owner |-> [token |-> p, aged |-> FALSE], aged |-> FALSE] \in Dir
  BY DEF Dir, Owner

\* Every step keeps the types.
LEMMA TypeStep == TypeOK /\ [Next]_vars => TypeOK'
<1> SUFFICES ASSUME TypeOK, [Next]_vars PROVE TypeOK'
  OBVIOUS
<1> USE NoneAssumption DEF TypeOK
<1>1. ASSUME NEW p \in Proc, Step(p) \/ Crash(p) PROVE TypeOK'
  <2>1. lock' \in Dir \cup {None}
    BY <1>1, NewDirs DEF Step, Crash, Mkdir, WriteOwner, WriteOwnerFailed, Look, Stat,
       Steal, Wait, Timeout, Leave, Release, Unlink, Rmdir
  <2>2. pc' \in [Proc -> Points] /\ stolen' \in BOOLEAN
    BY <1>1 DEF Step, Crash, Mkdir, WriteOwner, WriteOwnerFailed, Look, Stat, Steal,
       Wait, Timeout, Leave, Release, Unlink, Rmdir, Goto, Points, Ended
  <2> QED
    BY <2>1, <2>2
<1>2. CASE Age
  BY <1>2 DEF Age, Dir, Owner
<1>3. CASE UNCHANGED vars
  BY <1>3 DEF vars
<1> QED
  BY <1>1, <1>2, <1>3 DEF Next, Finished

\* The type invariant of _directory_key_lock's steps.
THEOREM TypeCorrect == Spec => []TypeOK
<1>1. Init => TypeOK
  BY DEF Init, TypeOK, Points
<1> QED
  BY <1>1, TypeStep, PTL DEF Spec

\* A takeover is remembered.
LEMMA StolenStays == TypeOK /\ [Next]_vars /\ ~stolen' => ~stolen
  BY DEF TypeOK, Next, Step, Crash, Age, Finished, Mkdir, WriteOwner, WriteOwnerFailed,
     Look, Stat, Steal, Wait, Timeout, Leave, Release, Unlink, Rmdir, Goto, vars

\* Before the first takeover of a lock directory one process at a time is
\* inside the lock, whatever crashes, ages or times out.
THEOREM Serialized == Spec => []Exclusion
<1>1. Init => LInv
  BY DEF Init, LInv, TypeOK, OneInside, Points, Inside
<1>2. LInv /\ [Next]_vars => LInv'
  <2> SUFFICES ASSUME TypeOK, OneInside, [Next]_vars, ~stolen, ~stolen'
               PROVE  OneInside'
    BY TypeStep, StolenStays DEF LInv
  <2> USE LockAssumption, NoneAssumption
  <2>1. ASSUME NEW p \in Proc, Step(p) PROVE OneInside'
    <3> USE DEF Goto, TypeOK
    <3>1. CASE Mkdir(p)
      <4>1. CASE lock # None
        BY <3>1, <4>1 DEF Mkdir, OneInside, Inside
      <4>2. CASE lock = None
        <5>0. /\ lock' = [owner |-> None, aged |-> FALSE]
              /\ pc' = [pc EXCEPT ![p] = "own"]
          BY <3>1, <4>2 DEF Mkdir
        <5>1. lock' \in Dir
          BY <5>0, NewDirs
        <5>2. \A q \in Proc : pc[q] \notin Inside
          BY <4>2 DEF OneInside
        <5>3. pc'[p] = "own" /\ lock' # None
          BY <5>0, <5>1
        <5>4. \A q \in Proc : q # p => pc'[q] = pc[q]
          BY <5>0
        <5>5. \A q \in Proc : q # p => pc'[q] \notin Inside /\ pc'[q] # "ownfailed"
          BY <5>2, <5>4 DEF OneInside
        <5> HIDE DEF TypeOK
        <5> QED
          BY <5>3, <5>5 DEF OneInside, Inside
      <4> QED
        BY <4>1, <4>2
    <3>2. CASE WriteOwner(p)
      <4> DEFINE o == [token |-> p, aged |-> FALSE]
      <4>0. lock # None
        BY <3>2 DEF WriteOwner, OneInside, Inside
      <4>1. lock' = [owner |-> o, aged |-> FALSE] /\ pc' = [pc EXCEPT ![p] = "held"]
        BY <3>2, <4>0 DEF WriteOwner
      <4>2. o \in Owner /\ o.token = p
        BY DEF Owner
      <4> HIDE DEF o
      <4>3. lock' \in Dir /\ lock'.owner = o /\ o # None
        BY <4>1, <4>2 DEF Dir
      <4>4. pc[p] \in Inside
        BY <3>2 DEF WriteOwner, Inside
      <4>5. \A q \in Proc : q # p => pc'[q] \notin Inside /\ pc'[q] # "ownfailed"
        <5>1. \A q \in Proc : q # p => pc'[q] = pc[q] /\ pc[q] \notin Inside
          BY <4>1, <4>4 DEF OneInside
        <5> QED
          BY <5>1 DEF OneInside
      <4>6. pc'[p] = "held" /\ lock' # None
        BY <4>1, <4>3
      <4> HIDE DEF TypeOK
      <4> QED
        BY <4>2, <4>3, <4>5, <4>6 DEF OneInside, Inside
    <3>3. CASE Look(p) \/ Stat(p) \/ Wait(p) \/ Timeout(p)
      BY <3>3 DEF Look, Stat, Wait, Timeout, OneInside, Inside
    <3>4. CASE Leave(p) \/ Release(p)
      BY <3>4 DEF Leave, Release, OneInside, Inside
    <3>5. CASE Unlink(p)
      <4>1. lock' = [owner |-> None, aged |-> FALSE] /\ pc' = [pc EXCEPT ![p] = "rmdir"]
        BY <3>5 DEF Unlink, OneInside, Inside
      <4>2. lock' \in Dir /\ lock'.owner = None
        BY <4>1, NewDirs
      <4>3. pc[p] \in Inside
        BY <3>5 DEF Unlink, Inside
      <4> QED
        BY <4>1, <4>2, <4>3 DEF OneInside, Inside
    <3>6. CASE Rmdir(p)
      BY <3>6 DEF Rmdir, ReadOwner, OneInside, Inside
    <3>7. CASE Steal(p)
      <4>1. lock = None /\ lock' = None
        BY <3>7 DEF Steal
      <4> QED
        BY <3>7, <4>1 DEF Steal, OneInside, Inside
    <3>8. ~WriteOwnerFailed(p)
      BY DEF WriteOwnerFailed, OneInside
    <3> QED
      BY <2>1, <3>1, <3>2, <3>3, <3>4, <3>5, <3>6, <3>7, <3>8 DEF Step
  <2>2. ASSUME NEW p \in Proc, Crash(p) PROVE OneInside'
    BY <2>2 DEF Crash, Goto, TypeOK, OneInside, Inside
  <2>3. CASE Age
    <3>0. lock \in Dir /\ pc' = pc
      BY <2>3 DEF Age, TypeOK
    <3>1. CASE lock.owner = None
      <4>1. lock' = [owner |-> None, aged |-> TRUE]
        BY <2>3, <3>1 DEF Age
      <4>2. lock' \in Dir /\ lock'.owner = None
        BY <4>1 DEF Dir
      <4> QED
        BY <3>0, <3>1, <4>2 DEF OneInside, Inside
    <3>2. CASE lock.owner # None
      <4> DEFINE o == [lock.owner EXCEPT !.aged = TRUE]
      <4>1. lock' = [owner |-> o, aged |-> TRUE]
        BY <2>3, <3>2 DEF Age
      <4>2. lock.owner \in Owner
        BY <3>0, <3>2 DEF Dir
      <4>3. o \in Owner /\ o.token = lock.owner.token
        BY <4>2 DEF Owner
      <4> HIDE DEF o
      <4>4. lock' \in Dir /\ lock'.owner = o /\ o # None
        BY <4>1, <4>3 DEF Dir
      <4> QED
        BY <3>0, <3>2, <4>3, <4>4 DEF OneInside, Inside
    <3> QED
      BY <3>1, <3>2
  <2>4. CASE UNCHANGED vars
    BY <2>4 DEF vars, OneInside
  <2> QED
    BY <2>1, <2>2, <2>3, <2>4 DEF Next, Finished
<1>3. LInv => Exclusion
  BY DEF LInv, OneInside, Inside, Exclusion
<1> QED
  BY <1>1, <1>2, <1>3, PTL DEF Spec

-----------------------------------------------------------------------------
\* Somebody is still answerable for the directory at the path: the process its
\* owner file names, or for one without an owner file a process that has yet to
\* write it or to remove the directory; or a process died.
Answerable ==
  lock # None =>
    IF lock.owner = None
    THEN \E q \in Proc : pc[q] \in {"own", "rmdir", "dead"}
    ELSE pc[lock.owner.token] \in {"held", "release", "unlink", "dead"}

\* Steps that leave the directory alone.
LEMMA AnswerableKept ==
  ASSUME TypeOK, Answerable, NEW p \in Proc, NEW l \in Points, lock' = lock,
         pc' = [pc EXCEPT ![p] = l],
         \/ pc[p] \notin {"own", "rmdir", "dead", "held", "release", "unlink"}
         \/ l = "dead"
         \/ pc[p] = "held" /\ l = "release"
         \/ pc[p] = "own" /\ lock = None
  PROVE  Answerable'
<1>1. CASE lock = None
  BY <1>1 DEF Answerable
<1>2. CASE lock # None /\ lock.owner = None
  <2>1. PICK q \in Proc : pc[q] \in {"own", "rmdir", "dead"}
    BY <1>2 DEF Answerable
  <2>2. pc'[q] \in {"own", "rmdir", "dead"}
    BY <1>2, <2>1 DEF TypeOK
  <2> QED
    BY <1>2, <2>2 DEF Answerable
<1>3. CASE lock # None /\ lock.owner # None
  <2>1. lock.owner.token \in Proc
    BY <1>3 DEF TypeOK, Dir, Owner
  <2>2. pc[lock.owner.token] \in {"held", "release", "unlink", "dead"}
    BY <1>3 DEF Answerable
  <2>3. pc'[lock.owner.token] \in {"held", "release", "unlink", "dead"}
    BY <1>3, <2>1, <2>2 DEF TypeOK
  <2> QED
    BY <1>3, <2>3 DEF Answerable
<1> QED
  BY <1>1, <1>2, <1>3

\* Every step of a process keeps somebody answerable.
LEMMA AnswerableStep ==
  ASSUME TypeOK, Answerable, NEW p \in Proc, Step(p)
  PROVE  Answerable'
<1> USE NoneAssumption DEF Goto
<1>1. CASE Mkdir(p)
  <2>1. CASE lock # None
    <3>1. pc' = [pc EXCEPT ![p] = "look"] /\ lock' = lock /\ pc[p] = "try"
      BY <1>1, <2>1 DEF Mkdir
    <3> QED
      BY <3>1, AnswerableKept DEF Points
  <2>2. CASE lock = None
    <3>1. pc'[p] = "own" /\ lock'.owner = None
      BY <1>1, <2>2, NewDirs DEF Mkdir, TypeOK
    <3> QED
      BY <3>1 DEF Answerable
  <2> QED
    BY <2>1, <2>2
<1>2. CASE WriteOwner(p)
  <2>1. CASE lock = None
    <3>1. pc' = [pc EXCEPT ![p] = "ownfailed"] /\ lock' = lock /\ pc[p] = "own"
      BY <1>2, <2>1 DEF WriteOwner
    <3> QED
      BY <2>1, <3>1 DEF Answerable
  <2>2. CASE lock # None
    <3> DEFINE o == [token |-> p, aged |-> FALSE]
    <3>1. lock' = [owner |-> o, aged |-> FALSE] /\ pc'[p] = "held"
      BY <1>2, <2>2 DEF WriteOwner, TypeOK
    <3>2. o \in Owner /\ o.token = p
      BY DEF Owner
    <3> HIDE DEF o
    <3> QED
      BY <3>1, <3>2 DEF Answerable
  <2> QED
    BY <2>1, <2>2
<1>3. CASE WriteOwnerFailed(p) \/ Steal(p)
  BY <1>3 DEF WriteOwnerFailed, Steal, Answerable
<1>4. CASE Look(p) \/ Stat(p) \/ Wait(p) \/ Timeout(p)
  <2>1. /\ \E l \in Points : pc' = [pc EXCEPT ![p] = l]
        /\ lock' = lock /\ pc[p] \in {"look", "stat", "wait"}
    BY <1>4 DEF Look, Stat, Wait, Timeout, Points, Ended
  <2> QED
    BY <2>1, AnswerableKept
<1>5. CASE Leave(p)
  <2>1. pc' = [pc EXCEPT ![p] = "release"] /\ lock' = lock /\ pc[p] = "held"
    BY <1>5 DEF Leave
  <2> QED
    BY <2>1, AnswerableKept DEF Points
<1>6. CASE Release(p)
  <2>0. lock' = lock /\ pc[p] = "release"
    BY <1>6 DEF Release
  <2>1. CASE ReadOwner # None /\ ReadOwner.token = p
    <3>1. lock # None /\ lock.owner # None /\ lock.owner.token = p
      BY <2>1 DEF ReadOwner
    <3>2. pc'[p] = "unlink"
      BY <1>6, <2>1 DEF Release, TypeOK
    <3> QED
      BY <2>0, <3>1, <3>2 DEF Answerable
  <2>2. CASE ~(ReadOwner # None /\ ReadOwner.token = p)
    <3>1. pc' = [pc EXCEPT ![p] = "done"]
      BY <1>6, <2>2 DEF Release
    <3>2. CASE lock = None
      BY <2>0, <3>2 DEF Answerable
    <3>3. CASE lock # None /\ lock.owner = None
      <4>1. PICK q \in Proc : pc[q] \in {"own", "rmdir", "dead"}
        BY <3>3 DEF Answerable
      <4>2. pc'[q] \in {"own", "rmdir", "dead"}
        BY <2>0, <3>1, <4>1 DEF TypeOK
      <4> QED
        BY <2>0, <3>3, <4>2 DEF Answerable
    <3>4. CASE lock # None /\ lock.owner # None
      <4>1. lock.owner.token \in Proc /\ lock.owner.token # p
        BY <2>2, <3>4 DEF ReadOwner, TypeOK, Dir, Owner
      <4>2. pc'[lock.owner.token] = pc[lock.owner.token]
        BY <3>1, <4>1 DEF TypeOK
      <4> QED
        BY <2>0, <3>4, <4>2 DEF Answerable
    <3> QED
      BY <3>2, <3>3, <3>4
  <2> QED
    BY <2>1, <2>2
<1>7. CASE Unlink(p)
  <2>1. pc'[p] = "rmdir"
    BY <1>7 DEF Unlink, TypeOK
  <2>2. lock' # None => lock'.owner = None
    BY <1>7 DEF Unlink
  <2> QED
    BY <2>1, <2>2 DEF Answerable
<1>8. CASE Rmdir(p)
  <2>1. CASE ReadOwner = None
    BY <1>8, <2>1 DEF Rmdir, Answerable
  <2>2. CASE ReadOwner # None
    <3>1. lock # None /\ lock.owner # None /\ lock' = lock
      BY <1>8, <2>2 DEF Rmdir, ReadOwner
    <3>2. lock.owner.token \in Proc /\ pc[lock.owner.token] \in {"held", "release", "unlink", "dead"}
      BY <3>1 DEF Answerable, TypeOK, Dir, Owner
    <3>3. pc'[lock.owner.token] = pc[lock.owner.token]
      BY <1>8, <3>2 DEF Rmdir, TypeOK
    <3> QED
      BY <3>1, <3>2, <3>3 DEF Answerable
  <2> QED
    BY <2>1, <2>2
<1> QED
  BY <1>1, <1>2, <1>3, <1>4, <1>5, <1>6, <1>7, <1>8 DEF Step

\* Once every process has left _directory_key_lock without a crash the lock's
\* path is free, although takeovers make processes write and remove files in
\* directories that are not theirs: with or without them, for any number of
\* processes.
THEOREM PathFree == Spec => []LeftFree
<1>1. Init => TypeOK /\ Answerable
  BY DEF Init, TypeOK, Answerable, Points
<1>2. TypeOK /\ Answerable /\ [Next]_vars => TypeOK' /\ Answerable'
  <2> SUFFICES ASSUME TypeOK, Answerable, [Next]_vars
               PROVE  Answerable'
    BY TypeStep
  <2>1. ASSUME NEW p \in Proc, Crash(p) PROVE Answerable'
    <3>1. pc' = [pc EXCEPT ![p] = "dead"] /\ lock' = lock
      BY <2>1 DEF Crash, Goto
    <3> QED
      BY <3>1, AnswerableKept DEF Points, Ended
  <2>2. CASE Age
    <3>1. lock \in Dir /\ lock # None /\ pc' = pc
      BY <2>2 DEF Age, TypeOK
    <3>2. CASE lock.owner = None
      <4>1. lock' = [owner |-> None, aged |-> TRUE]
        BY <2>2, <3>2 DEF Age
      <4> QED
        BY <3>1, <3>2, <4>1 DEF Answerable
    <3>3. CASE lock.owner # None
      <4> DEFINE o == [lock.owner EXCEPT !.aged = TRUE]
      <4>1. lock' = [owner |-> o, aged |-> TRUE]
        BY <2>2, <3>3 DEF Age
      <4>2. o \in Owner /\ o.token = lock.owner.token
        BY <3>1, <3>3 DEF Dir, Owner
      <4> HIDE DEF o
      <4> QED
        BY <3>1, <3>3, <4>1, <4>2, NoneAssumption DEF Answerable
    <3> QED
      BY <3>2, <3>3
  <2>3. CASE UNCHANGED vars
    BY <2>3 DEF vars, Answerable
  <2> QED
    BY <2>1, <2>2, <2>3, AnswerableStep DEF Next, Finished
<1>3. TypeOK /\ Answerable => LeftFree
  <2> SUFFICES ASSUME TypeOK, Answerable, lock # None,
                      \A p \in Proc : pc[p] \in {"done", "failed"}
               PROVE  FALSE
    BY DEF LeftFree
  <2>1. CASE lock.owner = None
    BY <2>1 DEF Answerable
  <2>2. CASE lock.owner # None
    BY <2>2 DEF Answerable, TypeOK, Dir, Owner
  <2> QED
    BY <2>1, <2>2
<1> QED
  BY <1>1, <1>2, <1>3, PTL DEF Spec
=============================================================================
