--------------------------- MODULE JitStoreProofs ---------------------------
(***************************************************************************)
(* The proof that JitCache implements ArtifactStore, for any number of     *)
(* processes, contents and failures, and that quarantined evidence is      *)
(* discarded, which rests on publications never being repeated.            *)
(***************************************************************************)
EXTENDS JitStore, JitCacheProofs

\* Points before the rename of the current attempt, and those of them at which
\* the staging directory exists.
Staged == {"compile", "manifest", "publish", "dirlock", "dirheld", "dirrename"}
Before == Staged \cup {"probe", "miss", "lockwait", "locked", "lockedmiss", "recheck",
                       "recheckmiss", "stage"}

\* What is visible was recorded, and so was every manifest a reader remembers.
Recorded ==
  /\ published \subseteq Manifest
  /\ entry # None => ManifestOf(entry) \in published
  /\ \A p \in Proc : seen[p] # None => seen[p] \in published

\* A process has published nothing under an attempt to come, nor under this
\* attempt before its rename.
Fresh ==
  \A m \in published, p \in Proc, k \in Nat :
    m.pub = <<p, k>> =>
      k < attempt[p] \/ (k = attempt[p] /\ pc[p] \notin Before)

\* A staging directory belongs to the attempt that made it.
StagedPub ==
  \A p \in Proc : pc[p] \in Staged => staging[p].pub = <<p, attempt[p]>>

SInv == Recorded /\ Fresh /\ StagedPub

\* A step of p that publishes nothing.
Quiet(p) ==
  /\ entry' \in {entry, None}
  /\ published' = published
  /\ \A q \in Proc \ {p} :
       /\ pc'[q] = pc[q]
       /\ attempt'[q] = attempt[q]
       /\ seen'[q] = seen[q]
       /\ staging'[q] = staging[q]
  /\ seen'[p] \in {None, seen[p]} \/ (entry # None /\ seen'[p] = ManifestOf(entry))
  /\ \/ attempt'[p] = attempt[p] /\ (pc'[p] \in Before => pc[p] \in Before)
     \/ attempt'[p] = attempt[p] + 1
  /\ pc'[p] \in Staged => staging'[p].pub = <<p, attempt'[p]>>

-----------------------------------------------------------------------------
LEMMA QuietSInv ==
  ASSUME IInv, SInv, NEW p \in Proc, Quiet(p)
  PROVE  SInv' /\ published' = published
<1> USE DEF SInv
<1>1. published' = published
  BY DEF Quiet
<1>2. Recorded'
  BY <1>1 DEF Quiet, Recorded, ManifestOf
<1>3. Fresh'
  <2> SUFFICES ASSUME NEW m \in published, NEW q \in Proc, NEW k \in Nat, m.pub = <<q, k>>
               PROVE  k < attempt'[q] \/ (k = attempt'[q] /\ pc'[q] \notin Before)
    BY <1>1 DEF Fresh
  <2>1. k < attempt[q] \/ (k = attempt[q] /\ pc[q] \notin Before)
    BY DEF Fresh
  <2>2. attempt[q] \in Nat
    BY DEF IInv, TypeOK, MaxAttempts
  <2>3. CASE q = p
    BY <2>1, <2>2, <2>3 DEF Quiet
  <2>4. CASE q # p
    BY <2>1, <2>4 DEF Quiet
  <2> QED
    BY <2>3, <2>4
<1>4. StagedPub'
  BY DEF StagedPub, Quiet
<1> QED
  BY <1>1, <1>2, <1>3, <1>4

\* The rename is a publication of the slot.
LEMMA RenamePublishes ==
  ASSUME IInv, SInv, NEW p \in Proc, pc[p] \in {"publish", "dirrename"}, entry = None,
         Rename(p)
  PROVE  SInv' /\ Store!Publish
<1> DEFINE m == ManifestOf(staging[p])
<1> USE NoneAssumption
<1>0. /\ staging[p] \in Directory /\ staging[p] # None
      /\ staging[p].pub = <<p, attempt[p]>>
      /\ attempt[p] \in Nat
  BY DEF IInv, StagedInv, TypeOK, SInv, StagedPub, Staged, MaxAttempts
<1>1. m \in Manifest /\ m.pub = <<p, attempt[p]>>
  BY <1>0 DEF ManifestOf, Manifest, Directory
<1>2. /\ entry' = staging[p] /\ entry' # None
      /\ pc' = [pc EXCEPT ![p] = "built"]
      /\ staging' = [staging EXCEPT ![p] = None]
      /\ UNCHANGED <<seen, attempt, result>>
  BY <1>0 DEF Rename, Goto, local
<1>3. published' = published \cup {m} /\ Slot' = m /\ Slot = None
  BY <1>2 DEF Rename, Slot, ManifestOf
<1>4. \A old \in published : old.pub # m.pub
  BY <1>0, <1>1 DEF SInv, Fresh, Before, Staged
<1> HIDE DEF m
<1>5. Store!Publish
  BY <1>1, <1>2, <1>3, <1>4 DEF Store!Publish
<1>6. Recorded'
  BY <1>1, <1>2, <1>3 DEF SInv, Recorded, m, ManifestOf
<1>7. Fresh'
  <2> SUFFICES ASSUME NEW o \in published', NEW q \in Proc, NEW k \in Nat, o.pub = <<q, k>>
               PROVE  k < attempt'[q] \/ (k = attempt'[q] /\ pc'[q] \notin Before)
    BY DEF Fresh
  <2>1. CASE o = m
    BY <1>0, <1>1, <1>2, <2>1 DEF IInv, TypeOK, Before, Staged
  <2>2. CASE o \in published
    BY <1>2, <2>2 DEF SInv, Fresh, IInv, TypeOK, Before, Staged
  <2> QED
    BY <1>3, <2>1, <2>2
<1>8. StagedPub'
  BY <1>2 DEF SInv, StagedPub, Staged, IInv, TypeOK
<1> QED
  BY <1>5, <1>6, <1>7, <1>8 DEF SInv

\* A step that publishes nothing and hands out nothing.
LEMMA QuietStutters ==
  ASSUME IInv, SInv, NEW p \in Proc, Quiet(p),
         \/ result' = result
         \/ entry' = entry /\ result' = [result EXCEPT ![p] = None]
  PROVE  SInv' /\ [Store!Next]_(Store!vars)
<1>1. SInv' /\ published' = published
  BY QuietSInv
<1>2. CASE entry' = entry /\ result' = result
  BY <1>1, <1>2 DEF Store!vars, Slot, ManifestOf
<1>3. CASE entry' = None /\ result' = result
  BY <1>1, <1>3 DEF Store!Next, Store!Withdraw, Slot
<1>4. CASE entry' = entry /\ result' = [result EXCEPT ![p] = None]
  BY <1>1, <1>4 DEF Store!Next, Store!Drop, Slot, ManifestOf
<1> QED
  BY <1>1, <1>2, <1>3, <1>4 DEF Quiet

\* prepare hands out only what the slot contains.
LEMMA ReturnServes ==
  ASSUME IInv, SInv, NEW p \in Proc, seen[p] # None, Matches(seen[p]),
         Return(p, seen[p])
  PROVE  SInv' /\ [Store!Next]_(Store!vars)
<1>1. Quiet(p)
  BY DEF Quiet, Return, Goto, IInv, TypeOK, Before, Staged
<1>2. SInv' /\ published' = published
  BY <1>1, QuietSInv
<1>3. Slot # None /\ Slot.digest = seen[p].digest
  <2>1. entry \in Directory /\ entry # None /\ entry.digest = seen[p].digest
    BY DEF Matches, Present, IInv, TypeOK
  <2>2. ManifestOf(entry) \in Manifest
    BY <2>1 DEF ManifestOf, Manifest, Directory
  <2> QED
    BY <2>1, <2>2, NoneAssumption DEF Slot, ManifestOf
<1>4. Store!Serve(p)
  BY <1>2, <1>3 DEF Store!Serve, Return, Slot, ManifestOf, SInv, Recorded
<1> QED
  BY <1>2, <1>4 DEF Store!Next

LEMMA FallbackQuiet ==
  ASSUME IInv, NEW p \in Proc, Fallback(p)
  PROVE  Quiet(p) /\ entry' = entry /\ result' = [result EXCEPT ![p] = None]
  BY DEF Fallback, Goto, Quiet, IInv, TypeOK, Before, Staged

LEMMA MissQuiet ==
  ASSUME IInv, NEW p \in Proc, NEW l, pc[p] \in Before, l \notin Staged, Miss(p, l)
  PROVE  Quiet(p) /\ result' = result
  BY DEF Miss, Goto, Quiet, IInv, TypeOK, Before, Staged, cache, local

LEMMA NextAttemptQuiet ==
  ASSUME IInv, NEW p \in Proc, NextAttempt(p), entry' \in {entry, None},
         seen' = [seen EXCEPT ![p] = None], UNCHANGED <<staging, published>>
  PROVE  Quiet(p)
<1>1. CASE attempt[p] = MaxAttempts
  BY <1>1 DEF NextAttempt, Goto, Quiet, IInv, TypeOK, Before, Staged
<1>2. CASE attempt[p] # MaxAttempts
  BY <1>2 DEF NextAttempt, Goto, Quiet, IInv, TypeOK, Before, Staged
<1> QED
  BY <1>1, <1>2

LEMMA MoveQuiet ==
  ASSUME IInv, SInv, NEW p \in Proc, NEW l,
         l \in Before => pc[p] \in Before, l \in Staged => pc[p] \in Staged,
         Goto(p, l), UNCHANGED <<entry, published, seen, staging, attempt>>
  PROVE  Quiet(p)
  BY DEF Goto, Quiet, IInv, TypeOK, SInv, StagedPub

LEMMA InvalidQuiet ==
  ASSUME IInv, NEW p \in Proc, Invalid(p)
  PROVE  /\ Quiet(p)
         /\ \/ result' = result
            \/ entry' = entry /\ result' = [result EXCEPT ![p] = None]
<1>1. CASE pc[p] \in {"built", "joined"} /\ Fallback(p)
  BY <1>1, FallbackQuiet
<1>2. CASE pc[p] = "qcheck" /\ QuarantineLoaded(p)
  BY <1>2, NextAttemptQuiet DEF QuarantineLoaded
<1>3. CASE pc[p] = "probe" /\ Miss(p, "miss")
  BY <1>3, MissQuiet DEF Before, Staged
<1>4. CASE pc[p] = "locked" /\ Miss(p, "lockedmiss")
  BY <1>4, MissQuiet DEF Before, Staged
<1>5. CASE pc[p] = "recheck" /\ Miss(p, "recheckmiss")
  BY <1>5, MissQuiet DEF Before, Staged
<1> QED
  BY <1>1, <1>2, <1>3, <1>4, <1>5 DEF Invalid

\* Compile and WriteManifest add a file to the staging directory.
LEMMA AddFileQuiet ==
  ASSUME IInv, SInv, NEW p \in Proc, NEW l \in Staged, NEW f, pc[p] \in Staged,
         staging' = [staging EXCEPT ![p].files = @ \cup {f}], Goto(p, l),
         UNCHANGED <<entry, published, seen, attempt>>
  PROVE  Quiet(p)
<1> DEFINE d == [staging[p] EXCEPT !.files = @ \cup {f}]
<1>1. staging[p] \in Directory /\ staging[p].pub = <<p, attempt[p]>>
  BY DEF IInv, TypeOK, StagedInv, SInv, StagedPub, Staged
<1>2. d.pub = <<p, attempt[p]>>
  BY <1>1 DEF Directory
<1>3. staging' = [staging EXCEPT ![p] = d]
  OBVIOUS
<1> HIDE DEF d
<1> QED
  BY <1>2, <1>3 DEF Goto, Quiet, IInv, TypeOK, Before

LEMMA StageQuiet ==
  ASSUME IInv, NEW p \in Proc, Stage(p)
  PROVE  Quiet(p) /\ result' = result
<1>1. PICK d \in Digest :
        staging' = [staging EXCEPT ![p] =
          [pub |-> <<p, attempt[p]>>, digest |-> d, files |-> {"source"}]]
  BY DEF Stage
<1> QED
  BY <1>1 DEF Stage, Goto, Quiet, IInv, TypeOK, Before, Staged, cache, local

-----------------------------------------------------------------------------
\* Every step of a process is a step of the slot, or changes nothing of it.
LEMMA StepStore ==
  ASSUME IInv, SInv, NEW p \in Proc, Step(p)
  PROVE  SInv' /\ [Store!Next]_(Store!vars)
<1> USE DEF cache, local
<1>1. CASE ManifestMissing(p) \/ FilesDiffer(p)
  BY <1>1, InvalidQuiet, QuietStutters DEF ManifestMissing, FilesDiffer
<1>2. CASE FilesMatch(p)
  <2>1. CASE pc[p] # "qcheck"
    BY <1>2, <2>1, ReturnServes DEF FilesMatch, Valid
  <2>2. CASE pc[p] = "qcheck"
    <3>1. Quiet(p) /\ result' = result
      BY <1>2, <2>2, NextAttemptQuiet DEF FilesMatch, Valid, QuarantineLoaded, SkipQuarantine
    <3> QED
      BY <3>1, QuietStutters
  <2> QED
    BY <2>1, <2>2
<1>3. CASE FilesVanish(p) \/ LockTimeout(p) \/ Conflict(p) \/ CompileFails(p)
           \/ DirLockTimeout(p)
  BY <1>3, FallbackQuiet, QuietStutters
     DEF FilesVanish, LockTimeout, Conflict, CompileFails, DirLockTimeout
<1>4. CASE AfterProbe(p)
  <2>1. CASE p \notin Writers
    BY <1>4, <2>1, FallbackQuiet, QuietStutters DEF AfterProbe
  <2>2. CASE p \in Writers
    <3>1. Quiet(p) /\ result' = result
      BY <1>4, <2>2, MoveQuiet DEF AfterProbe, Before, Staged
    <3> QED
      BY <3>1, QuietStutters
  <2> QED
    BY <2>1, <2>2
<1>5. CASE NoConflict(p) \/ PublishUnsupported(p) \/ DirLockAcquired(p)
           \/ DirLockedLook(p) \/ LockAcquired(p)
  <2>1. Quiet(p) /\ result' = result
    BY <1>5, MoveQuiet
       DEF NoConflict, PublishUnsupported, DirLockAcquired, DirLockedLook, LockAcquired,
           Before, Staged
  <2> QED
    BY <2>1, QuietStutters
<1>6. CASE PublishNoReplace(p) \/ PublishRename(p)
  <2>1. CASE entry = None /\ Rename(p)
    BY <1>6, <2>1, RenamePublishes DEF PublishNoReplace, PublishRename, Store!Next
  <2>2. CASE LoseRace(p)
    <3>1. Quiet(p) /\ result' = result
      BY <2>2, MoveQuiet DEF LoseRace, Before, Staged
    <3> QED
      BY <3>1, QuietStutters
  <2> QED
    BY <1>6, <2>1, <2>2 DEF PublishNoReplace, PublishRename, IInv, NotEmpty
<1>7. CASE LoadSucceeds(p) \/ LoadFails(p)
  <2>1. Quiet(p) /\ result' = result
    BY <1>7, MoveQuiet DEF LoadSucceeds, LoadFails, Before, Staged
  <2> QED
    BY <2>1, QuietStutters
<1>8. CASE QuarantineLook(p)
  <2>1. Quiet(p) /\ result' = result
    BY <1>8, MoveQuiet, NextAttemptQuiet DEF QuarantineLook, SkipQuarantine, Before, Staged
  <2> QED
    BY <2>1, QuietStutters
<1>9. CASE ReadManifest(p)
  <2>1. Quiet(p) /\ result' = result
    BY <1>9 DEF ReadManifest, Present, Quiet, IInv, TypeOK, SInv, StagedPub
  <2> QED
    BY <2>1, QuietStutters
<1>10. CASE QuarantineInvalid(p)
  <2>1. Quiet(p) /\ result' = result
    BY <1>10 DEF QuarantineInvalid, Goto, Quiet, IInv, TypeOK, Before, Staged
  <2> QED
    BY <2>1, QuietStutters
<1>11. CASE Stage(p)
  BY <1>11, StageQuiet, QuietStutters
<1>12. CASE Compile(p) \/ WriteManifest(p)
  <2>1. UNCHANGED <<entry, published, seen, attempt, result>>
    BY <1>12 DEF Compile, WriteManifest, cache, local
  <2>2. ASSUME Compile(p) PROVE Quiet(p)
    <3>1. pc[p] \in Staged /\ "manifest" \in Staged
      BY <2>2 DEF Compile, Staged
    <3>2. /\ staging' = [staging EXCEPT ![p].files = @ \cup {"artifact"}]
          /\ Goto(p, "manifest")
      BY <2>2 DEF Compile
    <3> QED
      BY <2>1, <3>1, <3>2, AddFileQuiet
  <2>3. ASSUME WriteManifest(p) PROVE Quiet(p)
    <3>1. pc[p] \in Staged /\ "publish" \in Staged
      BY <2>3 DEF WriteManifest, Staged
    <3>2. /\ staging' = [staging EXCEPT ![p].files = @ \cup {"manifest"}]
          /\ Goto(p, "publish")
      BY <2>3 DEF WriteManifest
    <3> QED
      BY <2>1, <3>1, <3>2, AddFileQuiet
  <2> QED
    BY <1>12, <2>1, <2>2, <2>3, QuietStutters
<1> QED
  BY <1>1, <1>2, <1>3, <1>4, <1>5, <1>6, <1>7, <1>8, <1>9, <1>10, <1>11, <1>12 DEF Step

LEMMA CrashStore ==
  ASSUME IInv, SInv, NEW p \in Proc, Crash(p)
  PROVE  SInv' /\ [Store!Next]_(Store!vars)
<1>1. Quiet(p) /\ entry' = entry /\ result' = [result EXCEPT ![p] = None]
  BY DEF Crash, Goto, Quiet, IInv, TypeOK, Before, Staged
<1> QED
  BY <1>1, QuietStutters

\* Damage to the files leaves the publication in its slot.
LEMMA DamageStore ==
  ASSUME IInv, SInv, Damage
  PROVE  SInv' /\ UNCHANGED Store!vars
<1>1. entry \in Directory /\ entry # None
  BY DEF Damage, IInv, TypeOK
<1>2. PICK f \in entry.files : entry' = [entry EXCEPT !.files = @ \ {f}]
  BY DEF Damage
<1>3. ManifestOf(entry)' = ManifestOf(entry) /\ entry' # None
  BY <1>1, <1>2, NoneAssumption DEF Directory, ManifestOf
<1>4. published' = published
  BY DEF Damage
<1>5. UNCHANGED Store!vars
  BY <1>1, <1>3, <1>4 DEF Store!vars, Slot, Damage, local
<1>6. SInv'
  BY <1>1, <1>3, <1>4 DEF SInv, Recorded, Fresh, StagedPub, Damage, local
<1> QED
  BY <1>5, <1>6

\* Every step of the cache is a step of the slot, or changes nothing of it.
LEMMA NextStore ==
  IInv /\ SInv /\ [Next]_vars => SInv' /\ [Store!Next]_(Store!vars)
<1> SUFFICES ASSUME IInv, SInv, [Next]_vars
             PROVE  SInv' /\ [Store!Next]_(Store!vars)
  OBVIOUS
<1>1. CASE UNCHANGED vars
  BY <1>1 DEF vars, Store!vars, Slot, ManifestOf, SInv, Recorded, Fresh, StagedPub
<1>2. ASSUME NEW p \in Proc, Step(p) \/ Crash(p)
      PROVE  SInv' /\ [Store!Next]_(Store!vars)
  BY <1>2, StepStore, CrashStore
<1>3. CASE Damage
  BY <1>3, DamageStore
<1> QED
  BY <1>1, <1>2, <1>3 DEF Next, Finished

LEMMA InitStore == Init => SInv /\ Store!Init
<1> SUFFICES ASSUME Init PROVE SInv /\ Store!Init
  OBVIOUS
<1>1. entry # None => entry \in Directory /\ entry.pub = <<Old, 0>>
  BY DEF Init, OldEntry
<1>2. entry # None => ManifestOf(entry) \in Manifest /\ ManifestOf(entry).pub = <<Old, 0>>
  BY <1>1 DEF ManifestOf, Manifest, Directory
<1>3. Recorded /\ StagedPub
  BY <1>2 DEF Init, Recorded, StagedPub, Staged
<1>4. Fresh
  BY <1>2, CacheAssumption DEF Init, Fresh
<1>5. Store!Init
  BY <1>2, NoneAssumption DEF Init, Store!Init, Slot
<1> QED
  BY <1>3, <1>4, <1>5 DEF SInv

\* The cache is the slot ArtifactStore promises: every publication is atomic,
\* new and never over another, every result names a recorded publication whose
\* content the slot has when prepare returns, whatever crashes, races, damage
\* and timeouts happen.
THEOREM CacheIsStore == Spec => ImplementsStore
<1>1. Init => IInv /\ SInv /\ Store!Init
  BY InitIInv, InitStore
<1>2. IInv /\ SInv /\ [Next]_vars => IInv' /\ SInv' /\ [Store!Next]_(Store!vars)
  BY NextIInv, NextStore
<1> QED
  BY <1>1, <1>2, PTL DEF Spec, ImplementsStore, Store!Spec

-----------------------------------------------------------------------------
\* What a process quarantined and will discard if it gets its plugin.
Evidence(p) == retained[p] \cup ({quarantine[p]} \ {None})

\* Evidence was published once, and is not what is visible now.
Gone ==
  \A p \in Proc : \A x \in Evidence(p) :
    /\ \E m \in published : m.pub = x
    /\ entry # None => entry.pub # x

\* What prepare quarantined is discarded when it returns, what the loop
\* quarantined when the plugin is loaded.
Discarded ==
  \A p \in Proc :
    /\ pc[p] \in {"load", "done"} => quarantine[p] \notin invalid
    /\ pc[p] = "done" => retained[p] \cap invalid = {}

\* A step that quarantines nothing: evidence and .invalid only shrink, and the
\* process reaches "load" and "done" with its evidence discarded.
NoEvidence(p) ==
  /\ entry' \in {entry, None}
  /\ published' = published
  /\ invalid' \subseteq invalid
  /\ \E l : pc' = [pc EXCEPT ![p] = l]
  /\ \E x \in {None, quarantine[p]} : quarantine' = [quarantine EXCEPT ![p] = x]
  /\ retained' = retained
  /\ \/ pc'[p] \notin {"load", "done"}
     \/ pc'[p] = "load" /\ quarantine'[p] \notin invalid'
     \/ pc'[p] = "done" /\ pc[p] = "load" /\ quarantine' = quarantine
        /\ retained[p] \cap invalid' = {}

LEMMA NoEvidenceKeeps ==
  ASSUME TypeOK, Gone, Discarded, NEW p \in Proc, NoEvidence(p)
  PROVE  Gone' /\ Discarded'
<1>1. PICK x \in {None, quarantine[p]} : quarantine' = [quarantine EXCEPT ![p] = x]
  BY DEF NoEvidence
<1>2. \A q \in Proc : Evidence(q)' \subseteq Evidence(q)
  BY <1>1 DEF NoEvidence, Evidence, TypeOK
<1>3. Gone'
  BY <1>2 DEF Gone, NoEvidence
<1>4. ASSUME NEW q \in Proc
      PROVE  /\ pc'[q] \in {"load", "done"} => quarantine'[q] \notin invalid'
             /\ pc'[q] = "done" => retained'[q] \cap invalid' = {}
  <2>1. CASE q # p
    <3>1. pc'[q] = pc[q] /\ quarantine'[q] = quarantine[q]
      BY <1>1, <2>1 DEF NoEvidence, TypeOK
    <3> QED
      BY <3>1 DEF NoEvidence, Discarded
  <2>2. CASE q = p
    BY <2>2 DEF NoEvidence, Discarded
  <2> QED
    BY <2>1, <2>2
<1> QED
  BY <1>3, <1>4 DEF Discarded

\* The entry is moved to .invalid by p, which remembers it in one of two ways.
LEMMA QuarantineKeeps ==
  ASSUME TypeOK, Recorded, Gone, Discarded, NEW p \in Proc, entry # None, entry' = None,
         published' = published, invalid' \subseteq invalid \cup {entry.pub},
         NEW l, pc' = [pc EXCEPT ![p] = l], l \notin {"load", "done"},
         \/ /\ quarantine' = [quarantine EXCEPT ![p] = entry.pub] /\ retained' = retained
         \/ /\ retained' = [retained EXCEPT ![p] = @ \cup {entry.pub}]
            /\ \E x \in {None, quarantine[p]} : quarantine' = [quarantine EXCEPT ![p] = x]
  PROVE  Gone' /\ Discarded'
<1>0. entry \in Directory /\ ManifestOf(entry).pub = entry.pub
      /\ ManifestOf(entry) \in published
  BY DEF TypeOK, Recorded, ManifestOf
<1>1. \A q \in Proc : Evidence(q)' \subseteq Evidence(q) \cup {entry.pub}
  BY DEF Evidence, TypeOK
<1>2. Gone'
  BY <1>0, <1>1 DEF Gone
<1>3. ASSUME NEW q \in Proc, q # p
      PROVE  /\ pc'[q] = pc[q] /\ quarantine'[q] = quarantine[q] /\ retained'[q] = retained[q]
             /\ entry.pub # quarantine[q] /\ entry.pub \notin retained[q]
  <2>1. pc'[q] = pc[q] /\ quarantine'[q] = quarantine[q] /\ retained'[q] = retained[q]
    BY <1>3 DEF TypeOK
  <2>2. entry.pub \notin Evidence(q)
    BY <1>3 DEF Gone
  <2>3. entry.pub # None
    BY <1>0, NoneAssumption DEF Directory
  <2> QED
    BY <2>1, <2>2, <2>3 DEF Evidence
<1>4. pc'[p] \notin {"load", "done"}
  BY DEF TypeOK
<1>5. Discarded'
  BY <1>3, <1>4 DEF Discarded
<1> QED
  BY <1>2, <1>5

\* A new publication is nobody's evidence.
LEMMA RenameKeeps ==
  ASSUME IInv, SInv, Gone, Discarded, NEW p \in Proc, pc[p] \in {"publish", "dirrename"},
         entry = None, Rename(p)
  PROVE  Gone' /\ Discarded'
<1>0. /\ staging[p].pub = <<p, attempt[p]>> /\ attempt[p] \in Nat
      /\ entry' = staging[p] /\ published \subseteq published'
      /\ pc' = [pc EXCEPT ![p] = "built"]
      /\ UNCHANGED <<invalid, quarantine, retained>>
  BY DEF IInv, TypeOK, MaxAttempts, SInv, StagedPub, Staged, Rename, Goto, local
<1>1. \A m \in published : m.pub # staging[p].pub
  BY <1>0 DEF SInv, Fresh, Before, Staged
<1>2. Gone'
  BY <1>0, <1>1 DEF Gone, Evidence
<1>3. Discarded'
  BY <1>0 DEF Discarded, IInv, TypeOK
<1> QED
  BY <1>2, <1>3

LEMMA StepEvidence ==
  ASSUME IInv, SInv, Gone, Discarded, NEW p \in Proc, Step(p) \/ Crash(p)
  PROVE  Gone' /\ Discarded'
<1> USE DEF cache, local, Goto
<1>0. TypeOK /\ Recorded
  BY DEF IInv, SInv
<1>1. quarantine' = quarantine => quarantine' = [quarantine EXCEPT ![p] = quarantine[p]]
  BY <1>0 DEF TypeOK
<1>2. ASSUME Fallback(p) PROVE NoEvidence(p)
  BY <1>0, <1>1, <1>2 DEF Fallback, NoEvidence, TypeOK
<1>3. ASSUME NEW l, l \notin {"load", "done"}, pc' = [pc EXCEPT ![p] = l],
             UNCHANGED <<entry, published, invalid, quarantine, retained>>
      PROVE  NoEvidence(p)
  BY <1>0, <1>1, <1>3 DEF NoEvidence, TypeOK
<1>4. ASSUME SkipQuarantine(p) PROVE NoEvidence(p)
  <2>1. CASE attempt[p] = MaxAttempts
    BY <1>0, <1>1, <1>4, <2>1 DEF SkipQuarantine, NextAttempt, NoEvidence, TypeOK
  <2>2. CASE attempt[p] # MaxAttempts
    BY <1>0, <1>4, <2>2 DEF SkipQuarantine, NextAttempt, NoEvidence, TypeOK
  <2> QED
    BY <2>1, <2>2
<1>5. ASSUME QuarantineLoaded(p), entry # None PROVE Gone' /\ Discarded'
  <2>1. CASE attempt[p] = MaxAttempts
    BY <1>0, <1>1, <1>5, <2>1, QuarantineKeeps DEF QuarantineLoaded, NextAttempt
  <2>2. CASE attempt[p] # MaxAttempts
    BY <1>0, <1>5, <2>2, QuarantineKeeps DEF QuarantineLoaded, NextAttempt
  <2> QED
    BY <2>1, <2>2
<1>6. pc[p] = "qcheck" => entry # None
  BY DEF IInv, LockedEntryStable
<1>7. CASE ManifestMissing(p) \/ FilesDiffer(p)
  <2>1. CASE pc[p] \in {"built", "joined"} /\ Fallback(p)
    BY <1>0, <1>2, <2>1, NoEvidenceKeeps
  <2>2. CASE pc[p] = "qcheck" /\ QuarantineLoaded(p)
    BY <1>5, <1>6, <2>2
  <2>3. ASSUME NEW l \in {"miss", "lockedmiss", "recheckmiss"}, Miss(p, l)
        PROVE  Gone' /\ Discarded'
    BY <1>0, <1>3, <2>3, NoEvidenceKeeps DEF Miss
  <2> QED
    BY <1>7, <2>1, <2>2, <2>3 DEF ManifestMissing, FilesDiffer, Invalid
<1>8. CASE FilesMatch(p)
  <2>1. CASE pc[p] # "qcheck"
    <3>1. Return(p, seen[p])
      BY <1>8, <2>1 DEF FilesMatch, Valid
    <3>2. NoEvidence(p)
      BY <1>0, <1>1, <3>1 DEF Return, NoEvidence, TypeOK
    <3> QED
      BY <1>0, <3>2, NoEvidenceKeeps
  <2>2. CASE pc[p] = "qcheck"
    BY <1>0, <1>4, <1>5, <1>6, <1>8, <2>2, NoEvidenceKeeps DEF FilesMatch, Valid
  <2> QED
    BY <2>1, <2>2
<1>9. CASE FilesVanish(p) \/ LockTimeout(p) \/ Conflict(p) \/ CompileFails(p)
           \/ DirLockTimeout(p)
  BY <1>0, <1>2, <1>9, NoEvidenceKeeps
     DEF FilesVanish, LockTimeout, Conflict, CompileFails, DirLockTimeout
<1>10. CASE AfterProbe(p)
  <2>1. NoEvidence(p)
    BY <1>2, <1>3, <1>10 DEF AfterProbe
  <2> QED
    BY <1>0, <2>1, NoEvidenceKeeps
<1>11. CASE NoConflict(p) \/ Stage(p) \/ Compile(p) \/ WriteManifest(p)
            \/ PublishUnsupported(p) \/ DirLockAcquired(p) \/ DirLockedLook(p)
            \/ LockAcquired(p) \/ LoadFails(p) \/ Crash(p)
  <2>1. NoEvidence(p)
    BY <1>3, <1>11
       DEF NoConflict, Stage, Compile, WriteManifest, PublishUnsupported,
           DirLockAcquired, DirLockedLook, LockAcquired, LoadFails, Crash
  <2> QED
    BY <1>0, <2>1, NoEvidenceKeeps
<1>12. CASE PublishNoReplace(p) \/ PublishRename(p)
  <2>1. CASE entry = None /\ Rename(p)
    BY <1>12, <2>1, RenameKeeps DEF PublishNoReplace, PublishRename
  <2>2. CASE LoseRace(p)
    BY <1>0, <1>3, <2>2, NoEvidenceKeeps DEF LoseRace
  <2> QED
    BY <1>12, <2>1, <2>2 DEF PublishNoReplace, PublishRename, IInv, NotEmpty
<1>13. CASE LoadSucceeds(p)
  <2>1. NoEvidence(p)
    BY <1>0, <1>1, <1>13 DEF LoadSucceeds, NoEvidence, TypeOK
  <2> QED
    BY <1>0, <2>1, NoEvidenceKeeps
<1>14. CASE QuarantineLook(p)
  <2>1. NoEvidence(p)
    BY <1>3, <1>4, <1>14 DEF QuarantineLook
  <2> QED
    BY <1>0, <2>1, NoEvidenceKeeps
<1>15. CASE QuarantineInvalid(p)
  <2>1. CASE entry # None
    <3>1. /\ entry' = None /\ published' = published
          /\ invalid' \subseteq invalid \cup {entry.pub}
          /\ pc' = [pc EXCEPT ![p] = "recheck"]
      BY <1>15, <2>1 DEF QuarantineInvalid
    <3>2. quarantine' = [quarantine EXCEPT ![p] = entry.pub] /\ retained' = retained
      BY <1>15, <2>1 DEF QuarantineInvalid
    <3>3. "recheck" \notin {"load", "done"}
      OBVIOUS
    <3> QED
      BY <1>0, <2>1, <3>1, <3>2, <3>3, QuarantineKeeps
  <2>2. CASE entry = None
    BY <1>0, <1>3, <1>15, <2>2, NoEvidenceKeeps DEF QuarantineInvalid
  <2> QED
    BY <2>1, <2>2
<1>16. CASE ReadManifest(p)
  BY <1>0, <1>16 DEF ReadManifest, Gone, Discarded, Evidence
<1> QED
  BY <1>7, <1>8, <1>9, <1>10, <1>11, <1>12, <1>13, <1>14, <1>15, <1>16 DEF Step

\* A process that got its plugin has left nothing it quarantined in .invalid,
\* and nobody puts the same publication there again.
THEOREM EvidenceGone == Spec => []EvidenceDiscarded
<1>1. Init => IInv /\ SInv /\ Gone /\ Discarded
  <2>1. Init => Gone /\ Discarded
    BY DEF Init, Gone, Discarded, Evidence
  <2> QED
    BY <2>1, InitIInv, InitStore
<1>2. IInv /\ SInv /\ Gone /\ Discarded /\ [Next]_vars
        => IInv' /\ SInv' /\ Gone' /\ Discarded'
  <2> SUFFICES ASSUME IInv, SInv, Gone, Discarded, [Next]_vars PROVE Gone' /\ Discarded'
    BY NextIInv, NextStore
  <2>1. CASE Damage
    <3>1. entry' # None => entry # None /\ entry'.pub = entry.pub
      BY <2>1 DEF Damage, IInv, TypeOK, Directory
    <3> QED
      BY <2>1, <3>1 DEF Damage, Gone, Discarded, Evidence, local
  <2>2. CASE UNCHANGED vars
    BY <2>2 DEF vars, Gone, Discarded, Evidence
  <2> QED
    BY <2>1, <2>2, StepEvidence DEF Next, Finished
<1>3. Discarded => EvidenceDiscarded
  BY DEF Discarded, EvidenceDiscarded
<1> QED
  BY <1>1, <1>2, <1>3, PTL DEF Spec
=============================================================================
