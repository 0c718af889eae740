--------------------------- MODULE JitCacheProofs ---------------------------
(***************************************************************************)
(* Proofs about JitCache, for any number of processes and any contents.    *)
(***************************************************************************)
EXTENDS JitCache, TLAPS

\* A process holds the key's flock exactly where its program text says so.
LockInv == \A p \in Proc : pc[p] \in Holding <=> flock = p

\* What the staging directory holds at each point on the way to publication.
StagedInv ==
  \A p \in Proc :
    /\ pc[p] \in {"compile", "manifest", "publish", "dirlock", "dirheld", "dirrename"}
         => staging[p] # None /\ "source" \in staging[p].files
    /\ pc[p] \in {"manifest", "publish", "dirlock", "dirheld", "dirrename"}
         => "artifact" \in staging[p].files
    /\ pc[p] \in {"publish", "dirlock", "dirheld", "dirrename"}
         => "manifest" \in staging[p].files

\* An entry is never an empty directory, which os.rename would replace.
NotEmpty == entry # None => entry.files # {}

\* Outside a validation no manifest is remembered.
SeenInv == \A p \in Proc : pc[p] \notin Checks => seen[p] = None

\* The inductive invariant.
IInv ==
  /\ TypeOK
  /\ LockInv
  /\ StagedInv
  /\ NotEmpty
  /\ VisibleIsComplete
  /\ LockedEntryStable
  /\ StagingRemoved
  /\ SeenInv

-----------------------------------------------------------------------------
LEMMA InitIInv == Init => IInv
<1> SUFFICES ASSUME Init PROVE IInv
  OBVIOUS
<1> USE CacheAssumption, NoneAssumption DEF Init
<1>0. published \subseteq Manifest
  BY DEF OldEntry, Directory, Manifest, ManifestOf
<1>1. TypeOK
  BY <1>0 DEF TypeOK, OldEntry, Directory, Pub, MaxAttempts, Points, Preparing, PrepareChecks
<1>2. LockInv
  BY DEF LockInv, Holding
<1>3. StagedInv
  BY DEF StagedInv
<1>4. NotEmpty
  BY DEF NotEmpty, OldEntry, Files
<1>5. VisibleIsComplete
  BY DEF VisibleIsComplete, OldEntry
<1>6. LockedEntryStable
  BY DEF LockedEntryStable
<1>7. StagingRemoved /\ SeenInv
  BY DEF StagingRemoved, SeenInv
<1> QED
  BY <1>1, <1>2, <1>3, <1>4, <1>5, <1>6, <1>7 DEF IInv

LEMMA FallbackIInv ==
  ASSUME IInv, NEW p \in Proc, pc[p] \notin Ended, Fallback(p)
  PROVE  IInv'
<1> USE CacheAssumption, NoneAssumption DEF Fallback, Goto, Unlocked, IInv
<1>1. TypeOK'
  BY DEF TypeOK, Points, Ended
<1>2. LockInv'
  BY DEF LockInv, Holding, TypeOK
<1>3. StagedInv'
  BY DEF StagedInv, TypeOK
<1>4. NotEmpty' /\ VisibleIsComplete'
  BY DEF NotEmpty, VisibleIsComplete, Complete
<1>5. LockedEntryStable'
  BY DEF LockedEntryStable, ManifestOf, TypeOK
<1>6. StagingRemoved'
  BY DEF StagingRemoved, TypeOK
<1>7. SeenInv'
  BY DEF SeenInv, TypeOK, Checks, PrepareChecks
<1> QED
  BY <1>1, <1>2, <1>3, <1>4, <1>5, <1>6, <1>7

LEMMA ReturnIInv ==
  ASSUME IInv, NEW p \in Proc, pc[p] \in PrepareChecks, seen[p] # None, Return(p, seen[p])
  PROVE  IInv'
<1> USE CacheAssumption, NoneAssumption DEF Return, Goto, Unlocked, IInv
<1>1. TypeOK'
  BY DEF TypeOK, Points
<1>2. LockInv'
  BY DEF LockInv, Holding, TypeOK
<1>3. StagedInv'
  BY DEF StagedInv, TypeOK
<1>4. NotEmpty' /\ VisibleIsComplete'
  BY DEF NotEmpty, VisibleIsComplete, Complete
<1>5. LockedEntryStable'
  BY DEF LockedEntryStable, ManifestOf, TypeOK
<1>6. StagingRemoved'
  BY DEF StagingRemoved, TypeOK
<1>7. SeenInv'
  BY DEF SeenInv, TypeOK, Checks, PrepareChecks
<1> QED
  BY <1>1, <1>2, <1>3, <1>4, <1>5, <1>6, <1>7

LEMMA SkipQuarantineIInv ==
  ASSUME IInv, NEW p \in Proc, pc[p] \in {"qheld", "qcheck"}, SkipQuarantine(p)
  PROVE  IInv'
<1> USE CacheAssumption, NoneAssumption DEF SkipQuarantine, NextAttempt, Goto, IInv
<1>1. TypeOK'
  BY DEF TypeOK, Points, Preparing, PrepareChecks, Ended, MaxAttempts
<1>2. LockInv'
  BY DEF LockInv, Holding, TypeOK
<1>3. StagedInv'
  BY DEF StagedInv, TypeOK
<1>4. NotEmpty' /\ VisibleIsComplete'
  BY DEF NotEmpty, VisibleIsComplete, Complete
<1>5. LockedEntryStable'
  BY DEF LockedEntryStable, ManifestOf, TypeOK
<1>6. StagingRemoved'
  BY DEF StagingRemoved, TypeOK, Preparing, PrepareChecks
<1>7. SeenInv'
  BY DEF SeenInv, TypeOK, Checks, PrepareChecks
<1> QED
  BY <1>1, <1>2, <1>3, <1>4, <1>5, <1>6, <1>7

LEMMA QuarantineLoadedIInv ==
  ASSUME IInv, NEW p \in Proc, pc[p] = "qcheck", QuarantineLoaded(p)
  PROVE  IInv'
<1> USE CacheAssumption, NoneAssumption DEF QuarantineLoaded, NextAttempt, Goto, IInv
<1>0. entry \in Directory /\ entry.pub \in Pub
  BY DEF LockedEntryStable, TypeOK, Directory
<1>1. TypeOK'
  BY <1>0 DEF TypeOK, Points, Preparing, PrepareChecks, Ended, MaxAttempts
<1>2. LockInv'
  BY DEF LockInv, Holding, TypeOK
<1>3. StagedInv'
  BY DEF StagedInv, TypeOK
<1>4. NotEmpty' /\ VisibleIsComplete'
  BY DEF NotEmpty, VisibleIsComplete
<1>5. LockedEntryStable'
  <2>1. \A q \in Proc : q # p => pc[q] # "qcheck"
    BY DEF LockInv, Holding
  <2> QED
    BY <2>1 DEF LockedEntryStable, TypeOK
<1>6. StagingRemoved'
  BY DEF StagingRemoved, TypeOK, Preparing, PrepareChecks
<1>7. SeenInv'
  BY DEF SeenInv, TypeOK, Checks, PrepareChecks
<1> QED
  BY <1>1, <1>2, <1>3, <1>4, <1>5, <1>6, <1>7

LEMMA MissIInv ==
  ASSUME IInv, NEW p \in Proc, NEW l,
         \/ pc[p] = "probe" /\ l = "miss"
         \/ pc[p] = "locked" /\ l = "lockedmiss"
         \/ pc[p] = "recheck" /\ l = "recheckmiss",
         Miss(p, l)
  PROVE  IInv'
<1> USE CacheAssumption, NoneAssumption DEF Miss, Goto, IInv, cache, local
<1>1. TypeOK'
  BY DEF TypeOK, Points, Preparing
<1>2. LockInv'
  BY DEF LockInv, Holding, TypeOK
<1>3. StagedInv'
  BY DEF StagedInv, TypeOK
<1>4. NotEmpty' /\ VisibleIsComplete'
  BY DEF NotEmpty, VisibleIsComplete, Complete
<1>5. LockedEntryStable'
  BY DEF LockedEntryStable, ManifestOf, TypeOK
<1>6. StagingRemoved'
  BY DEF StagingRemoved, TypeOK, Preparing, PrepareChecks
<1>7. SeenInv'
  BY DEF SeenInv, TypeOK, Checks, PrepareChecks
<1> QED
  BY <1>1, <1>2, <1>3, <1>4, <1>5, <1>6, <1>7

LEMMA InvalidIInv ==
  ASSUME IInv, NEW p \in Proc, Invalid(p)
  PROVE  IInv'
<1>1. CASE pc[p] \in {"built", "joined"} /\ Fallback(p)
  BY <1>1, FallbackIInv DEF Ended
<1>2. CASE pc[p] = "qcheck" /\ QuarantineLoaded(p)
  BY <1>2, QuarantineLoadedIInv
<1>3. CASE pc[p] = "probe" /\ Miss(p, "miss")
  BY <1>3, MissIInv
<1>4. CASE pc[p] = "locked" /\ Miss(p, "lockedmiss")
  BY <1>4, MissIInv
<1>5. CASE pc[p] = "recheck" /\ Miss(p, "recheckmiss")
  BY <1>5, MissIInv
<1> QED
  BY <1>1, <1>2, <1>3, <1>4, <1>5 DEF Invalid

\* Steps of prepare that only look, or move on.
LEMMA MoveIInv ==
  ASSUME IInv, NEW p \in Proc, NEW l,
         \/ pc[p] = "miss" /\ l \in {"lockwait", "recheck"}
         \/ pc[p] = "recheckmiss" /\ l = "stage"
         \/ pc[p] = "publish" /\ l \in {"joined", "dirlock"}
         \/ pc[p] = "dirlock" /\ l = "dirheld"
         \/ pc[p] = "dirheld" /\ l \in {"joined", "dirrename"}
         \/ pc[p] = "dirrename" /\ l = "joined"
         \/ pc[p] = "qheld" /\ l = "qcheck" /\ entry # None /\ seen[p] = None,
         Goto(p, l), UNCHANGED <<cache, seen, staging, quarantine, local>>
  PROVE  IInv'
<1> USE CacheAssumption, NoneAssumption DEF Goto, IInv, cache, local
<1>1. TypeOK'
  BY DEF TypeOK, Points, Preparing, PrepareChecks, Holding, Ended
<1>2. LockInv'
  BY DEF LockInv, Holding, TypeOK
<1>3. StagedInv'
  BY DEF StagedInv, TypeOK
<1>4. NotEmpty' /\ VisibleIsComplete'
  BY DEF NotEmpty, VisibleIsComplete, Complete
<1>5. LockedEntryStable'
  BY DEF LockedEntryStable, ManifestOf, TypeOK
<1>6. StagingRemoved'
  BY DEF StagingRemoved, TypeOK, Preparing, PrepareChecks
<1>7. SeenInv'
  BY DEF SeenInv, TypeOK, Checks, PrepareChecks
<1> QED
  BY <1>1, <1>2, <1>3, <1>4, <1>5, <1>6, <1>7

LEMMA RenameIInv ==
  ASSUME IInv, NEW p \in Proc, pc[p] \in {"publish", "dirrename"},
         entry = None, Rename(p)
  PROVE  IInv'
<1> USE CacheAssumption, NoneAssumption DEF Rename, Goto, IInv, local
<1>0. staging[p] \in Directory /\ Complete(staging[p])
  BY DEF StagedInv, TypeOK, Complete, Directory, Files
<1>a. ManifestOf(staging[p]) \in Manifest
  BY <1>0 DEF Directory, Manifest, ManifestOf
<1>1. TypeOK'
  BY <1>0, <1>a DEF TypeOK, Points, Preparing, PrepareChecks
<1>2. LockInv'
  BY DEF LockInv, Holding, TypeOK
<1>3. StagedInv'
  BY DEF StagedInv, TypeOK
<1>4. NotEmpty' /\ VisibleIsComplete'
  BY <1>0 DEF NotEmpty, VisibleIsComplete, Complete, Files
<1>5. LockedEntryStable'
  BY DEF LockedEntryStable, TypeOK
<1>6. StagingRemoved'
  BY DEF StagingRemoved, TypeOK
<1>7. SeenInv'
  BY DEF SeenInv, TypeOK, Checks, PrepareChecks
<1> QED
  BY <1>1, <1>2, <1>3, <1>4, <1>5, <1>6, <1>7

LEMMA ReadManifestIInv ==
  ASSUME IInv, NEW p \in Proc, ReadManifest(p)
  PROVE  IInv'
<1> USE CacheAssumption, NoneAssumption DEF ReadManifest, Goto, IInv, cache, local, Present
<1>0. ManifestOf(entry) \in Manifest
  BY DEF TypeOK, ManifestOf, Manifest, Directory
<1>1. TypeOK'
  BY <1>0 DEF TypeOK
<1>2. LockInv'
  BY DEF LockInv, Holding, TypeOK
<1>3. StagedInv'
  BY DEF StagedInv, TypeOK
<1>4. NotEmpty' /\ VisibleIsComplete'
  BY DEF NotEmpty, VisibleIsComplete, Complete
<1>5. LockedEntryStable'
  BY DEF LockedEntryStable, ManifestOf, TypeOK
<1>6. StagingRemoved'
  BY DEF StagingRemoved, TypeOK, Preparing, PrepareChecks
<1>7. SeenInv'
  BY DEF SeenInv, TypeOK, Checks, PrepareChecks
<1> QED
  BY <1>1, <1>2, <1>3, <1>4, <1>5, <1>6, <1>7

LEMMA LockAcquiredIInv ==
  ASSUME IInv, NEW p \in Proc, LockAcquired(p)
  PROVE  IInv'
<1> USE CacheAssumption, NoneAssumption DEF LockAcquired, Goto, IInv, local
<1>1. TypeOK'
  BY DEF TypeOK, Points, Preparing, PrepareChecks, Holding, Ended
<1>2. LockInv'
  BY DEF LockInv, Holding, TypeOK
<1>3. StagedInv'
  BY DEF StagedInv, TypeOK
<1>4. NotEmpty' /\ VisibleIsComplete'
  BY DEF NotEmpty, VisibleIsComplete, Complete
<1>5. LockedEntryStable'
  BY DEF LockedEntryStable, ManifestOf, TypeOK
<1>6. StagingRemoved'
  BY DEF StagingRemoved, TypeOK, Preparing, PrepareChecks
<1>7. SeenInv'
  BY DEF SeenInv, TypeOK, Checks, PrepareChecks
<1> QED
  BY <1>1, <1>2, <1>3, <1>4, <1>5, <1>6, <1>7

LEMMA QuarantineInvalidIInv ==
  ASSUME IInv, NEW p \in Proc, QuarantineInvalid(p)
  PROVE  IInv'
<1> USE CacheAssumption, NoneAssumption DEF QuarantineInvalid, Goto, IInv, local
<1>0. entry # None => entry.pub \in Pub
  BY DEF TypeOK, Directory
<1>1. TypeOK'
  BY <1>0 DEF TypeOK, Points, Preparing, PrepareChecks
<1>2. LockInv'
  BY DEF LockInv, Holding, TypeOK
<1>3. StagedInv'
  BY DEF StagedInv, TypeOK
<1>4. NotEmpty' /\ VisibleIsComplete'
  BY DEF NotEmpty, VisibleIsComplete, Complete
<1>5. LockedEntryStable'
  <2>1. \A q \in Proc : pc[q] # "qcheck"
    BY DEF LockInv, Holding
  <2> QED
    BY <2>1 DEF LockedEntryStable, TypeOK
<1>6. StagingRemoved'
  BY DEF StagingRemoved, TypeOK, Preparing, PrepareChecks
<1>7. SeenInv'
  BY DEF SeenInv, TypeOK, Checks, PrepareChecks
<1> QED
  BY <1>1, <1>2, <1>3, <1>4, <1>5, <1>6, <1>7

LEMMA StageIInv ==
  ASSUME IInv, NEW p \in Proc, Stage(p)
  PROVE  IInv'
<1> USE CacheAssumption, NoneAssumption DEF Stage, Goto, IInv, cache, local
<1>0. PICK d \in Digest :
        staging' = [staging EXCEPT ![p] =
          [pub |-> <<p, attempt[p]>>, digest |-> d, files |-> {"source"}]]
  OBVIOUS
<1>a. [pub |-> <<p, attempt[p]>>, digest |-> d, files |-> {"source"}] \in Directory
  BY DEF TypeOK, Directory, Pub, Files, MaxAttempts
<1>1. TypeOK'
  BY <1>0, <1>a DEF TypeOK, Points, Preparing
<1>2. LockInv'
  BY DEF LockInv, Holding, TypeOK
<1>3. StagedInv'
  BY <1>0, <1>a DEF StagedInv, TypeOK
<1>4. NotEmpty' /\ VisibleIsComplete'
  BY DEF NotEmpty, VisibleIsComplete, Complete
<1>5. LockedEntryStable'
  BY DEF LockedEntryStable, ManifestOf, TypeOK
<1>6. StagingRemoved'
  BY DEF StagingRemoved, TypeOK, Preparing, PrepareChecks
<1>7. SeenInv'
  BY DEF SeenInv, TypeOK, Checks, PrepareChecks
<1> QED
  BY <1>1, <1>2, <1>3, <1>4, <1>5, <1>6, <1>7

LEMMA CompileIInv ==
  ASSUME IInv, NEW p \in Proc, Compile(p)
  PROVE  IInv'
<1> USE CacheAssumption, NoneAssumption DEF Compile, Goto, IInv, cache, local
<1> DEFINE d == [staging[p] EXCEPT !.files = @ \cup {"artifact"}]
<1>0. staging[p] \in Directory
  BY DEF TypeOK, StagedInv
<1>a. d \in Directory /\ d.files = staging[p].files \cup {"artifact"}
  BY <1>0 DEF Directory, Files
<1>b. staging' = [staging EXCEPT ![p] = d]
  OBVIOUS
<1>c. /\ pc[p] = "compile" /\ pc' = [pc EXCEPT ![p] = "manifest"]
      /\ UNCHANGED <<entry, invalid, flock, damaged, published, seen, quarantine,
                     attempt, failedLoad, retained, result>>
  OBVIOUS
<1> HIDE DEF d, Compile
<1>1. TypeOK'
  BY <1>a, <1>b, <1>c DEF TypeOK, Points, Preparing
<1>2. LockInv'
  BY <1>c DEF LockInv, Holding, TypeOK
<1>3. StagedInv'
  BY <1>a, <1>b, <1>c DEF StagedInv, TypeOK
<1>4. NotEmpty' /\ VisibleIsComplete'
  BY <1>c DEF NotEmpty, VisibleIsComplete, Complete
<1>5. LockedEntryStable'
  BY <1>c DEF LockedEntryStable, ManifestOf, TypeOK
<1>6. StagingRemoved'
  BY <1>b, <1>c DEF StagingRemoved, TypeOK, Preparing, PrepareChecks
<1>7. SeenInv'
  BY <1>c DEF SeenInv, TypeOK, Checks, PrepareChecks
<1> QED
  BY <1>1, <1>2, <1>3, <1>4, <1>5, <1>6, <1>7

LEMMA WriteManifestIInv ==
  ASSUME IInv, NEW p \in Proc, WriteManifest(p)
  PROVE  IInv'
<1> USE CacheAssumption, NoneAssumption DEF WriteManifest, Goto, IInv, cache, local
<1> DEFINE d == [staging[p] EXCEPT !.files = @ \cup {"manifest"}]
<1>0. staging[p] \in Directory
  BY DEF TypeOK, StagedInv
<1>a. d \in Directory /\ d.files = staging[p].files \cup {"manifest"}
  BY <1>0 DEF Directory, Files
<1>b. staging' = [staging EXCEPT ![p] = d]
  OBVIOUS
<1>c. /\ pc[p] = "manifest" /\ pc' = [pc EXCEPT ![p] = "publish"]
      /\ UNCHANGED <<entry, invalid, flock, damaged, published, seen, quarantine,
                     attempt, failedLoad, retained, result>>
  OBVIOUS
<1> HIDE DEF d, WriteManifest
<1>1. TypeOK'
  BY <1>a, <1>b, <1>c DEF TypeOK, Points, Preparing
<1>2. LockInv'
  BY <1>c DEF LockInv, Holding, TypeOK
<1>3. StagedInv'
  BY <1>a, <1>b, <1>c DEF StagedInv, TypeOK
<1>4. NotEmpty' /\ VisibleIsComplete'
  BY <1>c DEF NotEmpty, VisibleIsComplete, Complete
<1>5. LockedEntryStable'
  BY <1>c DEF LockedEntryStable, ManifestOf, TypeOK
<1>6. StagingRemoved'
  BY <1>b, <1>c DEF StagingRemoved, TypeOK, Preparing, PrepareChecks
<1>7. SeenInv'
  BY <1>c DEF SeenInv, TypeOK, Checks, PrepareChecks
<1> QED
  BY <1>1, <1>2, <1>3, <1>4, <1>5, <1>6, <1>7

LEMMA LoadSucceedsIInv ==
  ASSUME IInv, NEW p \in Proc, LoadSucceeds(p)
  PROVE  IInv'
<1> USE CacheAssumption, NoneAssumption DEF LoadSucceeds, Goto, IInv, local
<1>1. TypeOK'
  BY DEF TypeOK, Points, Preparing, PrepareChecks, Holding, Ended
<1>2. LockInv'
  BY DEF LockInv, Holding, TypeOK
<1>3. StagedInv'
  BY DEF StagedInv, TypeOK
<1>4. NotEmpty' /\ VisibleIsComplete'
  BY DEF NotEmpty, VisibleIsComplete, Complete
<1>5. LockedEntryStable'
  BY DEF LockedEntryStable, ManifestOf, TypeOK
<1>6. StagingRemoved'
  BY DEF StagingRemoved, TypeOK, Preparing, PrepareChecks
<1>7. SeenInv'
  BY DEF SeenInv, TypeOK, Checks, PrepareChecks
<1> QED
  BY <1>1, <1>2, <1>3, <1>4, <1>5, <1>6, <1>7

LEMMA LoadFailsIInv ==
  ASSUME IInv, NEW p \in Proc, LoadFails(p)
  PROVE  IInv'
<1> USE CacheAssumption, NoneAssumption DEF LoadFails, Goto, IInv, cache
<1>1. TypeOK'
  BY DEF TypeOK, Points, Preparing, PrepareChecks, Holding, Ended
<1>2. LockInv'
  BY DEF LockInv, Holding, TypeOK
<1>3. StagedInv'
  BY DEF StagedInv, TypeOK
<1>4. NotEmpty' /\ VisibleIsComplete'
  BY DEF NotEmpty, VisibleIsComplete, Complete
<1>5. LockedEntryStable'
  BY DEF LockedEntryStable, ManifestOf, TypeOK
<1>6. StagingRemoved'
  BY DEF StagingRemoved, TypeOK, Preparing, PrepareChecks
<1>7. SeenInv'
  BY DEF SeenInv, TypeOK, Checks, PrepareChecks
<1> QED
  BY <1>1, <1>2, <1>3, <1>4, <1>5, <1>6, <1>7

LEMMA CrashIInv ==
  ASSUME IInv, NEW p \in Proc, Crash(p)
  PROVE  IInv'
<1> USE CacheAssumption, NoneAssumption DEF Crash, Goto, IInv, Unlocked
<1>1. TypeOK'
  BY DEF TypeOK, Points, Preparing, PrepareChecks, Holding, Ended
<1>2. LockInv'
  BY DEF LockInv, Holding, TypeOK
<1>3. StagedInv'
  BY DEF StagedInv, TypeOK
<1>4. NotEmpty' /\ VisibleIsComplete'
  BY DEF NotEmpty, VisibleIsComplete, Complete
<1>5. LockedEntryStable'
  BY DEF LockedEntryStable, ManifestOf, TypeOK
<1>6. StagingRemoved'
  BY DEF StagingRemoved, TypeOK, Preparing, PrepareChecks
<1>7. SeenInv'
  BY DEF SeenInv, TypeOK, Checks, PrepareChecks
<1> QED
  BY <1>1, <1>2, <1>3, <1>4, <1>5, <1>6, <1>7

LEMMA DamageIInv == ASSUME IInv, Damage PROVE IInv'
<1> USE CacheAssumption, NoneAssumption DEF Damage, IInv, local
<1>0. entry \in Directory /\ Complete(entry)
  BY DEF TypeOK, VisibleIsComplete
<1>1. PICK f \in entry.files : entry' = [entry EXCEPT !.files = @ \ {f}]
  OBVIOUS
<1>2. /\ entry' \in Directory /\ entry'.files = Files \ {f}
      /\ entry'.pub = entry.pub /\ entry'.digest = entry.digest
  BY <1>0, <1>1 DEF Directory, Complete
<1>3. TypeOK'
  BY <1>0, <1>2 DEF TypeOK, Directory
<1>4. LockInv' /\ StagedInv' /\ StagingRemoved' /\ SeenInv'
  BY DEF LockInv, StagedInv, StagingRemoved, SeenInv
<1>5. NotEmpty' /\ VisibleIsComplete'
  BY <1>2 DEF NotEmpty, VisibleIsComplete, Files
<1>6. LockedEntryStable'
  BY <1>2 DEF LockedEntryStable, ManifestOf
<1> QED
  BY <1>3, <1>4, <1>5, <1>6

LEMMA StepIInv == ASSUME IInv, NEW p \in Proc, Step(p) PROVE IInv'
<1> USE DEF cache, local
<1>1. CASE ManifestMissing(p) \/ FilesDiffer(p)
  BY <1>1, InvalidIInv DEF ManifestMissing, FilesDiffer
<1>2. CASE FilesMatch(p)
  <2>1. CASE pc[p] # "qcheck"
    BY <1>2, <2>1, ReturnIInv DEF FilesMatch, Valid, Checks
  <2>2. CASE pc[p] = "qcheck"
    BY <1>2, <2>2, QuarantineLoadedIInv, SkipQuarantineIInv DEF FilesMatch, Valid
  <2> QED
    BY <2>1, <2>2
<1>3. CASE FilesVanish(p) \/ LockTimeout(p) \/ Conflict(p) \/ CompileFails(p)
           \/ DirLockTimeout(p)
  BY <1>3, FallbackIInv
     DEF FilesVanish, LockTimeout, Conflict, CompileFails, DirLockTimeout, Checks,
         PrepareChecks, Ended
<1>4. CASE AfterProbe(p)
  BY <1>4, FallbackIInv, MoveIInv DEF AfterProbe, Ended
<1>5. CASE NoConflict(p) \/ PublishUnsupported(p) \/ DirLockAcquired(p)
           \/ DirLockedLook(p)
  BY <1>5, MoveIInv DEF NoConflict, PublishUnsupported, DirLockAcquired, DirLockedLook
<1>6. CASE PublishNoReplace(p)
  BY <1>6, RenameIInv, MoveIInv DEF PublishNoReplace, LoseRace
<1>7. CASE PublishRename(p)
  BY <1>7, RenameIInv, MoveIInv DEF PublishRename, LoseRace, IInv, NotEmpty
<1>8. CASE QuarantineLook(p)
  <2>1. CASE entry = None
    BY <1>8, <2>1, SkipQuarantineIInv DEF QuarantineLook
  <2>2. CASE entry # None
    <3>1. seen[p] = None
      BY <1>8 DEF QuarantineLook, IInv, SeenInv, Checks, PrepareChecks
    <3> QED
      BY <1>8, <2>2, <3>1, MoveIInv DEF QuarantineLook
  <2> QED
    BY <2>1, <2>2
<1>9. CASE ReadManifest(p) \/ LockAcquired(p) \/ QuarantineInvalid(p) \/ Stage(p)
           \/ Compile(p) \/ WriteManifest(p) \/ LoadSucceeds(p) \/ LoadFails(p)
  BY <1>9, ReadManifestIInv, LockAcquiredIInv, QuarantineInvalidIInv, StageIInv,
     CompileIInv, WriteManifestIInv, LoadSucceedsIInv, LoadFailsIInv
<1> QED
  BY <1>1, <1>2, <1>3, <1>4, <1>5, <1>6, <1>7, <1>8, <1>9 DEF Step

\* The invariant is kept by every step of every process and of its surroundings.
LEMMA NextIInv == IInv /\ [Next]_vars => IInv'
<1> SUFFICES ASSUME IInv, [Next]_vars PROVE IInv'
  OBVIOUS
<1>1. CASE \E p \in Proc : Step(p) \/ Crash(p)
  BY <1>1, StepIInv, CrashIInv
<1>2. CASE Damage
  BY <1>2, DamageIInv
<1>3. CASE UNCHANGED vars
  BY <1>3 DEF vars, IInv, TypeOK, LockInv, StagedInv, NotEmpty, VisibleIsComplete,
              LockedEntryStable, StagingRemoved, SeenInv, Complete, ManifestOf
<1> QED
  BY <1>1, <1>2, <1>3 DEF Next, Finished

\* The inductive invariant holds in every behaviour.
THEOREM Invariance == Spec => []IInv
  BY InitIInv, NextIInv, PTL DEF Spec

\* Type correctness of the cache and its processes.
THEOREM TypeCorrect == Spec => []TypeOK
  BY Invariance, PTL DEF IInv

\* No partial directory ever becomes visible under artifacts/<key>, whatever
\* crashes, timeouts, compile failures and races happen on the way.
THEOREM VisibleComplete == Spec => []VisibleIsComplete
  BY Invariance, PTL DEF IInv

\* What the holder of the flock looks at does not change under it.
THEOREM LockedStable == Spec => []LockedEntryStable
  BY Invariance, PTL DEF IInv

\* prepare leaves no staging directory behind unless the process was killed.
THEOREM StagingCleaned == Spec => []StagingRemoved
  BY Invariance, PTL DEF IInv

\* A step never replaces one publication by another: neither the no-replace
\* rename nor the rename under a lock that excludes nobody.
THEOREM NoReplacement == Spec => NeverReplaced
<1> DEFINE A == entry # None => entry' = None \/ entry'.pub = entry.pub
<1>1. IInv /\ [Next]_vars => [A]_vars
  <2> SUFFICES ASSUME IInv, Next, entry # None
               PROVE  entry' = None \/ entry'.pub = entry.pub
    OBVIOUS
  <2>1. CASE Damage
    BY <2>1 DEF Damage, IInv, TypeOK, Directory
  <2>2. ASSUME NEW p \in Proc, Step(p) \/ Crash(p)
        PROVE  entry' = None \/ entry'.pub = entry.pub
    <3>1. entry.files # {}
      BY DEF IInv, NotEmpty
    <3> QED
      BY <2>2, <3>1
         DEF Step, Crash, ReadManifest, ManifestMissing, FilesMatch, FilesDiffer,
             FilesVanish, AfterProbe, LockAcquired, LockTimeout, QuarantineInvalid,
             Conflict, NoConflict, Stage, Compile, CompileFails, WriteManifest,
             PublishNoReplace, PublishUnsupported, DirLockAcquired, DirLockTimeout,
             DirLockedLook, PublishRename, LoadSucceeds, LoadFails, QuarantineLook,
             Invalid, Miss, Valid, Fallback, Return, QuarantineLoaded, SkipQuarantine,
             LoseRace, cache
  <2>3. CASE Finished
    BY <2>3 DEF Finished, vars
  <2> QED
    BY <2>1, <2>2, <2>3 DEF Next
<1> QED
  BY <1>1, Invariance, PTL DEF Spec, NeverReplaced

\* A step that makes the entry vanish is one of its lock holder.
LEMMA OnlyHolderRemoves ==
  ASSUME IInv, Next, entry # None, entry' = None
  PROVE  \E q \in Proc :
           /\ flock = q
           /\ \/ QuarantineInvalid(q)
              \/ pc[q] = "qcheck" /\ (ManifestMissing(q) \/ FilesMatch(q) \/ FilesDiffer(q))
<1>0. ~Damage /\ ~Finished
  BY NoneAssumption DEF Damage, Finished, vars, IInv, TypeOK, Directory
<1>1. PICK q \in Proc : Step(q) \/ Crash(q)
  BY <1>0 DEF Next
<1>2. pc[q] \in {"publish", "dirrename"} => staging[q] # None
  BY DEF IInv, StagedInv
<1>3. \/ QuarantineInvalid(q)
      \/ pc[q] = "qcheck" /\ (ManifestMissing(q) \/ FilesMatch(q) \/ FilesDiffer(q))
  BY <1>1, <1>2
     DEF Step, Crash, ReadManifest, ManifestMissing, FilesMatch, FilesDiffer,
         FilesVanish, AfterProbe, LockAcquired, LockTimeout, Conflict, NoConflict,
         Stage, Compile, CompileFails, WriteManifest, PublishNoReplace,
         PublishUnsupported, DirLockAcquired, DirLockTimeout, DirLockedLook,
         PublishRename, LoadSucceeds, LoadFails, QuarantineLook, Invalid, Miss, Valid,
         Fallback, Return, QuarantineLoaded, SkipQuarantine, LoseRace, Rename, cache
<1>4. flock = q
  BY <1>3 DEF IInv, LockInv, Holding, QuarantineInvalid
<1> QED
  BY <1>3, <1>4

\* quarantine_jit_artifact never discards a valid publication other than the
\* one that failed to load.
THEOREM NewerSpared == Spec => SparesNewer
<1> DEFINE A == \A p \in Proc :
        pc[p] \in {"qheld", "qcheck"} /\ flock = p /\ entry # None /\ entry' = None
          => ManifestOf(entry) = result[p] \/ ~Complete(entry)
<1>1. IInv /\ [Next]_vars => [A]_vars
  <2> SUFFICES ASSUME IInv, Next, NEW p \in Proc, pc[p] \in {"qheld", "qcheck"},
                      flock = p, entry # None, entry' = None, Complete(entry)
               PROVE  ManifestOf(entry) = result[p]
    OBVIOUS
  <2>1. /\ pc[p] = "qcheck"
        /\ ManifestMissing(p) \/ FilesMatch(p) \/ FilesDiffer(p)
    BY OnlyHolderRemoves DEF QuarantineInvalid
  <2>2. ~ManifestMissing(p)
    BY DEF ManifestMissing, Present, Complete, Files
  <2>3. seen[p] = ManifestOf(entry)
    BY <2>1, <2>2 DEF FilesMatch, FilesDiffer, IInv, LockedEntryStable
  <2>4. ~FilesDiffer(p)
    BY <2>3 DEF FilesDiffer, Matches, Present, Complete, Files, ManifestOf
  <2>5. seen[p] = result[p]
    BY <2>1, <2>2, <2>4 DEF FilesMatch, Valid, SkipQuarantine
  <2> QED
    BY <2>3, <2>5
<1> QED
  BY <1>1, Invariance, PTL DEF Spec, SparesNewer

-----------------------------------------------------------------------------
\* The second attempt is the last: it only starts after a failed load, which
\* failed_load_artifacts remembers, and no quarantine follows a second one.
LoopInv ==
  /\ attempt \in [Proc -> 1..2]
  /\ \A p \in Proc : attempt[p] = 2 => failedLoad[p] /\ pc[p] \notin {"qwait", "qheld", "qcheck"}
  /\ \A p \in Proc : pc[p] \in {"qwait", "qheld", "qcheck"} => failedLoad[p]

\* What a step does to the load loop: it starts another attempt from a
\* quarantine, it notes a failed load, or it leaves the loop's state alone.
LEMMA LoopStep ==
  ASSUME TypeOK, NEW p \in Proc, Step(p) \/ Crash(p)
  PROVE  \E l \in Points :
           /\ pc' = [pc EXCEPT ![p] = l]
           /\ \/ /\ pc[p] \in {"qheld", "qcheck"} /\ l = "probe"
                 /\ attempt' = [attempt EXCEPT ![p] = @ + 1]
                 /\ failedLoad' = failedLoad
              \/ /\ l \in {"failed", "qwait"}
                 /\ failedLoad[p] => l = "failed"
                 /\ attempt' = attempt
                 /\ failedLoad' = [failedLoad EXCEPT ![p] = TRUE]
              \/ /\ l \in {"qwait", "qheld", "qcheck"} => pc[p] \in {"qwait", "qheld", "qcheck"}
                 /\ attempt' = attempt
                 /\ failedLoad' = failedLoad
<1> DEFINE Q == {"qwait", "qheld", "qcheck"}
           Same(l) == /\ pc' = [pc EXCEPT ![p] = l]
                      /\ l \in Q => pc[p] \in Q
                      /\ attempt' = attempt /\ failedLoad' = failedLoad
<1> SUFFICES \/ \E l \in Points : Same(l)
             \/ \E l \in {"failed", "qwait"} :
                  /\ pc' = [pc EXCEPT ![p] = l]
                  /\ failedLoad[p] => l = "failed"
                  /\ attempt' = attempt
                  /\ failedLoad' = [failedLoad EXCEPT ![p] = TRUE]
             \/ /\ pc' = [pc EXCEPT ![p] = "probe"]
                /\ pc[p] \in {"qheld", "qcheck"}
                /\ attempt' = [attempt EXCEPT ![p] = @ + 1]
                /\ failedLoad' = failedLoad
  BY DEF Points, Ended, Preparing, PrepareChecks
<1> USE DEF Goto, cache, local
<1>1. ASSUME Fallback(p) PROVE Same("failed")
  BY <1>1 DEF Fallback
<1>2. ASSUME NextAttempt(p), failedLoad' = failedLoad, pc[p] \in {"qheld", "qcheck"}
      PROVE  \/ Same("failed")
             \/ /\ pc' = [pc EXCEPT ![p] = "probe"]
                /\ pc[p] \in {"qheld", "qcheck"}
                /\ attempt' = [attempt EXCEPT ![p] = @ + 1]
                /\ failedLoad' = failedLoad
  BY <1>2 DEF NextAttempt
<1>3. {"failed", "dead", "load", "miss", "lockedmiss", "recheckmiss"} \subseteq Points
  BY DEF Points, Ended, Preparing, PrepareChecks, Holding
<1>4. CASE ManifestMissing(p) \/ FilesDiffer(p)
  <2>1. CASE pc[p] \in {"built", "joined"} /\ Fallback(p)
    BY <2>1, <1>1, <1>3
  <2>2. CASE pc[p] = "qcheck" /\ QuarantineLoaded(p)
    BY <2>2, <1>2, <1>3 DEF QuarantineLoaded
  <2>3. ASSUME NEW l \in {"miss", "lockedmiss", "recheckmiss"}, Miss(p, l) PROVE Same(l)
    BY <2>3 DEF Miss
  <2> QED
    BY <1>3, <1>4, <2>1, <2>2, <2>3 DEF ManifestMissing, FilesDiffer, Invalid
<1>5. CASE FilesMatch(p)
  <2>1. CASE pc[p] # "qcheck"
    <3>1. Same("load")
      BY <1>5, <2>1 DEF FilesMatch, Valid, Return
    <3> QED
      BY <3>1, <1>3
  <2>2. CASE pc[p] = "qcheck"
    BY <1>2, <1>3, <1>5, <2>2 DEF FilesMatch, Valid, QuarantineLoaded, SkipQuarantine
  <2> QED
    BY <2>1, <2>2
<1>6. CASE FilesVanish(p) \/ LockTimeout(p) \/ Conflict(p) \/ CompileFails(p)
           \/ DirLockTimeout(p)
  BY <1>1, <1>3, <1>6 DEF FilesVanish, LockTimeout, Conflict, CompileFails, DirLockTimeout
<1>7. CASE AfterProbe(p)
  <2>1. CASE p \notin Writers
    BY <1>1, <1>3, <1>7, <2>1 DEF AfterProbe
  <2>2. CASE p \in Writers
    <3>1. \E l \in {"lockwait", "recheck"} : Same(l)
      BY <1>7, <2>2 DEF AfterProbe
    <3> QED
      BY <3>1 DEF Points, Preparing, PrepareChecks
  <2> QED
    BY <2>1, <2>2
<1>8. CASE NoConflict(p) \/ Stage(p) \/ Compile(p) \/ WriteManifest(p)
           \/ PublishUnsupported(p) \/ DirLockAcquired(p) \/ DirLockedLook(p)
           \/ QuarantineInvalid(p)
  <2>1. \E l \in Preparing : Same(l)
    BY <1>8 DEF NoConflict, Stage, Compile, WriteManifest, PublishUnsupported,
       DirLockAcquired, DirLockedLook, QuarantineInvalid, Preparing, PrepareChecks
  <2> QED
    BY <2>1 DEF Points
<1>9. CASE PublishNoReplace(p) \/ PublishRename(p)
  <2>1. Same("built") \/ Same("joined")
    BY <1>9 DEF PublishNoReplace, PublishRename, Rename, LoseRace
  <2> QED
    BY <2>1 DEF Points, Preparing, PrepareChecks
<1>10. CASE LockAcquired(p)
  <2>1. Same("locked") \/ Same("qheld")
    BY <1>10 DEF LockAcquired
  <2> QED
    BY <2>1 DEF Points, Holding
<1>11. CASE LoadSucceeds(p) \/ Crash(p)
  <2>1. Same("done") \/ Same("dead")
    BY <1>11 DEF LoadSucceeds, Crash
  <2> QED
    BY <2>1 DEF Points, Ended
<1>12. CASE LoadFails(p)
  BY <1>12 DEF LoadFails
<1>13. CASE QuarantineLook(p)
  <2>1. CASE entry = None
    BY <1>2, <1>3, <1>13, <2>1 DEF QuarantineLook, SkipQuarantine
  <2>2. CASE entry # None
    <3>1. Same("qcheck")
      BY <1>13, <2>2 DEF QuarantineLook
    <3> QED
      BY <3>1 DEF Points, Holding
  <2> QED
    BY <2>1, <2>2
<1>14. CASE ReadManifest(p)
  <2>1. pc' = [pc EXCEPT ![p] = pc[p]] /\ pc[p] \in Points
    BY <1>14 DEF ReadManifest, TypeOK
  <2>2. Same(pc[p])
    BY <1>14, <2>1 DEF ReadManifest
  <2> QED
    BY <2>1, <2>2
<1> QED
  BY <1>4, <1>5, <1>6, <1>7, <1>8, <1>9, <1>10, <1>11, <1>12, <1>13, <1>14 DEF Step

\* "recovery attempts were exhausted" is never reached: two failed loads end
\* the loop, whatever happens to the entry between them.
THEOREM TwoLoads == Spec => []TwoLoadsAtMost
<1>1. Init => LoopInv
  BY InitIInv DEF Init, IInv, TypeOK, LoopInv
<1>2. TypeOK /\ LoopInv /\ [Next]_vars => LoopInv'
  <2> SUFFICES ASSUME TypeOK, LoopInv, [Next]_vars PROVE LoopInv'
    OBVIOUS
  <2>1. ASSUME NEW p \in Proc, Step(p) \/ Crash(p), NEW q \in Proc
        PROVE  /\ attempt' \in [Proc -> 1..2]
               /\ attempt'[q] = 2 => failedLoad'[q] /\ pc'[q] \notin {"qwait", "qheld", "qcheck"}
               /\ pc'[q] \in {"qwait", "qheld", "qcheck"} => failedLoad'[q]
    <3>1. PICK l \in Points :
            /\ pc' = [pc EXCEPT ![p] = l]
            /\ \/ /\ pc[p] \in {"qheld", "qcheck"} /\ l = "probe"
                  /\ attempt' = [attempt EXCEPT ![p] = @ + 1]
                  /\ failedLoad' = failedLoad
               \/ /\ l \in {"failed", "qwait"}
                  /\ failedLoad[p] => l = "failed"
                  /\ attempt' = attempt
                  /\ failedLoad' = [failedLoad EXCEPT ![p] = TRUE]
               \/ /\ l \in {"qwait", "qheld", "qcheck"} => pc[p] \in {"qwait", "qheld", "qcheck"}
                  /\ attempt' = attempt
                  /\ failedLoad' = failedLoad
      BY <2>1, LoopStep
    <3>2. CASE q # p
      BY <3>1, <3>2 DEF LoopInv, TypeOK
    <3>3. CASE q = p
      BY <3>1, <3>3 DEF LoopInv, TypeOK
    <3> QED
      BY <3>2, <3>3
  <2>2. CASE Damage
    BY <2>2 DEF Damage, LoopInv, local
  <2>3. CASE UNCHANGED vars
    BY <2>3 DEF vars, LoopInv
  <2> QED
    BY <2>1, <2>2, <2>3 DEF Next, Finished, LoopInv
<1>3. LoopInv => TwoLoadsAtMost
  <2>1. LoopInv => attempt \in [Proc -> 1..2]
    BY DEF LoopInv
  <2> QED
    BY <2>1 DEF TwoLoadsAtMost
<1> QED
  BY <1>1, <1>2, <1>3, TypeCorrect, PTL DEF Spec
=============================================================================
