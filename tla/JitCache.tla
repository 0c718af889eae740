------------------------------ MODULE JitCache ------------------------------
(***************************************************************************)
(* One key of the content-addressed JIT artifact cache                     *)
(* (symmetrix/source/symmetrix/jit.py), used concurrently by several       *)
(* processes that share a cache root.  Each process runs the load loop of  *)
(* the calculator and of the artifact tools: prepare the artifact, load    *)
(* it, quarantine it if it does not load, and try again.                   *)
(*                                                                         *)
(* An entry is a directory `artifacts/<key>' that holds a source, an       *)
(* artifact and a manifest.  Readers validate it without a lock, in two    *)
(* file-system steps (the manifest, then the files the manifest names), so *)
(* the entry may be renamed away and replaced between the two.  Only the   *)
(* holder of the key's flock moves an entry away; publishers take no       *)
(* flock.  The portable `mkdir' lock of the publishers is the subject of   *)
(* DirLock; here it is taken to exclude nobody, because DirLock shows that *)
(* a stale takeover can put two processes inside it.                       *)
(***************************************************************************)
EXTENDS Naturals

CONSTANTS
  Proc,       \* the processes that share the cache root
  NoReplace,  \* those whose kernel and file system offer a no-replace rename
  Writers,    \* those that own the root (_ensure_private_cache_root succeeds)
  Digest,     \* contents a compilation of the key's source may produce
  Broken,     \* the contents that no process can load
  Faults,     \* the failures a run admits
  Old,        \* stands for a publisher that ran before these processes
  None        \* no entry, no manifest, no directory, no owner

FaultKinds == {"crash", "damage", "compile", "timeout"}

MaxAttempts == 4

ASSUME CacheAssumption ==
  /\ NoReplace \subseteq Proc
  /\ Writers \subseteq Proc
  /\ Broken \subseteq Digest
  /\ Faults \subseteq FaultKinds
  /\ Old \notin Proc
  /\ None \notin Proc

-----------------------------------------------------------------------------
\* A directory: who published it and on which attempt (the publication id),
\* what its artifact contains, and which of its files are present and intact.

Files == {"source", "artifact", "manifest"}

Pub == (Proc \cup {Old}) \X (0..MaxAttempts)

Manifest == [pub : Pub, digest : Digest]

Directory == [pub : Pub, digest : Digest, files : SUBSET Files]

ASSUME NoneAssumption ==
  None \notin Pub /\ None \notin Manifest /\ None \notin Directory

ManifestOf(d) == [pub |-> d.pub, digest |-> d.digest]

Complete(d) == d.files = Files

VARIABLES
  entry,       \* artifacts/<key>, or None
  invalid,     \* publications kept under .invalid/
  flock,       \* holder of locks/<key>.lock, or None
  pc,          \* where each process is
  attempt,     \* _load_attempt, from 1
  failedLoad,  \* the artifact path is in failed_load_artifacts
  seen,        \* manifest read by a validation in progress, or None
  staging,     \* the process's directory under .staging, or None
  quarantine,  \* what prepare itself quarantined, or None
  retained,    \* what the load loop quarantined (retained_quarantines)
  result,      \* manifest of the JitResult held, or None
  damaged,     \* history: publications damaged after they were published
  published    \* history: the manifests that were visible as the entry

cache == <<entry, invalid, flock, damaged, published>>
local == <<attempt, failedLoad, retained, result>>
vars == <<entry, invalid, flock, pc, attempt, failedLoad, seen, staging,
          quarantine, retained, result, damaged, published>>

\* Program points inside prepare that validate the entry.
PrepareChecks == {"probe", "locked", "recheck", "built", "joined"}
Checks == PrepareChecks \cup {"qcheck"}

Preparing == PrepareChecks \cup
  {"miss", "lockwait", "lockedmiss", "recheckmiss", "stage", "compile",
   "manifest", "publish", "dirlock", "dirheld", "dirrename"}

\* Program points at which the process holds the key's flock.
Holding == {"locked", "lockedmiss", "qheld", "qcheck"}

Ended == {"done", "failed", "dead"}

Points == Preparing \cup Holding \cup Ended \cup {"load", "qwait"}

TypeOK ==
  /\ entry \in Directory \cup {None}
  /\ invalid \subseteq Pub
  /\ flock \in Proc \cup {None}
  /\ pc \in [Proc -> Points]
  /\ attempt \in [Proc -> 1..MaxAttempts]
  /\ failedLoad \in [Proc -> BOOLEAN]
  /\ seen \in [Proc -> Manifest \cup {None}]
  /\ staging \in [Proc -> Directory \cup {None}]
  /\ quarantine \in [Proc -> Pub \cup {None}]
  /\ retained \in [Proc -> SUBSET Pub]
  /\ result \in [Proc -> Manifest \cup {None}]
  /\ damaged \subseteq Pub
  /\ published \subseteq Manifest

\* The root may already hold an entry, intact or left invalid by an accident.
OldEntry ==
  {d \in Directory : /\ d.pub = <<Old, 0>>
                     /\ \E f \in Files : Files \ {f} \subseteq d.files}

Init ==
  /\ entry \in OldEntry \cup {None}
  /\ invalid = {}
  /\ flock = None
  /\ pc = [p \in Proc |-> "probe"]
  /\ attempt = [p \in Proc |-> 1]
  /\ failedLoad = [p \in Proc |-> FALSE]
  /\ seen = [p \in Proc |-> None]
  /\ staging = [p \in Proc |-> None]
  /\ quarantine = [p \in Proc |-> None]
  /\ retained = [p \in Proc |-> {}]
  /\ result = [p \in Proc |-> None]
  /\ damaged = IF entry = None \/ Complete(entry) THEN {} ELSE {<<Old, 0>>}
  /\ published = IF entry = None THEN {} ELSE {ManifestOf(entry)}

-----------------------------------------------------------------------------
\* Ways a process leaves a program point.

Goto(p, l) == pc' = [pc EXCEPT ![p] = l]

Unlocked(p) == IF flock = p THEN None ELSE flock

\* Mutant: the `finally' clause forgets the staging directory.
FallbackLeavingStaging(p) ==
  /\ Goto(p, "failed")
  /\ flock' = Unlocked(p)
  /\ seen' = [seen EXCEPT ![p] = None]
  /\ result' = [result EXCEPT ![p] = None]
  /\ UNCHANGED <<entry, invalid, staging, quarantine, damaged, published, attempt, failedLoad,
                 retained>>

\* `except Exception' and `finally' of prepare: the lock context exits, the
\* staging directory is removed, the caller gets status "fallback" and the
\* load loop raises (RTC does not fall back).
Fallback(p) ==
  /\ Goto(p, "failed")
  /\ flock' = Unlocked(p)
  /\ staging' = [staging EXCEPT ![p] = None]
  /\ seen' = [seen EXCEPT ![p] = None]
  /\ result' = [result EXCEPT ![p] = None]
  /\ UNCHANGED <<entry, invalid, quarantine, damaged, published, attempt, failedLoad, retained>>

\* prepare returns an available result: it discards what it quarantined
\* itself and any staging directory it did not publish.
Return(p, m) ==
  /\ Goto(p, "load")
  /\ result' = [result EXCEPT ![p] = m]
  /\ invalid' = invalid \ {quarantine[p]}
  /\ flock' = Unlocked(p)
  /\ staging' = [staging EXCEPT ![p] = None]
  /\ seen' = [seen EXCEPT ![p] = None]
  /\ UNCHANGED <<entry, attempt, failedLoad, quarantine, retained, damaged, published>>

\* The loop variable advances; prepare starts with no quarantine of its own.
NextAttempt(p) ==
  IF attempt[p] = MaxAttempts
  THEN Goto(p, "failed") /\ UNCHANGED <<attempt, quarantine>>
  ELSE /\ Goto(p, "probe")
       /\ attempt' = [attempt EXCEPT ![p] = @ + 1]
       /\ quarantine' = [quarantine EXCEPT ![p] = None]

\* quarantine_jit_artifact moves the entry away, drops superseded quarantines
\* of the key, and the loop goes on.
QuarantineLoaded(p) ==
  /\ entry' = None
  /\ invalid' = {entry.pub}
  /\ retained' = [retained EXCEPT ![p] = @ \cup {entry.pub}]
  /\ flock' = None
  /\ seen' = [seen EXCEPT ![p] = None]
  /\ NextAttempt(p)
  /\ UNCHANGED <<failedLoad, staging, result, damaged, published>>

\* The cache key has a newer publication, or no entry: nothing to quarantine.
SkipQuarantine(p) ==
  /\ flock' = None
  /\ seen' = [seen EXCEPT ![p] = None]
  /\ NextAttempt(p)
  /\ UNCHANGED <<entry, invalid, failedLoad, staging, retained, result, damaged, published>>

-----------------------------------------------------------------------------
\* validate_jit_manifest: the manifest is read first, the files it names later.

\* The files of fs are there, under the entry's path.
Present(fs) == entry # None /\ fs \subseteq entry.files

\* Mutant: the files are found but their digests are not compared.
MatchesByName(m) == Present({"source", "artifact"})

\* The files are there and have the digests manifest m gives.
Matches(m) ==
  /\ Present({"source", "artifact"})
  /\ entry.digest = m.digest

\* The loader can use what artifact_path names now.
Loadable == Present({"artifact"}) /\ entry.digest \notin Broken

\* The caller catches the error and goes on to look at the entry again.
Miss(p, l) ==
  /\ Goto(p, l)
  /\ seen' = [seen EXCEPT ![p] = None]
  /\ UNCHANGED <<cache, staging, quarantine, local>>

\* Where a JitManifestError leads from each validation.
Invalid(p) ==
  \/ pc[p] = "probe" /\ Miss(p, "miss")
  \/ pc[p] = "locked" /\ Miss(p, "lockedmiss")
  \/ pc[p] = "recheck" /\ Miss(p, "recheckmiss")
  \/ pc[p] \in {"built", "joined"} /\ Fallback(p)
  \/ pc[p] = "qcheck" /\ QuarantineLoaded(p)

\* Mutant: the current manifest is not compared with the result's.
ValidUncompared(p) ==
  IF pc[p] # "qcheck" THEN Return(p, seen[p]) ELSE QuarantineLoaded(p)

\* Where a successful validation leads.
Valid(p) ==
  IF pc[p] # "qcheck"
  THEN Return(p, seen[p])
  ELSE IF seen[p] = result[p] THEN QuarantineLoaded(p) ELSE SkipQuarantine(p)

ReadManifest(p) ==
  /\ pc[p] \in Checks
  /\ seen[p] = None
  /\ Present({"manifest"})
  /\ seen' = [seen EXCEPT ![p] = ManifestOf(entry)]
  /\ UNCHANGED <<cache, pc, staging, quarantine, local>>

ManifestMissing(p) ==
  /\ pc[p] \in Checks
  /\ seen[p] = None
  /\ ~Present({"manifest"})
  /\ Invalid(p)

FilesMatch(p) ==
  /\ pc[p] \in Checks
  /\ seen[p] # None
  /\ Matches(seen[p])
  /\ Valid(p)

\* Missing files and differing digests are manifest errors.
FilesDiffer(p) ==
  /\ pc[p] \in Checks
  /\ seen[p] # None
  /\ ~Matches(seen[p])
  /\ Invalid(p)

\* The entry goes between is_file() and open() or stat(): an OSError, which
\* no caller of the validation catches as an invalid entry.
FilesVanish(p) ==
  /\ pc[p] \in Checks
  /\ seen[p] # None
  /\ entry = None
  /\ Fallback(p)

-----------------------------------------------------------------------------
\* _prepare_compiled_artifact

\* _ensure_private_cache_root, then the look that decides on the key lock.
AfterProbe(p) ==
  /\ pc[p] = "miss"
  /\ IF p \notin Writers
     THEN Fallback(p)
     ELSE /\ Goto(p, IF entry # None THEN "lockwait" ELSE "recheck")
          /\ UNCHANGED <<cache, seen, staging, quarantine, local>>

\* Mutant: the lock is taken whoever holds it.
LockIneffective(p) ==
  /\ flock' = p
  /\ \/ pc[p] = "lockwait" /\ Goto(p, "locked")
     \/ pc[p] = "qwait" /\ p \in Writers /\ Goto(p, "qheld")
  /\ UNCHANGED <<entry, invalid, damaged, published, seen, staging, quarantine, local>>

\* _cache_key_lock (flock): acquired when free, abandoned at the deadline.
LockAcquired(p) ==
  /\ flock = None
  /\ flock' = p
  /\ \/ pc[p] = "lockwait" /\ Goto(p, "locked")
     \/ pc[p] = "qwait" /\ p \in Writers /\ Goto(p, "qheld")
  /\ UNCHANGED <<entry, invalid, damaged, published, seen, staging, quarantine, local>>

LockTimeout(p) ==
  /\ "timeout" \in Faults
  /\ flock # None
  /\ pc[p] \in {"lockwait", "qwait"}
  /\ Fallback(p)

\* Mutant: what is remembered is the publisher, not where the entry was moved.
QuarantineMisnamed(p) ==
  /\ pc[p] = "lockedmiss"
  /\ entry # None
  /\ entry' = None
  /\ invalid' = invalid \cup {entry.pub}
  /\ quarantine' = [quarantine EXCEPT ![p] = entry.pub[1]]
  /\ flock' = None
  /\ Goto(p, "recheck")
  /\ UNCHANGED <<seen, staging, damaged, published, local>>

\* Under the lock the entry is still invalid: _quarantine_invalid_entry moves
\* whatever is there now.  The lock is then released.
QuarantineInvalid(p) ==
  /\ pc[p] = "lockedmiss"
  /\ IF entry # None
     THEN /\ entry' = None
          /\ invalid' = invalid \cup {entry.pub}
          /\ quarantine' = [quarantine EXCEPT ![p] = entry.pub]
     ELSE UNCHANGED <<entry, invalid, quarantine>>
  /\ flock' = None
  /\ Goto(p, "recheck")
  /\ UNCHANGED <<seen, staging, damaged, published, local>>

\* "a conflicting JIT entry appeared before compilation"
Conflict(p) ==
  /\ pc[p] = "recheckmiss"
  /\ entry # None
  /\ Fallback(p)

NoConflict(p) ==
  /\ pc[p] = "recheckmiss"
  /\ entry = None
  /\ Goto(p, "stage")
  /\ UNCHANGED <<cache, seen, staging, quarantine, local>>

\* _create_staging_directory and _write_text(source_path).  The digest is the
\* one that compiling will yield; nothing looks at it before Compile.
Stage(p) ==
  /\ pc[p] = "stage"
  /\ \E d \in Digest :
       staging' = [staging EXCEPT ![p] =
         [pub |-> <<p, attempt[p]>>, digest |-> d, files |-> {"source"}]]
  /\ Goto(p, "compile")
  /\ UNCHANGED <<cache, seen, quarantine, local>>

\* Mutant: the directory is published before its manifest is written.
CompileThenPublish(p) ==
  /\ pc[p] = "compile"
  /\ staging' = [staging EXCEPT ![p].files = @ \cup {"artifact"}]
  /\ Goto(p, "publish")
  /\ UNCHANGED <<cache, seen, quarantine, local>>

Compile(p) ==
  /\ pc[p] = "compile"
  /\ staging' = [staging EXCEPT ![p].files = @ \cup {"artifact"}]
  /\ Goto(p, "manifest")
  /\ UNCHANGED <<cache, seen, quarantine, local>>

\* Nonzero exit, empty artifact or compile_timeout.
CompileFails(p) ==
  /\ "compile" \in Faults
  /\ pc[p] = "compile"
  /\ Fallback(p)

\* _write_json(manifest), then _validated_entry(temporary_directory).
WriteManifest(p) ==
  /\ pc[p] = "manifest"
  /\ staging' = [staging EXCEPT ![p].files = @ \cup {"manifest"}]
  /\ Goto(p, "publish")
  /\ UNCHANGED <<cache, seen, quarantine, local>>

\* The rename: the staging directory becomes the entry.
Rename(p) ==
  /\ entry' = staging[p]
  /\ published' = published \cup {ManifestOf(staging[p])}
  /\ staging' = [staging EXCEPT ![p] = None]
  /\ Goto(p, "built")
  /\ UNCHANGED <<invalid, flock, damaged, seen, quarantine, local>>

LoseRace(p) ==
  /\ Goto(p, "joined")
  /\ UNCHANGED <<cache, seen, staging, quarantine, local>>

\* _publish_directory_no_replace: EEXIST means another process was first.
PublishNoReplace(p) ==
  /\ pc[p] = "publish"
  /\ p \in NoReplace
  /\ IF entry = None THEN Rename(p) ELSE LoseRace(p)

\* JitPublicationUnsupported: fall through to the mkdir-locked publication.
PublishUnsupported(p) ==
  /\ pc[p] = "publish"
  /\ p \notin NoReplace
  /\ Goto(p, "dirlock")
  /\ UNCHANGED <<cache, seen, staging, quarantine, local>>

\* _publish_directory_with_mkdir_lock, with a lock that excludes nobody.
DirLockAcquired(p) ==
  /\ pc[p] = "dirlock"
  /\ Goto(p, "dirheld")
  /\ UNCHANGED <<cache, seen, staging, quarantine, local>>

DirLockTimeout(p) ==
  /\ "timeout" \in Faults
  /\ pc[p] = "dirlock"
  /\ Fallback(p)

DirLockedLook(p) ==
  /\ pc[p] = "dirheld"
  /\ Goto(p, IF entry # None THEN "joined" ELSE "dirrename")
  /\ UNCHANGED <<cache, seen, staging, quarantine, local>>

\* Mutant: a rename that replaces what another process published meanwhile.
PublishReplace(p) == pc[p] = "dirrename" /\ Rename(p)

\* os.rename replaces an empty directory, fails on any other (ENOTEMPTY).
PublishRename(p) ==
  /\ pc[p] = "dirrename"
  /\ IF entry = None \/ entry.files = {} THEN Rename(p) ELSE LoseRace(p)

-----------------------------------------------------------------------------
\* The load loop around prepare.

\* Mutant: remove_jit_quarantine is not called.
LoadKeepsEvidence(p) ==
  /\ pc[p] = "load"
  /\ Loadable
  /\ Goto(p, "done")
  /\ UNCHANGED <<cache, seen, staging, quarantine, local>>

\* The loader opens artifact_path, whatever publication it now names.
LoadSucceeds(p) ==
  /\ pc[p] = "load"
  /\ Loadable
  /\ invalid' = invalid \ retained[p]      \* remove_jit_quarantine
  /\ Goto(p, "done")
  /\ UNCHANGED <<entry, flock, damaged, published, seen, staging, quarantine, local>>

\* Mutant: failed_load_artifacts is never consulted.
LoadFailsForgetful(p) ==
  /\ pc[p] = "load"
  /\ ~Loadable
  /\ Goto(p, IF p \notin Writers THEN "failed" ELSE "qwait")
  /\ UNCHANGED <<cache, seen, staging, quarantine, local>>

\* Mutant: a failed load is retried at once, uncounted.
LoadFailsRetry(p) ==
  /\ pc[p] = "load"
  /\ ~Loadable
  /\ Goto(p, "probe")
  /\ UNCHANGED <<cache, seen, staging, quarantine, local>>

\* Every attempt names the same key and path, so a second failure raises.
LoadFails(p) ==
  /\ pc[p] = "load"
  /\ ~Loadable
  /\ Goto(p, IF failedLoad[p] \/ p \notin Writers THEN "failed" ELSE "qwait")
  /\ failedLoad' = [failedLoad EXCEPT ![p] = TRUE]
  /\ UNCHANGED <<cache, seen, staging, quarantine, attempt, retained, result>>

\* quarantine_jit_artifact under the lock: is there an entry at all?
QuarantineLook(p) ==
  /\ pc[p] = "qheld"
  /\ IF entry = None
     THEN SkipQuarantine(p)
     ELSE /\ Goto(p, "qcheck")
          /\ UNCHANGED <<cache, seen, staging, quarantine, local>>

-----------------------------------------------------------------------------
\* Failures around the program.

\* The process is killed: the kernel drops its flock, its files stay.
Crash(p) ==
  /\ "crash" \in Faults
  /\ pc[p] \notin Ended
  /\ Goto(p, "dead")
  /\ flock' = Unlocked(p)
  /\ seen' = [seen EXCEPT ![p] = None]
  /\ result' = [result EXCEPT ![p] = None]
  /\ UNCHANGED <<entry, invalid, damaged, published, staging, quarantine, attempt, failedLoad,
                 retained>>

\* A file of the entry is lost or altered, once in the life of a publication.
Damage ==
  /\ "damage" \in Faults
  /\ entry # None
  /\ entry.pub \notin damaged
  /\ \E f \in entry.files : entry' = [entry EXCEPT !.files = @ \ {f}]
  /\ damaged' = damaged \cup {entry.pub}
  /\ UNCHANGED <<invalid, flock, published, pc, seen, staging, quarantine, local>>

Step(p) ==
  \/ ReadManifest(p) \/ ManifestMissing(p)
  \/ FilesMatch(p) \/ FilesDiffer(p) \/ FilesVanish(p)
  \/ AfterProbe(p) \/ LockAcquired(p) \/ LockTimeout(p) \/ QuarantineInvalid(p)
  \/ Conflict(p) \/ NoConflict(p) \/ Stage(p) \/ Compile(p) \/ CompileFails(p)
  \/ WriteManifest(p) \/ PublishNoReplace(p) \/ PublishUnsupported(p)
  \/ DirLockAcquired(p) \/ DirLockTimeout(p) \/ DirLockedLook(p)
  \/ PublishRename(p)
  \/ LoadSucceeds(p) \/ LoadFails(p) \/ QuarantineLook(p)

\* Every process has ended, by itself or by a crash.
Finished ==
  /\ \A p \in Proc : pc[p] \in Ended
  /\ UNCHANGED vars

Next ==
  \/ \E p \in Proc : Step(p) \/ Crash(p)
  \/ Damage
  \/ Finished

\* Live processes keep being scheduled.
Fairness == \A p \in Proc : WF_vars(Step(p))

Spec == Init /\ [][Next]_vars
FairSpec == Spec /\ Fairness

-----------------------------------------------------------------------------
\* Properties

\* Publication never replaces: an entry that is present stays the same
\* publication until a lock holder moves it away
\* (_publish_directory_no_replace, _publish_directory_with_mkdir_lock,
\* although the mkdir lock may exclude nobody).
NeverReplaced ==
  [][entry # None => entry' = None \/ entry'.pub = entry.pub]_vars

\* No crash, lost race or failed compilation makes a partial directory
\* visible: an entry nobody damaged since it was published is complete.
VisibleIsComplete ==
  entry # None /\ entry.pub \notin damaged => Complete(entry)

\* quarantine_jit_artifact removes the publication that failed to load, or an
\* entry that is invalid anyway, never a newer valid publication
\* ("skipped quarantine because the cache key has a newer publication").
SparesNewer ==
  [][\A p \in Proc :
        pc[p] \in {"qheld", "qcheck"} /\ flock = p /\ entry # None /\ entry' = None
          => ManifestOf(entry) = result[p] \/ ~Complete(entry)]_vars

\* The entry that quarantine_jit_artifact examines under the key's flock is
\* the one it then moves: it neither vanishes nor changes its publication
\* meanwhile, although publishers take no flock (_posix_key_lock excludes the
\* only other movers, and publication never replaces).
LockedEntryStable ==
  \A p \in Proc :
    pc[p] = "qcheck" =>
      /\ entry # None
      /\ seen[p] # None => seen[p] = ManifestOf(entry)

\* Staging directories are private and removed on every path of prepare but a
\* crash (the `finally' clause): no process outside prepare still has one.
StagingRemoved ==
  \A p \in Proc : staging[p] # None => pc[p] \in Preparing \cup {"dead"}

\* A process that got its plugin leaves no quarantined evidence of its own
\* behind (remove_jit_quarantine and the end of prepare).
EvidenceDiscarded ==
  \A p \in Proc :
    pc[p] = "done" => quarantine[p] \notin invalid /\ retained[p] \cap invalid = {}

\* Two load failures end the loop, because every attempt names the same key
\* and path: "recovery attempts were exhausted" is never reached.
TwoLoadsAtMost == \A p \in Proc : attempt[p] <= 2

\* Every call to prepare and every load loop ends: lock waits have deadlines
\* and crashed lock holders lose their flock.
LoopEnds == \A p \in Proc : <>(pc[p] \in Ended)

\* Where nothing fails and no artifact is broken, a process that misses the
\* cache concurrently with others obtains an artifact: "Concurrent cache misses
\* compile in private staging directories", and the loser "revalidates any
\* winner" (docs/streamed_edge_execution.md).
ConcurrentMissSucceeds == \A p \in Proc : pc[p] # "failed"
=============================================================================
