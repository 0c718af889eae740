------------------------------ MODULE JitStore ------------------------------
(***************************************************************************)
(* The JIT cache implements ArtifactStore: the slot is the manifest of the *)
(* visible entry whatever files it has lost, and a client has been served  *)
(* the manifest of its JitResult.                                          *)
(***************************************************************************)
EXTENDS JitCache

Slot == IF entry = None THEN None ELSE ManifestOf(entry)

Store == INSTANCE ArtifactStore
           WITH Client <- Proc, Item <- Manifest, slot <- Slot, served <- result

\* The cache is the slot it promises to be, through crashes, lost races,
\* damaged files and timeouts: publication is atomic and never replaces or
\* repeats (_publish_directory_no_replace and the mkdir-locked rename), and
\* prepare returns a result only while the entry has the digest of the result's
\* manifest, although the manifest and the files are read in separate steps.
ImplementsStore == Store!Spec
=============================================================================
