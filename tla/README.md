# TLA+ models of Symmetrix-XL

Symmetrix-XL evaluates MACE interatomic potentials from Python (an ASE
calculator) and from LAMMPS.  Most of the repository is numerical: Kokkos
kernels, code generators, model extraction.  This directory models the part
that is a *protocol*: caches shared by processes, native state that Python and
C++ keep in step by tokens, ranks that exchange state, a planner whose arrays
outlive its plans, and the failure paths between them.

    cd tla
    tlc -config JitCacheFaults.cfg MCJitStore      # model checking
    tlapm JitCacheProofs.tla                       # proofs (*Proofs.tla)

All paths below are relative to the repository root.  `jit.py` and
`calculator.py` are in `symmetrix/source/symmetrix/`, the C++ files in
`libsymmetrix/source/` unless a path is given; `lifecycle` is
`mace_kokkos_factorized_lifecycle.cpp`, `runtime` `mace_kokkos_runtime.cpp`,
`evaluate` `mace_kokkos_evaluate.cpp`.

## 1. Inventory

| Component | State it keeps | Operations | What makes it hard | What makes it correct |
|---|---|---|---|---|
| **JIT artifact cache** (`jit.py`) | a cache root on disk: `artifacts/<key>/` with source, artifact and manifest, `.staging/`, `.invalid/`, `locks/` | `prepare_*` (probe, lock, quarantine, stage, compile, publish, revalidate), `quarantine_jit_artifact`, `remove_jit_quarantine` | processes share the root without a server; validation is two unlocked reads; publishers take no lock; crashes, damaged files, time-outs | no partial entry is visible, no entry is replaced, a good one is not discarded, nothing is leaked, everybody ends |
| **Portable directory lock** (`_directory_key_lock`) | `<key>.lock.d/` and its `owner.json` | mkdir, write owner, staleness test, takeover, release | every call names a path, so it acts on whichever directory has that path by then | exclusion, takeover of stale locks only, recovery after a crash |
| **Load loop** (`Symmetrix._configure_jit`, `jit_host_artifact.py`, `jit_device_artifact.py`, `jit_operator_artifact.py`) | attempt, failed artifacts, retained quarantines | prepare, load, quarantine, retry | it reacts to an entry another process may have changed since | ends, keeps no evidence of a failure it recovered from |
| **Calculator neighbor cache** (`calculator.py`) | `_NeighborCache`, build and geometry counters, identities of what was handed to the evaluator | `_cached_neighbor_geometry`, `_materialize_neighbor_cache_geometry`, `_compute_mace`, `_compute_macefield`, launch-tuning retry | three generation counters and three remembered identities must imply what the native side holds | every completed evaluation used the right graph, cell and tables |
| **Native prepared state** (`mace_kokkos_factorized_lifecycle.cpp`, `mace_kokkos_runtime.cpp`) | graph arrays, geometry, active types and radial tables, source schedule, tokens | `prepare_factorized_graph`, `prepare_periodic_factorized_graph`, `prepare_factorized_geometry`, `update_factorized_cell`, `compute_prepared_*`, the setters | every call may throw half way | tokens are honest |
| **Neighbor graph builder** (`neighbor_graph_kokkos.cpp`) | none of its own | cell lists, then a callback that allocates the graph | fails before or after the callback | only its failure points matter to the state above |
| **Field and ensemble calculators** (`calculator.py`, `ensemble.py`) | each its atoms, field and results; zero-field reference, base properties of a sum | requests, field setters, settings of the base | they share each other; each judges its cached results by what the others remember, and any evaluation may throw | what is served from a cache is what a computation would give now |
| **Kernel launch tuning** (`kernel_launch_tuning.py`) | profile tables | select overrides | drops the prepared graph in the middle of an evaluation | retried once, never stale |
| **Execution planner** (`execution_plan.hpp`, `mace_kokkos_runtime.cpp`) | budget, capacity high-water marks, selected plan | admission, estimate, selection, fall-back | arithmetic at the budget's edge, plans that change between evaluations | fits the budget, deterministic order |
| **Tiled fixed-workspace execution** (lifecycle) | workspace binding, source schedule | tile loops over one workspace | phases share buffers | a tile reads only what its phase wrote |
| **LAMMPS pair style** (`pair_symmetrix/*.cpp`, `mace_kokkos_evaluate.cpp`) | rank-local topology fingerprint, communicated H1, distributed phase | begin / forward exchange / continue / reverse exchange / finish | collectives guarded by rank-local conditions; a rank that throws | same collectives on all ranks, phase idle after every exit |
| **Native backend loader** (`backend_loader.py`) | selected extension | probe and select | fall-back order | one backend per process |
| **Metal runtime** | view registry, generated shaders | staging to and from the GPU | Apple hardware | - |
| **Kernels, code generators, model extraction** | - | floating point | - | numerical tests |
| **Build tool, CLI, diagnostics** | - | sequential scripts | - | - |

Interactions: the calculator configures the evaluator by the load loop, which
drives the artifact cache; the cache uses the directory lock to publish where
the file system has no no-replace rename; each `calculate` consults the
neighbor cache, which may build the graph on the device (native builder) or on
the host, then hands graph and geometry to the native prepared state and
evaluates.  Launch tuning and the planner may drop the prepared state between
any two of these calls.  The LAMMPS pair style prepares the same native state
from each rank's own atoms and calls the evaluation in three parts, with MPI
exchanges between them; each rank's planner chooses its plan for itself.

The hazards of the code, each at its line, are the `hazards` of
`PROJECT.json`; every property below is there for one of them.

## 2. Modules

### JitCache: the artifact cache and the load loop

One key, any number of processes.  `entry` is `artifacts/<key>`; a directory is
a record of its publication id, the digest of its artifact and the set of files
present and intact, so a crash between two writes or a damaged file is visible
as a missing member.  `seen[p]` is the manifest a validation has read; the files
are compared in a later step (`ReadManifest`, then `FilesMatch`, `FilesDiffer`
or `FilesVanish`), because `validate_jit_manifest` reads them without a lock.
The five validations of `_prepare_compiled_artifact` share these actions and
differ in `Valid` and `Invalid`, which say where the caller goes.

| Code | Actions |
|---|---|
| first validation, decision to lock | `ReadManifest` ... at `"probe"`, `AfterProbe` |
| `_cache_key_lock` (flock), second validation, `_quarantine_invalid_entry` | `LockAcquired`, `LockTimeout`, validation at `"locked"`, `QuarantineInvalid` |
| last validation before compiling | validation at `"recheck"`, `Conflict`, `NoConflict` |
| staging and compilation | `Stage`, `Compile`, `CompileFails`, `WriteManifest` |
| `_publish_directory_no_replace`, then `_publish_directory_with_mkdir_lock` | `PublishNoReplace`, `PublishUnsupported`, `DirLockAcquired`, `DirLockTimeout`, `DirLockedLook`, `PublishRename` |
| revalidation of one's own or the winner's entry | validation at `"built"`, `"joined"` |
| `except` / `finally` / `return` | `Fallback`, `Return` |
| the load loop and `quarantine_jit_artifact` | `LoadSucceeds`, `LoadFails`, `QuarantineLook`, validation at `"qcheck"`, `QuarantineLoaded`, `SkipQuarantine` |
| killed process, damaged file | `Crash`, `Damage` |

The mkdir lock around the portable publication is taken to exclude nobody:
`DirLock` shows that a takeover can put two processes inside it, so the cache's
properties must hold without it, and they do.  The loader is external: it can
load what the path names now unless the artifact is missing or its contents are
in `Broken`.  `Damage` strikes a publication at most once.  `damaged` and
`published` are history variables: what was damaged, and what was ever visible.

### ArtifactStore and JitStore: what the cache promises

`ArtifactStore` is the abstract specification of one key: a slot that is filled
atomically with a publication never seen before and only while it is empty, and
is emptied atomically; a client is handed a publication that the slot once held,
at a moment when the slot's content has that publication's digest.  `JitStore`
maps `slot` to the manifest of the visible entry, `served` to each process's
`JitResult`, and `published` to JitCache's history variable of that name.
`ImplementsStore` says that JitCache implements it.  The interesting step is a
return of `prepare`: manifest and files were read in separate steps without a
lock, so the entry may be another publication by then, but its artifact has the
digest in the manifest that is returned.

### DirLock: the portable directory lock

Every file-system call of `_directory_key_lock` is a step.  A directory has an
owner file or not, and both have a modification time that is either recent or
older than `stale_age` (`aged`).  `HostOf` decides who can use
`os.kill(pid, 0)`; a crashed owner is noticed at once on its own host and after
`stale_age` elsewhere.  `stolen` is a history variable.

### NeighborCache: an evaluation and the native prepared state

One calculator and its evaluator.  A structure is a kind (species and
periodicity), a cell and positions, all abstract; `Near(s, t, a)` is the test by
which a graph built for `t` serves `a`, with a skin or without (`s`), and
`Pairs(t)` what the graph arrays of a structure contain, so that two
structures may have equal arrays and different shifts, as in the code.  The
Python side keeps `cache` (the fields of `_NeighborCache` that decide anything),
the two counters and the three remembered identities; the native side keeps
`graph` (token, token counter, arrays, whether host copies exist for the
comparison, source schedule, active types, tables) and `geom` (token, form,
the structure and the cell it was made for; `snap = None` after a call that
threw between its copies) and `plan` (the execution plan report names a
fixed-workspace plan, which the calculator reads before and after it prepares a
graph).

An evaluation goes through the points `inputs` (`_mace_inputs`: either the cache
serves it, `_cached_neighbor_geometry` with `Reuse`, `CellUpdate`, `BuildHost`,
`BuildDevice` and its two failures; or, without a skin and without native
geometry, `ExactList` makes an exact list and leaves the cache as it is),
`served` (`Serve`, `NoHostGeometry`), `graph` (`DeviceToken`, `KnownGraph`,
`PrepareGraph` and its failures, `Tune`), `geometry` (`PrepareGeometry` and its
failure, `UpdateCell`, `KeepGeometry`, `DeviceGeometry`, `ExplicitGeometry`,
`StaleCell`, and what a fixed-workspace plan refuses of an exact list,
`ShiftCacheless` and `ShiftMismatch`) and `compute`.  Between evaluations the atoms move and setters drop
the prepared graph.  `setup` is chosen once: execution mode, field coupling,
one or two layers, with or without a skin, whether fixed-workspace plans are
permitted, where graphs are built, what is asked for and what may fail.  An
evaluator of the generic mode is asked for explicit edges always or never: what
its bindings offer decides that (`_can_use_native_geometry`).

What an evaluation computed *with* is recorded in `used`; the properties compare
it with the structure it was asked for.

### PairExchange: the pair style on the ranks of an MPI world

`compute_mpi_message_passing` and `compute_no_domain_decomposition`
(`pair_symmetrix/pair_symmetrix_mace_kokkos.cpp`) with the three parts of the
distributed evaluation (`evaluate`).  A configuration is a world, one or two
layers, the mode (prepared, unprepared, single process) and a driver: the `lmp`
executable, where an error aborts the world, or a library caller on one process,
which catches it and may evaluate again.

| Code | Actions |
|---|---|
| a step of the integrator, `pair_coeff` | `Timestep`, `Coeff` |
| `rebuild_topology`, reduction of the ghost bound | `Enter`, `Allreduce` |
| edge counts, `prepare_factorized_graph_device` | `CountsOverflow`, `Prepare`, `PrepareReused`, `PrepareRefused`, `PrepareFails` |
| `begin_factorized_distributed_evaluation` | `Begin`, `BeginThrows` |
| the capacity report to rank 0 | `Record`, `Gather` |
| communicated H1, `forward_comm` | `Scatter`, `ForwardSend`, `ForwardReceive` |
| `continue_factorized_distributed_evaluation` | `Continue`, `ContinueThrows` |
| `reverse_comm` | `ReverseSend`, `ReverseReceive` |
| `finish_factorized_distributed_evaluation` | `Finish`, `FinishThrows` |

A row of an H1 buffer is the number of the step that computed it.  `pair.h1`
names the memory behind the pair style's H1 handle: its own buffer or the
model's graph buffer, on which a tiled plan leaves it.  The adjoint of a rank is
the set of contributions added to it.  Messages travel on a FIFO channel per
pair of ranks; LAMMPS's swaps between neighbors are taken together as one
exchange with all ranks.  `MPI_Gather` lets every rank but the root go on.

Assumed of LAMMPS: owned atoms, ghosts and types change only on a step with a
new list, and a caller that caught an error sets up again.  The first is not
enforced anywhere: a caller that scatters types and runs with `pre no` changes
the fingerprint on the ranks that see the atom only, so only those reach
`MPI_Gather`.  The 64-bit fingerprint is taken as injective.

### ExecutionPlanner: plans, capacities and the arrays they leave behind

`set_execution_plan_request`, `set_low_memory`, `set_allow_fixed_workspace`,
`select_low_memory_policy_for_graph` and its report (`runtime`), the preparation
that follows it (`lifecycle`) and the allocations of an evaluation.  A graph is
its receiver degrees, its feature nodes and the segments of its tiled schedule;
arrays are their extents.  Bytes are linear in these counts with the
coefficients of `Cost`, which keeps which term each plan pays.  `ev` is the
evaluator's plan and recorded capacities; operators such as `Select`,
`Workspace` and `reserve_geometry` take a state and return the next, so that
`Prepare` composes them in the code's order and the failing variants stop
between two of them.

`Resolve` and `set_allow_fixed_workspace` are the setters, `Prepare`,
`PrepareRefused`, `WorkspaceFails` and `GeometryFails` the exits of a
preparation, `Evaluate` and `EvaluateFails` those of an evaluation.  Free memory
is an input of each preparation: the device is shared with others.  An
allocation of the geometry that fails half way is taken as if all of it had been
released: the recorded capacity is 0 and the next reservation replaces whatever
is there.

### Calculators: what each ASE calculator serves from its cache

`Symmetrix`, `FieldContributionCalculator`, `FieldAwareCalculator` over an
arbitrary base calculator (`calculator.py`), and `SymmetrixEnsemble`
(`ensemble.py`).  They are connected as in an application: the contribution
evaluates the member `FieldCalc`, the sum asks the contribution and the base,
the ensemble runs all members.  `use`, chosen once from `Uses`, says which of
them the application also asks directly.  A request names atoms (a structure
and the field in `atoms.info`) and a property, runs to its end and is one
action; the outcomes of a part are a set of records, so that a caller composes
them in the code's order.

| Code | Actions |
|---|---|
| `get_property` of each class, with its `check_state` and `calculate` | `AskSymmetrix`, `AskContribution`, `AskBase`, `AskAware`, `AskEnsemble` |
| the setters of `electric_field` | `SetSymmetrix`, `SetContribution`, `SetAware`, `SetEnsemble` |
| a setting of the base calculator | `SetBase` |

A number is represented by what it was computed from: structure, field, with or
without D3 terms, and for a sum or a difference both operands.  A value is
right when that is what the request asks for, so rounding does not matter and
a coincidence of numbers hides nothing.  `becs` stands for the responses; the
stress is left out, because a Symmetrix calculator treats it like a response
that has D3 terms, and the others like forces.  D3 terms follow the request, as
in `_add_dispersion_results`: energy and forces get them when they are asked
for, free_energy only with the energy, energies never; "right" therefore means
without D3 terms for the last two.  An exception
leaves a record as the code does: the new atoms with the old results, for an
ensemble the members before the failing one evaluated, for a member with
dispersion also its results without D3 terms.

## 3. Runs

| Run | Instance | Result |
|---|---|---|
| `jit_faults` | two processes, only one with a no-replace rename, loadable and broken artifacts, all four kinds of failure | the type invariant, `VisibleIsComplete`, `StagingRemoved`, `EvidenceDiscarded`, `TwoLoadsAtMost`, `NeverReplaced`, `SparesNewer` hold, and the cache implements `ArtifactStore` |
| `jit_three` | two writers and a reader of the root, artifacts that never load, no damage | `LockedEntryStable`; every load loop ends |
| `jit_miss` | two processes, empty root, nothing fails | **violated**: a concurrent miss may fail with "a conflicting JIT entry appeared before compilation" |
| `lock` | three processes, two on one host; crashes, ageing, time-outs | `Exclusion` up to the first takeover, `LeftFree`, `CrashRecovered` |
| `lock_steal` | three processes on one host, crashes only | **violated**: a fresh lock is taken over |
| `neighbor` | five setups with a skin: host graphs, device graphs, a field-coupled model, generic mode with native and with explicit geometry; six without: two layers with and without fixed-workspace plans, one layer, each mode, field coupling | `Faithful` except of exact lists under a fixed-workspace plan, `HostNeverStale` |
| `neighbor_tables` | host graphs, table preparation may fail | **violated**: the old species are evaluated with the new species' tables |
| `pair_exchange` | one or two ranks, all configurations, three force evaluations, exceptions at every native call | every message, record and reduction meets its counterpart (`ExchangesMatch`, `EvaluationsEnd`), ghost features and adjoints belong to the step (`GhostRowsCurrent`, `AdjointsComplete`), no evaluation on a dropped graph (`EvaluatesCurrentGraph`), the phase is released except where the code has no catch (`PhaseReleased`) |
| `planner` | four kinds of evaluator, three graphs, tight, ample and unknown memory, one debug plan, three preparations | `ArraysCover`, `FastestFit`, `BoundaryHonest`, `WithinBudget`, `InCapacityReuses`; counts stay ints (`TypeOK`) |
| `planner_alias` | the same | **violated**: A0 and A1 share a slot under a retained plan |
| `calculators` | two members, the second with dispersion, field and no field, two structures, two settings of the base (both up to symmetry), four uses | whatever a calculator serves is right (`MembersServe`, `ContributionServes`, `AwareServes`, `EnsembleServes`), and a repeated request is served (`AnswersStand`) |
| `calculators_dispersion` | the same members, the one with dispersion asked itself | **violated**: forces, or energy, served without their D3 terms |

Bounds, and why they are enough:

* Two processes meet every pair of program points of the cache; a third is only
  needed for lock contention while a publisher runs, which is `jit_three`.
  Attempts are bounded by the code itself (`range(4)`, `MaxAttempts`).
* Two artifact contents (one loadable, one broken) separate "same digest" from
  "other digest" and "loads" from "does not".
* Three processes on the directory lock: an owner, and two that judge it.
* Cells {0,1,2} with 0 singular and positions {0,1,2} give structures within the
  skin, out of it by displacement, by deformation and by both together, and
  pairs of structures with equal arrays.  `MaxUpdates = 3` admits three
  rebuilds or cell changes and three native graphs, so an identity can become
  stale and be met again after a rebuild.  It bounds `Calculate` only: an
  evaluation that has begun always runs to its end.
* Two ranks are a rank and the others: every decision is taken from a rank's own
  state, and exchanges are symmetric.  Two identities for atoms and lists make a
  topology change and come back; three evaluations are one that leaves a plan,
  a handle or a failure behind, one that changes plan, and one that meets both.
  The run ends after them, hence `CHECK_DEADLOCK FALSE`.
* The planner's graphs lie below and above the tile limit, one is empty, and
  their edges (0, 4, 11) are on both sides of the Y-only threshold and next to
  `MaxInt = 12`, where the slack is capped and doubling saturates.  Free memory
  of 24 and 60 makes the speed, the Y-only and the tiled plan each the fastest
  that fits for some graph and leaves a model without Y-only a retained plan
  beyond the budget; three preparations are a plan, another and a return.
* The calculators need no bound: their records are finite.  Two structures and
  two fields make every change check find a change and none; two members are
  one that has been evaluated when the other throws.  The uses are those for
  which the properties can hold (see the observations); within each of them
  every sequence of requests, failures and setters is explored.

Symmetry is used in `calculators` only, whose structures and settings no
definition tells from one another and whose properties are safety properties.
Elsewhere `NoReplace`, `Writers` and `Far` tell processes apart, and the liveness
runs would not be sound with it.

### Fairness

`JitCache!Fairness` and `DirLock!Fairness` are weak fairness of each process's
own steps: a live process is scheduled by its operating system, and its waits
are polling loops that find a free lock sooner or later.  `DirLock` adds weak
fairness of `Age` (time passes).  Crashes, damage and compile failures are never
fair.  Time-outs are disjuncts of a process's steps but no action on their own
is fair, so the liveness properties do not rest on a deadline: `LoopEnds` needs
the kernel to drop the flock of a dead holder, `CrashRecovered` needs the
staleness test for directories without an owner file.

`PairExchange!Fairness` is weak fairness of each rank's steps inside `compute()`
and of the two collectives once every participant has entered: MPI completes
them.  `Timestep` and `Coeff` are not fair; a driver may stop at any step.  No
exception is needed for `EvaluationsEnd`, only the absence of a mismatch.

### Findings

1. **A concurrent miss may fail** (`jit_miss`, `jit.py:1934`).  The last
   validation misses, another process publishes, `entry.exists()` is now true
   and the process gives up instead of validating the entry.
2. **A fresh lock is taken over** (`lock_steal`, `jit.py:1474`).  Two waiters
   judge the same dead owner; the second `os.replace` moves the lock the first
   has just created.
3. **Tables of other species** (`neighbor_tables`, lifecycle `:4105`).
   `prepare_active_types` installs the tables, then `prepare_factorized_model`
   throws; `active_types` still names the old species, whose next evaluation
   returns early.
4. **A0 and A1 share memory** (`planner_alias`, lifecycle `:1488`).  The tiled
   two-layer plan binds both to one arena slot and leaves them there; a smaller
   graph under a retained plan finds their extents sufficient and keeps them, so
   the second layer's forward pass overwrites what the first layer's reverse
   pass reads (`mace_kokkos_first_interaction.cpp:1821`).  It takes a plan
   change between two graphs of one evaluator, the second no larger than the
   last batch of the first.
5. **Served without D3 terms** (`calculators_dispersion`, `calculator.py:1290`).
   An evaluation leaves energy and forces in the results, but of the two only
   the one that was asked for gets its D3 terms, and neither when free_energy,
   energies or a response was asked for; the rest is then served without.

Observations that, but for exact lists without a skin (below), contradict
nothing in the repository: a second load failure
always raises, because every attempt names the same key and path, so the message
"recovery attempts were exhausted" is unreachable (`TwoLoadsAtMost`); after a
failed device rebuild or a setter, a device-resident cache keeps a dropped token
and evaluations raise until the structure leaves the skin (an error, never a
wrong result: `Faithful`, and the exception in `HostNeverStale`); a retained plan
that throws in the middle or last part under a library caller leaves the phase
active, and the style refuses every step until `pair_coeff` (`PhaseReleased`
states the exception); the planner counts its last estimate as reclaimable even
when that plan was never allocated (runtime `:3573`); leaving a tiled plan frees
neither its arena nor its graph H1; a rank without receivers cannot run a tiled
debug plan; the report's boundary flag may stay false where Y-only is not
admitted but its estimate alone would fit, so `BoundaryHonest` states one
direction only; a graph inside the planned edges may still grow the geometry
when budgets changed in between, so `InCapacityReuses` also asks for the
geometry's capacity; and that capacity may be recorded for arrays that do not
have it: a tiled plan allocates harmonics for one batch under the capacity of
the whole graph, a later Y-only plan keeps them while its graphs fit
(runtime `:320`), and the first larger graph, still inside every recorded
capacity, replaces them.  `InCapacityReuses` therefore asks for the harmonics
themselves; the invariant its proof needs is what showed this, not the planner
run, whose graphs and costs do not reach it.  A valid JIT entry may be
quarantined as invalid: publishers take no flock, so the entry judged under the
lock need not be the one that is moved (`jit.py:1920`; it is kept as evidence
and rebuilt).  `FieldContributionCalculator` asks for explicit edges of a graph
that lives on the device and raises (`calculator.py:2824`, the action
`NoHostGeometry`).

Without a skin, `_mace_inputs` makes an exact list for a model with two layers
and neither builds nor refreshes the neighbor cache (`calculator.py:3120`).  If
`prepare_graph` then selects a fixed-workspace plan, the geometry is taken from
that cache all the same (`calculator.py:3378`, `:3443`).  The first such
evaluation raises, as there is no cache (`ShiftCacheless`); the plan report
stands, so the next one builds a cache; and once a smaller graph has gone back to
a retained plan, exact lists are made again next to that cache.  A larger graph
is then given the reference positions, shifts and cell of another structure, and
only a different number of edges is refused (`ShiftMismatch`).  This disagrees
with `calculator.py:678` ("Set to zero to rebuild the exact neighbor list every
call").  `Faithful` leaves these evaluations out (`Mixed`); without that, TLC
refutes it in the `neighbor` run in 18 states.  The repository's tests of the plan
without a skin stop at checking that it is not selected
(`test_dual_layer_fixed_workspace.py:321`).

Of the calculators, whose documentation does not promise sharing:

* An ensemble and one of its members are both asked directly.  The members are
  moved to a new field by requests of their own; the ensemble's check then finds
  no change and serves the committee of the old field (`ensemble.py:169`).
  Under `UsesMembers` of `MCCalculators`, TLC refutes `EnsembleServes`.
* A member throws under the ensemble, which evaluates it without the reset of
  `get_property` (`ensemble.py:196`): it has the new atoms and the old results,
  and a direct request is served these.  `UsesMembers` without dispersion
  refutes `MembersServe`.
* The base calculator is given other settings and is then asked directly: it has
  results for the same atoms again, and the field-aware calculator serves the
  sum with the old ones (`calculator.py:4204`).  `UsesBase` refutes
  `AwareServes`.
* With dispersion, free_energy gets D3 terms only from a request for the energy
  and energies never gets any (`calculator.py:1290`); the manual names energy,
  forces and stress alone.  An ensemble with such a member, asked for free_energy
  or energies, therefore serves a committee without D3 terms, next to an energy
  with them: a free_energy that differs from the energy.  `EnsembleServes`
  does not exclude this; it says that the committee served is the one a
  computation for the same request gives.
* A D3 calculator that throws leaves results without its terms
  (`calculator.py:4021`); a retry of the request is served these.

## 4. Proofs

| Theorem | Statement |
|---|---|
| `JitCacheProofs!TypeCorrect` | `Spec => []TypeOK` |
| `JitCacheProofs!VisibleComplete` | `Spec => []VisibleIsComplete` |
| `JitCacheProofs!LockedStable` | `Spec => []LockedEntryStable` |
| `JitCacheProofs!StagingCleaned` | `Spec => []StagingRemoved` |
| `JitCacheProofs!NoReplacement` | `Spec => NeverReplaced` |
| `JitCacheProofs!NewerSpared` | `Spec => SparesNewer` |
| `JitStoreProofs!CacheIsStore` | `Spec => ImplementsStore` |
| `JitCacheProofs!TwoLoads` | `Spec => []TwoLoadsAtMost` |
| `JitStoreProofs!EvidenceGone` | `Spec => []EvidenceDiscarded` |
| `DirLockProofs!TypeCorrect` | `Spec => []TypeOK` |
| `DirLockProofs!Serialized` | `Spec => []Exclusion` |
| `DirLockProofs!PathFree` | `Spec => []LeftFree` |
| `NeighborCacheProofs!TypeCorrect` | `Spec => []TypeOK` |
| `NeighborCacheProofs!FaithfulEvaluations` | `Spec => [](TablesSafe => Faithful)` |
| `NeighborCacheProofs!NeverStale` | `Spec => []HostNeverStale` |
| `PairExchangeProofs!TypeCorrect` | `Spec => []TypeOK` |
| `PairExchangeProofs!GraphCurrent` | `Spec => []EvaluatesCurrentGraph` |
| `PairExchangeProofs!PhasesReleased` | `Spec => []PhaseReleased` |
| `PairExchangeProofs!Matching` | `Spec => []ExchangesMatch` |
| `PairExchangeProofs!RowsCurrent` | `Spec => []GhostRowsCurrent` |
| `PairExchangeProofs!AdjointsCurrent` | `Spec => []AdjointsComplete` |
| `ExecutionPlannerProofs!TypeCorrect` | `Spec => []TypeOK` |
| `ExecutionPlannerProofs!Covered` | `Spec => []ArraysCover` |
| `ExecutionPlannerProofs!FastestPlan` | `Spec => []FastestFit` |
| `ExecutionPlannerProofs!HonestBoundary` | `Spec => []BoundaryHonest` |
| `ExecutionPlannerProofs!BudgetKept` | `Spec => []WithinBudget` |
| `PlannerReuseProofs!RunsReuse` | `Spec => InCapacityReuses` |
| `CalculatorProofs!TypeCorrect` | `Spec => []TypeOK` |
| `CalculatorProofs!ContributionServed` | `Spec => []ContributionServes` |
| `CalculatorProofs!AnsweredServedAgain` | `Spec => AnswersStand` |
| `CalculatorProofs!OnlyDispersionDiffers` | `EnsembleApart` gives `Spec => []ServedModel` |
| `CalculatorProofs!MembersServed` | `EnsembleApart` and `NoneDispersed` give `Spec => []MembersServe` |
| `CalculatorProofs!AwareServed` | `BaseApart` gives `Spec => []AwareServes` |
| `CalculatorProofs!EnsembleServed` | `EnsembleApart` gives `Spec => []EnsembleServes` |

They hold for every set of processes, ranks, contents, hosts, structures,
graphs, costs, calculators and faults.  The assumptions, which TLC evaluates on every run of
the module that declares them:

* JitCache, DirLock and NeighborCache: `None` and the other special values are
  no processes, records, identities or structures; `NoReplace`, `Writers`,
  `Broken`, `Full`, `Open` and `Setups` are subsets of what they select from; a
  setup of the generic mode asks for explicit edges always or never.
* PairExchange: the root is one of finitely many ranks, and `MaxStep` is a
  positive number.
* ExecutionPlanner: a graph has natural counts below `MaxInt`, no fewer feature
  nodes than receivers and no more source segments than edges; bytes per count
  are natural numbers; a device reports no more free memory than it has, and the
  divisors are not 0.  `SumsAssumption` states that sums of degrees are natural
  numbers and that a batch has no more edges than its graph: true of every
  finite sum, but by induction over the receivers, which the provers cannot do.
* Calculators: the members agree on field coupling, as `ensemble.py` enforces,
  a contribution is only asked where its member has it, and `None` is none of
  the values.

`EnsembleApart`, `NoneDispersed` and `BaseApart` are hypotheses on `Uses`, not
assumptions: no member is asked next to its ensemble, none that is asked has
dispersion, no base is asked next to its sum.  `UsesApart` of the `calculators`
run satisfies all three.  Each is needed: without it TLC refutes the property,
by finding 5 and the first three observations on the calculators.
`ServedModel` is `MembersServe` up to the D3 terms and needs no hypothesis on
dispersion: finding 5 affects these terms and nothing else.  `EnsembleServed`
needs none either, because the ensemble takes from each evaluation of a member
only the property it asked for; what it says of D3 terms is that energy and
forces have them and that free_energy and energies do not.

Every inductive invariant below was an invariant of a TLC run before its proof.

*The cache.*  The inductive invariant `IInv` is the type invariant with seven
parts: `LockInv` (the flock's holder is exactly the process at a point that
holds it), `StagedInv` (what each staging directory contains at each point, so
that a rename publishes a complete one), `NotEmpty` (a visible entry is never an
empty directory, the only kind `os.rename` replaces), `SeenInv` (a manifest is
remembered only during a validation), and the properties `VisibleIsComplete`,
`LockedEntryStable` and `StagingRemoved`.  `NotEmpty` is the crux of
`NoReplacement`: damage removes at most one file of a publication, so two remain
and `os.rename` fails on the directory.  `LockInv` is the crux of
`LockedStable`: of two processes only the flock's holder can remove an entry,
and publication never replaces one.  Each action has a lemma of its own;
`NewerSpared` combines `OnlyHolderRemoves` with the comparison in `Valid`.

*The store.*  On top of `IInv` the refinement needs `SInv`: what is visible, and
every manifest a reader remembers, was recorded (`Recorded`); a process has
published nothing under its current attempt before the rename of that attempt
(`Fresh`), which makes a publication new; a staging directory carries the id of
the attempt that made it (`StagedPub`).  Most actions are `Quiet`: they publish
nothing, remember at most what is visible and keep `SInv` (`QuietSInv`); they
map to a withdrawal, a drop or a stutter (`QuietStutters`).  The two renames map
to `Publish` (`RenamePublishes`), where `NotEmpty` of `IInv` gives the empty
slot, and a validated return maps to `Serve` (`ReturnServes`).

*The directory lock.*  Exclusion is false once a takeover has happened, so the
invariant is conditional: while `stolen` is false, the processes at the points
from the mkdir to the rmdir are at most one, and there is a directory while
there is one (`OneInside`).  `StolenStays` carries the condition backwards over
a step.

`LeftFree` also holds after takeovers, so its invariant is unconditional: a
directory at the lock's path is answered for by a process that has still to
write its owner record or to remove it, or that crashed (`Answerable`).

*Loads and evidence.*  `TwoLoadsAtMost` needs that a failed artifact is
remembered from its first load failure on and that the loop raises at the
second (`LoopInv`).  `EvidenceDiscarded` needs that what a process quarantined
was published once and is not the entry now (`Gone`), so that no other process
can quarantine it again, and that it is discarded on the way to each return
(`Discarded`).

*The calculator's cache.*  `NInv` is what holds at every point (`Standing`) and
what holds of the evaluation under way (`Running`).  `Issued`: every generation
the calculator remembers was given out before, so a new one is met by no
remembered identity.  `KnownHere` and `GeometryLive` state what a matching
identity is worth: the native graph, or geometry, is that of the cache's
topology.  `DeviceLive` is the same for a device token that is still current.
`Running` carries these from the call that established them to the evaluation,
across native calls that may throw.  `Faithful` is proved of the setups in
`TablesSafe`: outside them it is false, which is finding 3 for a table
preparation that throws; a model with one layer and two kinds of structure on
the device can part its tables from the graph by a rejected device build as
well.  All setups of the `neighbor` run are in it.  Without a skin the invariant
tells evaluations with an exact list of their own (`ListServes`) from those the
cache serves (`CacheServes`); the generic mode remembers a graph only where it
makes no lists (`KnownHere`), so a list never takes the types from under a
remembered graph.  What `Mixed` evaluations compute with is not claimed; that
they never meet a stale token, `NeverStale`, is.

*The exchanges.*  `LocalInv` is what a rank does alone: it prepares at most one
graph a step (`Counted`), its token is for the atoms and list it has, or no
longer the evaluator's (`Settled`), and which plans leave a phase behind
(`Released`).  That all ranks rebuild exactly on a new list (`Tracked`) is the
crux of `Matching`, as each decides for itself whether to enter the reduction.
`SharedInv` relates ranks: what is on a channel is determined by how many
messages one end has sent and the other has taken (`Channels`), which puts two
ranks at most one exchange apart; on this rest the rows and adjoints that a rank
has written and received at each of its points (`RowsWritten`, `AdjointsAdded`).
No bound on the number of ranks is used.

*The planner.*  `PInv` relates evaluator and arrays: an arena has the rows that
are recorded for it, and while a geometry capacity is recorded, geometry,
harmonics and gradients have one extent (`Stored`); this is what lets
`reserve_execution_geometry_workspace` look at one of them.  It is an invariant
of the state alone, so it survives the operations that forget a token half way;
what a token is worth (`Laid`, `Tiled`) and what an evaluation leaves
(`Answered`, `Forwarded`) are stated on top of it.  One lemma for each operator
from state to state, in the order a preparation composes them.  The reports need
arithmetic over one preparation: the bytes of one more edge, receiver or feature
node are those of the estimate's terms (`Increments`), and three divisions of
the remaining budget in sequence never exceed it (`SpreadFacts`).

*Repeated runs.*  `InCapacityReuses` is an action property, proved from `PInv`
with two more facts: a tiled plan keeps no capacity for more feature nodes than
its graph (`Exact`), and after an evaluation the arrays hold all that is
*planned*, not only the graph (`Ample`).  A graph within the planned counts is
planned no more than those (`Spared`), so neither its preparation nor its
evaluation finds an array too short.

*The calculators.*  What holds of every use is `Standing`: types, a contribution
whose results are those of its remembered structure and field and whose
reference is that of the structure remembered *with the reference*
(`ContributionRight`; the two structures differ after a request that needs no
reference), and a base with results of its atoms and settings (`BaseRight`).
`ContributionOutcome` and `BaseOutcome` say once what a request to a part leaves
behind, answered or not, and are cited by the direct request and by the sum.
`AnsweredServedAgain` needs no more: it says that an evaluation of a part leaves
that part's remembered atoms and field as the caller's check expects them.  The
other theorems add one invariant each.  `MemberInv` is local to a member and
leaves the terms of a member with dispersion open.
`AwareInv` is conditional: the base value in a sum is that of the base's present
settings *while* the base has the sum's atoms and all the sum was made of;
changing the settings empties the base and makes the condition false, and only a
direct request to the base could make it true again with other settings.
`EnsembleInv` compares the committee with where each member *is*, its
remembered atoms and field, not with its cached results, which other
calculators may drop; so a member that threw, or was moved by the ensemble
itself, takes part with the value it would give (`BroughtKeeps`).

Left to TLC: the liveness properties (`LoopEnds`, `CrashRecovered`,
`EvaluationsEnd`), which rest on fairness, and the runs that expect a violation.

## 5. Not modelled, and the plan

Not modelled in these modules: trust in the cache root (owner and mode bits
decide membership of `Writers`), key derivation (one key), the compiler
adapters (`Compile`), coordinates (`Near` and `Pairs` are parameters), the
kernels.  On systems without `fcntl` the key lock itself is the directory lock
(`jit.py:1498`), whose weaker guarantee is what DirLock states.  In the pair
style, the mode `no_mpi_message_passing` (no exchange, nothing retained), the
packing of rows and the timing counters.  In the planner, the policies of single
kernels, a construction failure inside `set_low_memory`, and the slots of the
arena other than the one A0 and A1 share.

Most of the repository cannot be modelled faithfully by a state machine of any
size: the nonlinear templates, `standard_m0.hpp`, the E3NN and interaction
kernels, `mace.cpp`, the code generators and the model extraction compute
floating-point tensors sequentially and keep no protocol state; what matters
about them is numerical agreement, which the repository tests against a
reference.  The bindings (`symmetrix/source/cpp`) forward calls.  The Metal
runtime's ordering rests on hardware semantics that are not in the source.

What is left:

1. **The skin criterion**: the skin test with re-based reference positions in
   one dimension, including a skin beyond half the cell, against its definition
   (the hazard at `calculator.py:2882`, which no property covers).
2. The native backend loader and launch-tuning profiles, if their selection
   order turns out to hold state worth stating.
