# Verification of Metria in TLA+

Metria (`src/src/metria`) runs an inference workload on two configurations, the
reference and the candidate, retains what each run did as evidence, and decides
whether the evidence supports the candidate. What it must get right is less a
computation than a discipline: nothing it started outlives it, no evidence is
lost or overwritten when something fails, what ran is what was pinned, and no
verdict claims more than the evidence shows. These modules model that discipline.
File names without a directory are those of `src/src/metria`.

## 1. Inventory

### Components

| Component | Source | State | Operations | Status |
| --- | --- | --- | --- | --- |
| Bounded subprocess | `processes.py` | event queue, stop event, reader threads, retained output, deadline, process group | `run_process`, `_read_pipe`, `_kill_tree` | modelled |
| Run execution | `execution.py`, `protocols.py` | failure status, events, resolved and observed state, session | `execute_run` | modelled |
| Preflight | `inspection.py`, `capture_support.py`, `capability_checks.py` | none | `inspect_run_capabilities`, `probe_capture_support` | partly: the decisions |
| Evidence files | `_files.py`, `verification._write_atomic` | directory entries and temporary files | write beside, link, unlink | modelled |
| Study and verification | `study_execution.py`, `verification.py` | saved records, interrupted, manifest | `execute_study`, `_verify_with_profile`, `_persist_verification` | partly: the control |
| Isolated worker | `verification_worker.py` | receipt, shared evidence directory | `verify_isolated`, `main`, `_partial_records` | modelled |
| Command line | `cli.py` | exit status | `verify`; read-only commands | partly |
| Runtime environments and upgrade | `runtime_executor.py`, `runtime_worker.py`, `runtime_environment.py`, `verification_upgrade.py` | pinned and installed files, receipts, records, one deadline | inspect, execute, worker main | modelled |
| Artifact cache and corpus | `artifacts.py`, `fidelity/corpora.py` | cache entries, extraction directories | `fetch_artifact`, `verify_artifact`, `extract_verified_zip`, `ensure_wikitext_2` | modelled |
| Serving batches | `runtimes/vllm_serving.py`, `measurements/serving*.py` | tasks, streams, semaphore, memory counters, prefix cache | `generate_batch`, `_generate_batch`, trials, close | modelled |
| Comparison of runs | `comparison.py` | none | `compare_runs` | modelled |
| Acceptance policies | `policies.py` | none | `evaluate_policy` | partly |
| Trials and impact | `verification_trials.py`, `measurements/verification_impact.py`, `trajectory*.py`, `performance.py` | listed pairs, identity, baseline, latency | warm-up and measured pairs, summary | modelled |
| Runtime adapters | `runtimes/llamacpp.py`, `runtimes/vllm.py` | session, engine, resolved stamp, invocations | resolve, launch, invoke, observe, close | partly |
| Measurements | `measurements/` | none | divergence, quality, latency, serving metrics | partly |
| Models, records, recipes | `models.py`, `records.py`, `recipes.py`, `_freeze.py` | immutable values | validation, freezing, serialization | partly: statuses |
| KV fidelity toolkit | `fidelity/` | input stamps, axis results, temporary files, engine cache | `score`, `compare` | partly |
| TurboQuant diagnostic | `integrations/turboquant_diagnostic*.py` | monitor thread and file, anomaly detector, log, profile, package | thirteen sections, packaging | partly |
| Routes, preparation, reporting, capabilities, Windows helper | the rest | none of their own | recipe conjunctions, prompts, text | not modelled, section 8 |

### How they interact

`metria verify` calls `verification.verify_recipe`, which calls
`_verify_with_profile`, in the same process or, for vLLM profiles, in a worker
process that `verification_worker.verify_isolated` starts with `run_process`
under a deadline. The verification drives `execute_study`, which calls
`execute_run` once per role and hands each record to the sink `save_record` before
the next run starts. A run drives one native session of an adapter; the sessions of
command-line runtimes call `run_process` for every request, the vLLM one holds an
engine. An upgrade replaces the execution of each role by a worker in the role's own
interpreter. Comparison, trajectories, task checks, latency and policy then decide a
verdict, which is written with the records to the evidence directory,
`verification.json` last; the evidence directory is the only state the worker and its
supervisor share. `verification_trials` repeats all this for warm-up and measured
pairs. The fidelity toolkit and the diagnostic are command-line programs of their own:
they share the process helper and, for the corpus, the artifact cache.

### What is hard, and what must hold

| Behaviour | Where | Correctness | Property |
| --- | --- | --- | --- |
| Readers, a bounded queue, a loop that kills, a callback that may raise | `processes.py:55-79, 180-273` | complete output, its own verdict, nothing left running, an end | `CompleteOutput`, `OwnVerdict`, `CleanedUp`, `Termination` |
| A `KeyboardInterrupt` between any two steps | nearly all components | processes killed, sessions closed, evidence retained | `CleanedUp`, `SessionReleased`, `RecordsRetained`, `EngineOwned` |
| A collaborator raises at any stage | `execution.py:144-430` | status and events say what happened | `RecordHonest`, `KeepsContract` |
| Weak capture or capability evidence | `inspection.py`, `capture_support.py` | launch only what was shown to be supported | `LaunchGuarded` |
| Publication interrupted or failing between files | `verification.py:278-299, 687-701` | files whole and final, the result last and consistent | `KeepsBundle` |
| Worker killed between any two writes, or hung | `verification_worker.py`, `runtime_executor.py` | only its own finished result is believed; what it saved survives; an end | `Accepted`, `EvidenceRetained`, `ResultsEarned`, `SupervisionEnds`, `VerificationEnds` |
| Processes share a cache and a directory | `artifacts.py:146-391` | verified contents, whole directories, nothing of others lost | `ReturnsVerified`, `EntriesStay`, `CopyRetained`, `DirectoryOwned` |
| Files exchanged between check and use | `llamacpp.py`, `vllm.py`, `runtime_worker.py`, `provenance.py` | what ran is what was pinned | `PinnedThroughout`, `RanPinned`, `OnlyRuntimeDiffers`, `LikeForLike` |
| Requests of a batch end at different awaits | `vllm_serving.py:57-166` | each counted once, in its trial; the session closes | `EveryRequestCounted`, `TrialsContained`, `FailureCloses` |
| Evidence missing, repeated, ambiguous or not finite | `comparison.py`, `policies.py`, `verification_trials.py` | no decision without evidence | `FailClosed`, `PassMeansCriteria`, `TrialsSound` |
| A monitor thread outlives its file; stages carried over | `turboquant_diagnostic_runner.py` | no row lost that the package has read; clean means clean | `NoRowLost`, `CleanSummary`, `StatusAgrees` |
| Axes skipped, failing or stubbed | `fidelity/cli.py`, `fidelity/report.py` | a mean of what ran; a floor that was reached | `CompositeAccounted`, `FloorEarned` |

`PROJECT.json` lists each hazard with its line and the properties aimed at it.

## 2. Plan

Everything planned for the runs is built. What remains:

1. The reset of a native session between trials (`runtimes/vllm.py`), and the remaining
   fidelity commands.
2. The Windows branch of `run_process`, with its job object and helper process.

## 3. Modules

| Module | Models | Extends |
| --- | --- | --- |
| `RunProcess` | `processes.run_process`, `_read_pipe`, `_kill_tree` | |
| `Preflight` | decisions of `inspection.py` and `capture_support.py` | |
| `RunLifecycle` | `execution.execute_run` | `Preflight` |
| `RunRecords` | the records a run may return | |
| `RunContract` | abstract: what an execution promises | `RunRecords` |
| `AtomicFiles` | `verification._write_atomic` | |
| `StudyVerification` | `_verify_with_profile` over `execute_study` | `AtomicFiles`, `RunRecords` |
| `EvidenceBundle` | abstract: what the evidence directory promises | |
| `IsolatedWorker` | `verify_isolated` and its child | `StudyVerification`, a second `AtomicFiles` |
| `ArtifactCache` | `fetch_artifact`, `verify_artifact` | |
| `CorpusCache` | `extract_verified_zip`, `ensure_wikitext_2` | `ArtifactCache` |
| `RuntimeUpgrade` | inspection, execution and workers of an upgrade | `RunRecords` |
| `NativeSession` | sessions of the llama.cpp and vLLM adapters | |
| `ServingBatch` | the concurrent serving workload | |
| `Comparability` | `compare_runs` | |
| `Trajectories` | first divergences and agreement of trajectories | |
| `ImpactEvidence` | task checks, repeatability, latency | |
| `AcceptancePolicy` | `evaluate_policy` | |
| `VerificationTrials` | trials over the four modules above | the four |
| `PlatformSupport` | support contract and backend probe of the diagnostic | |
| `AnomalyDetector` | its anomaly detector | |
| `DiagnosticRun` | `run_diagnostic`, monitor thread, Ctrl+C, packaging | the two above |
| `FidelityAxes` | what the axes compute | |
| `FidelityReport` | reports, and when they compare | `FidelityAxes`, `Comparability` |
| `FidelityScore` | two `score` commands and a `compare` | `FidelityReport` |
| `FidelityEngines` | the engine cache of the vLLM backend | |
| `VerificationProofs` | theorems about `IsolatedWorker` and its child `StudyVerification` | `IsolatedWorker` |
| `CorpusCacheProofs` | theorems about `CorpusCache` and `ArtifactCache` | `CorpusCache` |
| `ComparisonProofs` | theorems about `Comparability` and what rests on it, `VerificationTrials` and `FidelityScore` | these |
| other `...Proofs` | theorems about the module of that name | it |
| `MC...` | values of the constants for TLC | it |

In every module a definition whose name is another definition's name with a suffix
(`KilledTree_LeaderOnly` before `KilledTree`) is a mistake a change of the code
could make. Nothing uses it; substituting it shows that a property notices. `TypeOK`
of a module documents its variables; it is proved for `RunProcess`,
`StudyVerification`, `RuntimeUpgrade`, `NativeSession` and `VerificationTrials`, and
`TypesKept` for `IsolatedWorker`.

### RunProcess

`pc` is the calling thread, `reader` the program point of each `_read_pipe` thread,
`events` the queue, `stop` the `threading.Event`; `pending`, `ended`, `timedOut`,
`returncode`, `retained`, `truncated` are the locals of the same names (`timed_out`).
`proc`, `held`, `written` are the command's process tree and pipes: it writes,
closes, forks and exits as it likes, and a `detached` descendant leaves the group.
Bytes are their positions, so `retained = <<1, .., n>>` is a prefix of the stream.
Time is the two comparisons the code makes: the deadline has passed (`due`), the
cleanup budget is spent (`cleanup`). The loop body is `NoticeEnd`, `Kill`, `GiveUp`,
`PollAgain`, then `Get...`; the finally block is `CleanupKill`, `WaitReaped` or
`WaitExpires`, `SetStop`, `Join`, which waits for the threads of the list `readers`
alone: `StartReader` and `ListReader` are two steps, with the point `started` between
them. `Interrupt` is a `KeyboardInterrupt` at any point of `InterruptPoints`.

### Preflight, RunLifecycle, RunContract

One action per stage of `execute_run`, with what the collaborator may do: answer,
raise, time out. `answers` remembers it (a history variable), `events` is the log,
`failure` is `failure_status`. `Values` holds `"opaque"` when an adapter may return
something `freeze_mapping` rejects. `Blocking` and `CaptureSupport` of `Preflight` are
the two fail-closed decisions over four support levels. `RunContract` has a session
that is opened and released, and a result that a caller may rely on;
`KeepsContract` is the refinement. A capture's support comes from the runtime's probe, or
from an adapter that probes again with its own pin (`PinQualifications`). `Interrupt` may
come any number of times; in the finally block it leaves the session open or released.

### AtomicFiles, StudyVerification, EvidenceBundle

`writing` is the one write in progress: create the temporary file exclusively, fill
it, link it, unlink it. A run is one step returning any record of `RunRecords`; a
`KeyboardInterrupt` may land at any point, unwinds a write first, and enters the
handler (`handling`, `Fill`) once and only from inside the study. `Judgement`, `Verdict`,
`ExitCode` are the decision; which evidence has gaps, whether the pair compares and
what a policy decides are choices. `EscapeCode` is how the command line turns an
exception into a status. `EvidenceBundle` says what a reader of the directory may
rely on: each file appears whole and never changes, the result comes after and
agrees with the others, and a status 0, 1, 3 or 4 has a result with that status.

### IsolatedWorker

`at` is the supervisor. The child is `StudyVerification` with `Deferred = TRUE`,
which the configuration sets and the theorems about it assume: it
leaves a receipt (`worker-result`) instead of publishing. Crash, deadline and the
supervisor's interrupt stop it between any two of its steps and leave its files,
temporary ones included. `Believed` is `_read_receipt`; `FillMissing`, `FillRest`,
`FailureResult` turn what is there into failure evidence. That the child is gone when
`run_process` returns is what `RunProcessProofs` proves of `GroupDown`; that the
records of its runs are those of `RunRecords` is what `RunLifecycleProofs` proves.

### ArtifactCache

Each fetch is one process. A file is named by the process that made it, `target` is
the directory entry `<cache>/<sha256>`, `temps` the `.download-` entries, so a link
count follows from the two. `stamp` is `st_ctime_ns` as a counter: the model assumes
that two changes of a file never share a tick of the file system clock. `Lstat`,
`Open`, `Hash`, `Compare` are `verify_artifact`; `Fails` is an `OSError` or an interrupt,
`Kill` a SIGKILL, `Change` what others do to the entry. os.open and the fstat behind
it are one step.

### CorpusCache

Extends `ArtifactCache` by the extraction: `at` is the point of a process in
`ensure_wikitext_2` and `extract_verified_zip`, `next` the member it is at. A directory
is known by the process that extracted it; `dir` says which one is at the destination,
`previous` which one a process has moved out of the way into its workspace. Chunk i of
the archive is member i, so an archive exchanged after its verification shows in the
members. `Breaks` is a failing call or a kill, `Disturb` what somebody else does to the
directory. While a process fetches, its steps are those of `ArtifactCache`.

### NativeSession

One session of one adapter. A model or provider file is its version, version 0 the
pinned bytes, with a `stamp` for size and mtime; no edit brings old bytes back, because
a file exchanged and restored between two hashes is invisible to any hash. `Resolve`,
`Launch`, `Invoke`, ... follow the adapters: llama.cpp compares a stamp before each
request and hashes at the end when it is qualified, vLLM reads once into an engine and
hashes the model around the load and the installation before it. What the engine reads of
its installation, it reads in three steps: at the import, when it is created, and when it
generates. `disowned`, `quiet` and `late` are history: the release of the engine failed, an
edit kept size and mtime, an edit of vLLM's files came after the last look at them.

### RuntimeUpgrade

The controller (`pc`), one worker at a time (`worker`), and anybody who installs files
(`env`). A worker uses what it has loaded, which a later hash does not show; `returned`
remembers the parts that were exchanged and put back, the one change that no pair of
hashes notices. The receipt and the record are two files and may be torn. `DeadlinePasses`
is the deadline that both runs share. `ProcessRaises` is a `ProcessError` of `run_process`,
which leaves the executor without a result (`raised`).

### ServingBatch

One asyncio task per request, a semaphore, and a loop that runs only inside a call of
the session, so that a `KeyboardInterrupt` may leave tasks behind for the next call to
drain. A stream is the number of tokens each chunk added; `traces` is what a finished
stream became. `cached` and `counted` say which trials the prefix cache and the memory
counters cover, hence what a snapshot is about.

### Comparability, Trajectories, ImpactEvidence, AcceptancePolicy, VerificationTrials

The first four are operators, each translated from one pure module: a record has leaves
by path, captures by trial and prompt, checks and clocks; a missing metric is an empty
set, a number a fraction, one that is not finite a fraction over zero.
Of the policy targets eight stand for all; what `_observe` refuses is modelled as far as the
registered analyses can produce it: missing, repeated, not finite, out of the target's domain.
`VerificationTrials` runs pairs, decides each with those operators, and keeps the list,
the baseline, the latency and the files. Its properties do not reuse the operators:
`FailClosed` and `PassMeansCriteria` state from the raw records what comparable means and
what each criterion asks. The constants are data the code has validated: a plan whose roles
do not overlap (`ValidPlan`), records whose captures and metrics are well formed
(`ValidRecord`).

### PlatformSupport, AnomalyDetector, DiagnosticRun

The first two are the pure parts. In `DiagnosticRun` the main thread (`pc`, `section`),
the monitor thread (`mon`) and Ctrl+C interleave. What a benchmark measures is chosen
when its section runs. Ratios are hundredths, perplexity differences tenths of a percent.
`broken` is a log that cannot be written any more. Scrubbing rewrites log, profile and
monitor file in turn: `logLost` is a log it has truncated, and the package is made of the
rows it has `seen`. A section is `absent` when only the log knows that it was skipped.

### FidelityAxes, FidelityReport, FidelityScore, FidelityEngines

`FidelityAxes` has the arithmetic of the axes on small integers, `FidelityReport` what a
report holds and when two compare, `FidelityScore` the commands as steps: stamps of the
selected inputs, each axis with the reads it makes, the floor, the report, and a
comparison of two reports. `reads`, `ran`, `repeated` are history. `FidelityEngines` is
the cache of vLLM engines with the references that axes keep.

## 4. Runs

| Run | Checks | Bounds and why they are enough |
| --- | --- | --- |
| `process` | `CleanedUp`, `CompleteOutput`, `OwnVerdict`, `Termination` | the merged pipe, queue of 1, limit 1 and 2 bytes: a full queue, a cut chunk, output after the leader's exit, all three processes. Two pipes are the theorems' business, which hold for any `Streams` |
| `lifecycle` | `RecordHonest`, `LaunchGuarded`, `SessionReleased`, `KeepsContract` | one overridable check and two capture kinds, one of them qualifiable, any number of interrupts: the decisions quantify over checks one by one and take a worst level over kinds |
| `study` | `VerdictEarned`, `RecordsRetained`, `KeepsBundle` | all records, all policies, two interrupts (one in the handler of the other), two failing system calls (a write and its cleanup) |
| `worker` | `Accepted`, `EvidenceRetained`, `SupervisorKeepsBundle`, `SupervisionEnds` | a completing and a failing run, one fault, one interrupt in the child, two of the supervisor; other records are the question of `study` |
| `corpus` | `CacheUsable`, `ReturnsVerified`, `EntriesStay`, `CopyRetained`, `DirectoryOwned` | two processes (a winner and a loser), two members (a torn archive, a missing and a corrupt member), an outside change, a fault of the fetch, two of the extraction, a disturbance; processes are symmetric and no property is a liveness property |
| `session` | `PinnedThroughout`, `TemplateHonest`, `EngineOwned` | four adapters, two batches of two requests, two edits (of the model, of the installation, before or after its last check), one fault |
| `upgrade` | `RanPinned`, `OnlyRuntimeDiffers`, `ResultsEarned`, `VerificationEnds` | two versions and two changes, so that a part can be exchanged and put back; installations that agree or differ in one part; a `ProcessError` in any exchange |
| `serving` | `EveryRequestCounted`, `TrialsContained`, `FailureCloses` | three requests over a semaphore of two (one waits while another fails), a warm-up and a measured trial, two tokens (one or two chunks) |
| `decision` | `FailClosed`, `PassMeansCriteria`, `TrialsSound` | one warm-up and two measured pairs; records that differ in one or two leaves, one path for each way a plan can govern it and two that are or are not left out of the comparison; captures up to two tokens |
| `diagnostic` | `StatusAgrees`, `CleanSummary`, `NoRowLost`, `Ends` | two hosts, four probes, two depths (one drop), curves on both sides of every threshold, one sample, one failure (also of a thread's start and of each rewriting), one Ctrl+C |
| `fidelity` | `FloorEarned`, `CompositeAccounted`, `LikeForLike` | nine pairs of configurations, each axis and engine once, pairs that compare and pairs that do not; two prompts, two mishaps (an edit and its return); `MinFloor` is 45 percent, as two prompts reach it or miss it where they cannot tell 99.5 from 100 |
| `fidelity_engines` | `OneEngineResident` is violated | the finding of section 6 |

No run uses a state constraint; every bound is a constant in a guard.
Deadlock is checked in all runs: each module's last disjunct lets a finished program
stutter, so a program stuck anywhere else is reported.

Fairness. `RunProcess`: weak fairness of the calling thread, which the scheduler runs,
and of the two time steps, since `time.monotonic` advances; none of the command, of
the readers or of the kernel reaping a killed process. `IsolatedWorker`: weak fairness
of the supervisor only; `Returned` is enabled whatever the child does because
`run_process` has a deadline and, by `Termination`, ends. `RuntimeUpgrade`: the
controller and the deadline, none of the worker, which may hang. `ServingBatch`: the
thread with its loop, and the delivery of a cancellation to a task that was cancelled,
which asyncio does on the loop's next turn; none of the engine, so an unanswered request
of a batch where nothing failed may wait for ever. `DiagnosticRun`: the main thread, whose
commands have timeouts; none of the monitor. The other specifications claim no liveness
and have no fairness: what they run ends only if their collaborators do.

## 5. Proofs

Checked by TLAPS for every value of the constants:

| Theorem | Says |
| --- | --- |
| `RunProcessProofs!TypeCorrect` | types, queue within capacity, retained output within its limit |
| `RunProcessProofs!CleanupIsComplete` | `CleanedUp`, if `InterruptPoints \subseteq InsideTry`: interrupts in the try block but not between a reader's start and its append (from `GroupIsDown`, `NothingIsLeft`, `PipesAreOwned`) |
| `RunProcessProofs!VerdictIsOwn` | `OwnVerdict`, if `InterruptPoints \subseteq TryBody` |
| `RunProcessProofs!OutputIsComplete` | `CompleteOutput`, for interrupts anywhere |
| `RunLifecycleProofs!SessionIsReleased` | `SessionReleased`, if neither `"launched"` nor `"close"` is in `InterruptPoints`: interrupts spare the step between launch and try and the finally block |
| `RunLifecycleProofs!RecordIsHonest` | `RecordHonest`, for interrupts anywhere (from `StatusIsHonest`, `NothingIsDiscarded`) |
| `RunLifecycleProofs!LaunchIsGuarded` | `LaunchGuarded`, for interrupts anywhere |
| `RunLifecycleProofs!ContractIsKept` | the executor implements `RunContract`, under the assumption of `SessionIsReleased` |
| `VerificationProofs!TypeCorrect` | types of the verifier |
| `VerificationProofs!VerdictIsEarned`, `RecordsAreRetained` | `VerdictEarned`, `RecordsRetained` |
| `VerificationProofs!BundleIsKept` | the verifier implements `EvidenceBundle`, if it publishes its result itself (`~Deferred`) |
| `VerificationProofs!TypesAreKept` | types of supervisor and worker (`Deferred`, as in the next three) |
| `VerificationProofs!ResultIsTheWorkers`, `EvidenceIsRetained` | `Accepted`, `EvidenceRetained` |
| `VerificationProofs!SupervisedBundleIsKept` | supervisor and worker together implement `EvidenceBundle` (`SupervisorKeepsBundle`) |
| `CorpusCacheProofs!VerifiedWhenReturned`, `EntriesAreKept`, `CacheStaysUsable` | `ReturnsVerified`, `EntriesStay`, `CacheUsable` of the fetches alone |
| `CorpusCacheProofs!CorpusImplementsFetch` | the corpus cache implements `ArtifactCache` |
| `CorpusCacheProofs!CorpusVerifiesArchive`, `CorpusKeepsEntries`, `CorpusLeavesCacheUsable` | hence the same three of the whole |
| `CorpusCacheProofs!UserFilesAreKept`, `CopiesAreRetained` | `DirectoryOwned`, `CopyRetained` |
| `RuntimeUpgradeProofs!TypeCorrect` | types |
| `RuntimeUpgradeProofs!PinnedExecution`, `LikeWithLike` | `RanPinned`, `OnlyRuntimeDiffers` |
| `RuntimeUpgradeProofs!CompletionIsEarned` | `ResultsEarned`: completed is earned, and a result after a written receipt holds the record or says failed |
| `NativeSessionProofs!TypeCorrect` | types |
| `NativeSessionProofs!RunsArePinned`, `TemplateIsHonest`, `EngineIsOwned` | `PinnedThroughout` (of vLLM's installation only without a `late` edit), `TemplateHonest`, `EngineOwned` |
| `NativeSessionProofs!RequestsAreCounted`, `TrialsAreContained` | `EveryRequestCounted`, `TrialsContained` of `ServingBatch` |
| `ComparisonProofs!TrialsTypeCorrect` | types |
| `ComparisonProofs!TrialsAreSound` | `TrialsSound` |
| `ComparisonProofs!VerdictsFailClosed`, `VerdictsMeanEvidence` | `FailClosed`, `PassMeansCriteria` |
| `ComparisonProofs!FloorsAreEarned`, `CompositesAreAccounted`, `ComparisonsAreAlike` | `FloorEarned`, `CompositeAccounted`, `LikeForLike` |
| `DiagnosticRunProofs!RowsAreKept`, `StatusIsTrue`, `CleanIsJustified` | `NoRowLost` of the rows scrubbing has read, `StatusAgrees`, `CleanSummary` |

The assumptions are those named in the modules (`RunProcessAssumption` and so on) and
the conditions in the table, which exclude exactly the windows of section 7.

Why the invariants need strengthening. `CleanedUp` speaks of the end; to reach it
`LifeInv` says that nobody of the group exists before the launch, and that nobody is
alive once the loop has killed it (`ended`) or from the wait of the finally block on,
and `PipeInv` which reader owns which pipe at each of its points and that the list holds
every started reader but at `started`. `OwnVerdict` needs that
nobody has killed the leader before the loop decided, and that the loop decides once
(`VerdictInv`). `CompleteOutput` needs, for each pipe, that the data events in the queue
and in the reader's hand are in order and cover exactly the bytes consumed and not yet
delivered, and that a reader past its read has drained a pipe nobody can write to or is
about to report an error (`Flow`); that `pending` counts the readers whose end marker has
not been handled, but for one that is not listed yet; and that what was delivered is retained up to the limit (`Retention`).
`RecordHonest` needs what is known at each stage of the executor
(`Chart`), that a returned record was made at one of three places (`Returned`), and that
the log holds an error for every answer that was one so far (`EventInv`).
`VerdictEarned` and `RecordsRetained` need which write is under way, and that one which
ended without error has stored its value (`WriteInv`), that nothing but the role files
remembered as saved was saved (`SavedInv`), that the manifest is what the records call for
and the published files are made of it (`Judged`), in which order the steps come
(`Ordered`), and that an undisturbed verification meets no error (`Calm`).
`LaunchGuarded` rests on a lemma about `Worst`: the worst level is supported only when
all are. `ReturnsVerified` needs that what a verification has read is a prefix of its
file unless the file has been stamped since (`Follows`), and `EntriesStay` that a
fetch which has not linked its file is not the one at the target (`Unlinked`).
`RanPinned` needs a chain from the pins through the first hash, what the worker has
loaded and the last hash: what was loaded in between can differ from two equal hashes
only if the part was put back. `PinnedThroughout` needs, by adapter, what has been
checked before each answer at each point of a session; for vLLM that its installation is
the checked one until an edit is `late` (`LoadedPinned`). `EveryRequestCounted` needs that a
settled request keeps its trace (`Traced`), that a batch is made of one trial's requests
(`Counted`) and that a new trial starts with tasks of its own (`Tidy`). The definitions of
`ServingBatch` have names of their own (`ServingSpec`, `point`), so that one module can
extend it together with `NativeSession`, whose vLLM sessions the workload runs in.

`Accepted` and `EvidenceRetained` need, while the supervisor waits, everything
`StudyVerification` was proved to keep (`Core`), that a deferring child publishes nothing
(`Deferring`) and which record tells of an interrupt (`Told`); and once the child is gone,
that its records stay (`Kept`), that the result goes out in order and is made of what is
on disk, the receipt of a child that ended with it or failure evidence (`Sent`, `Sound`),
and that only a temporary file of the child can stop an undisturbed write (`Smooth`).
`CacheUsable` needs that a fetch which is over without a fault left no temporary file
(`Tidy`). `CopyRetained` and `DirectoryOwned` need that a directory is in one place
(`OnePlace`), that an extraction's own tree is nobody else's and is whole before it is
exchanged (`New`, `Extracted`), that what is moved away is stray only if the file came
late (`LateOnly`), and that a copy is at the destination or in a workspace that is not
about to be removed (`Safe`). `ResultsEarned` needs that a record which says completed has
measurements, also while it is torn (`MeasuredRecord`).
`NoRowLost` needs that the row the monitor is about to write is in no file yet (`Fresh`),
and that a package is made once (`Packed`). `StatusAgrees` needs what the contract lists,
what the probe found and which sections are in the trace (`Listed`, `Probed`, `Traced`), and
what each way out of the try statement leaves behind (`Raised`, `Completed`, `Exited`).
`CleanSummary` needs that a detector without a flag has seen every curve and every
difference (`Judged`). The detector walks a curve with a recursive function, about which
the proof argues by a least counterexample: that a set of naturals has a least element
follows from the well-foundedness of `<` and takes no operator as a parameter.
`TrialsSound` needs how many pairs have been run, measured and published at each point
(`TrialsInv`). `FailClosed` and `PassMeansCriteria` are facts about the operators: a report
without an issue is followed back, leaf by leaf, to the declared dimensions that agree; and
each criterion that a policy asks is followed from its verdict to the analysis it reads, and
from there to the rows of the raw records, where the pairs of one side's repetitions are
matched one to one with the analyses that compared them.

The properties of `FidelityScore` follow from `ScoreInv`. Stamps never come back: a source
whose stamp is the captured one has kept the captured bytes, and whatever was read of it
since capture was those bytes (`Seen`). The axes that ran are those whose phases are no
longer due, they read the inputs of the axes only (`Progress`), and between the two parts
of the floor and its check a reference that differs from itself leaves trajectories that do
not all match (`FloorKept`). Hence a report says what is true of its run, which history it
may no longer change (`Reported`), and a verdict is the comparison of the two reports
(`Compared`). `LikeForLike` then rests on operators alone: every dimension that the plan
of `compare` controls is present and equal on both sides, so the axes and the identities
are, and what was asked for (`Settings`) is a leaf no declaration reaches, which is
equal or an issue. The proof keeps to the finite set of `Names` that paths are made of,
as no installed prover knows that a string is in `STRING`. `FidelityScore` has names of
its own (`ScoreSpec`, `point`), so that one module can extend it with `VerificationTrials`.

Only model-checked: the liveness properties (`Termination`, `SupervisionEnds`,
`VerificationEnds`, `FailureCloses`, `Ends`), which are out of the prover's reach. What
the axes compute (`PrefixScore`, `HarmonicMean` and the other sums over data) enters the
proofs as an operator whose value is not examined: what the number is worth stays with
the definition.
The types of `ServingBatch` are proved in the form its invariant needs (`Typed`), not as
`TypeOK`, whose streams are bounded by a sum of chunks.

## 6. Finding

A docstring that run `fidelity_engines` refutes; the quotes are in `PROJECT.json`.
`fidelity/backends/vllm.py:238-266`: `run_kld` keeps the reference engine in a local
while `_get_llm` drops it from the cache and loads the candidate, so two engines are
resident where the docstring promises one at a time.

## 7. Known divergences

Places where the code does less than a document, docstring or test says, or than a reader
would expect. The runs of section 4 leave them out by a constant or by an exception written
in the property; with the constant widened or the exception removed TLC shows the behaviour
described, unless the row says that it is not modelled.

| Where | What | Left out by |
| --- | --- | --- |
| `processes.py:164-194` | a `KeyboardInterrupt` after `Popen` returned and before the try block leaves `run_process` with the command running | `InterruptPoints` of `process` |
| `processes.py:203-204` | one between a reader's start and its append leaves a thread that nothing joins and whose pipe is closed under it | `InterruptPoints` of `process` |
| `execution.py:359-379` | the same window between `launch` and the try block leaves a session open | `InterruptPoints` of `lifecycle` |
| `execution.py:402-404` | an interrupt in the finally block, before or inside `session.close()`, leaves the session open | `InterruptPoints` of `lifecycle` |
| `execution.py:418` | a resolve or observe value that cannot be frozen makes `execute_run` raise after the measurement, instead of returning a record | outcome `raised`, of which `RecordHonest` says nothing |
| `verification.py:501-542` | an interrupt while a role file is being saved, or before the verifier remembers it, makes the handler save the role again; the file exists, and the command ends with 5 and no result | `RecordsRetained` promises status 130 for interrupts of a run or of the analysis |
| `verification_worker.py:113` | a worker stopped in the middle of a save leaves a temporary file, over which the supervisor fails in the same way | `EvidenceRetained` excepts a torn save |
| `artifacts.py:197-202` | between the link and the unlink of one fetch the entry has two links, so a competing fetch refuses an artifact that is right; a fetch killed there leaves an entry that stays refused | `CacheUsable` speaks of the end, without kills |
| `runtime_executor.py:150` | a `ProcessError` is not caught: the directory with a record and receipt that were written is removed, and there is no result | no result to speak of in `ResultsEarned` |
| `runtime_executor.py:171-203` | when that directory cannot be removed, a finished exchange becomes a failure without evidence | the failure in `ResultsEarned` |
| `artifacts.py:369-374` | a file that somebody adds between the last look at the directory and its exchange goes with the old tree | `late` in `DirectoryOwned` |
| `turboquant_diagnostic_runner.py` | "Press Ctrl+C to abort at any time": not during a write of the log, whose lock the handler then waits for, in the same thread and for ever | point `hung` in `Ends` |
| `turboquant_diagnostic_runner.py:2250` | without its corpus section 10 logs SKIPPED while the profile calls it supported | `absent` in `StatusAgrees` |
| `turboquant_diagnostic_runner.py:2576-2587` | scrubbing truncates each file before it writes it back and passes over failures: a log can lose its COMPLETE line although the status is 0, and a monitor file its rows | `logLost` in `StatusAgrees`, failures in `NoRowLost` |
| the same | the monitor may outlive its join: a row it appends between scrubbing's read and rewriting is overwritten, one it appends after the zip was made is removed | `NoRowLost` speaks of rows that scrubbing has read |
| `turboquant_diagnostic_runner.py:2857-2873` | a monitor or display that does not start, or a first sample that fails and cannot be logged, ends the program outside its try: status 1, no COMPLETE line, no package, no join | these failures are steps of `StartMonitor`, `StartDisplay`; no property promises a package |
| the same | "PPL >2% delta means quality is broken", yet results up to 10% worse are called clean | the 10% in `CleanSummary` |
| `fidelity/axes/plad.py:356` | a comment says that batching keeps engine reloads at two; the calls for tokenization ask for a third engine | calls of `FidelityEngines`, no property |
| `fidelity/score.py:101` | a report of skipped axes only has the diagnosis that all axes are intact | wording, not modelled |
| `fidelity/axes/kld.py` | a failure while the sidecar is written leaves a torn sidecar file | `temps`, no property |
| `fidelity/backends/mlx.py` | positions with a value that is not finite are dropped and not counted | `MlxKld`, no property |
| `fidelity/provenance.py` | stamps ignore ctime: an edit that restores size and mtime is not seen | edits of `FidelityScore` change the stamp |
| `runtimes/llamacpp.py` | without a qualified provider the binary's digest is not compared again after resolve; the model is compared by size and mtime | `PinnedThroughout`, by adapter |
| `runtimes/vllm.py:766` | the installation is hashed before `LLM` and the serving engine are imported and their processes started from it; files installed after that are used and never hashed | `late` in `PinnedThroughout` |
| `runtimes/vllm.py` | Ctrl+C in the release of the engine, or a shutdown that raises, leaves the engine alive | `disowned` in `EngineOwned` |

## 8. Not modelled

- Verification routes (`verification_cpu.py`, `verification_vllm.py` and the like): long conjunctions
  over fields, without state. What they decide about a pair is the choice `gaps`.
- Preparation, pilot and onboarding: interactive generation of recipes; the files they
  write go through the write that `AtomicFiles` models.
- Reporting, HTML and terminal output, prompts, option parsing: text.
- Capabilities: static tables; `Preflight` takes any conclusion of its checks.
- Models, records, recipes: serialization, digests and normalization are data conversion.
- `_process_windows.py` and the Windows branches of `_files.py`: a job object owned by a
  helper process; the models are of POSIX.
- The reset of native sessions between trials, GGUF parsing, prefix workloads and the
  statistics of serving metrics.
- The fidelity commands other than `score` and `compare`, and the code under
  `components/` and `tools/`, which are packages and programs of their own beside Metria.
- A crash of the whole machine: nothing reads an evidence directory back.
