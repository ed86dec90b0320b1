# A TLA+ model of openjd-rs

openjd-rs implements Open Job Description: a library that parses and validates job templates
and expands them into jobs (`crates/openjd-model`, `crates/openjd-expr`), a runtime that runs
the environments and tasks of a job on a worker host (`crates/openjd-sessions`), a library
that snapshots, uploads and downloads trees of files (`crates/openjd-snapshots`), a command
line, and bindings for Python and JavaScript. This directory holds TLA+ models of these parts,
the TLC instances that check them, and TLAPS proofs for the parts where processes, threads and
tasks interleave.

## The parts of the system

| part | what interleaves or varies | modules |
| --- | --- | --- |
| session (`openjd-sessions/src/session.rs`, `runner/`) | the owner, a cancel handle on another thread, the parent token, the action's future | `Session`, `SessionApi` |
| same-user process (`subprocess.rs`) | the call, the child and its descendants, the clock, cancels, a delayed kill | `Subprocess` |
| cross-user process (`cross_user_helper.rs`, `helper/`) | session task, cancel handle, helper (with a reader thread on Windows), command, descendant | `CrossUserHelper` |
| `openjd run` (`openjd-cli/src/run`) | the workload and a signal handler | `CliRun`, `StepSelection` |
| step order (`step_dependency_graph.rs`, the validator's cycle check) | every small dependency graph | `TopoSort` |
| task parameter space (`step_param_space.rs`) | ranges, combinations, chunk sizes that change midway | `RangeExpr`, `Chunking`, `ParamSpace` |
| expressions (`openjd-expr`) | symbols known or not, limits on memory and operations | `ExprTypes`, `ExprValues`, `ExprFunctions`, `FunctionLibrary`, `Evaluator` |
| job parameters and paths (`create_job`, `path_mapping.rs`, `path_parse.rs`) | submissions, path formats, mapping rules | `ParamDefs`, `JobParameters`, `Paths`, `PathMapping` |
| template validation and instantiation (`template/`, `create_job/instantiate.rs`) | sets of extensions, the stage at which a value or a symbol is known | `TemplateStructure`, `SymbolScopes`, `ResolvedValues` |
| upload (`ops/hash_upload.rs`, `memory_pool.rs`) | one task per file, per chunk, per part; an editor of the files | `HashUpload`, `MemoryPool` |
| download and cache sync (`ops/download.rs`, `ops/cache_sync.rs`, `data_cache.rs`) | tasks, failing requests, a kill at any moment | `Download`, `CacheSync` |
| snapshots (`ops/collect.rs`, `hash_op.rs`, `diff.rs`, `compose.rs`, `codec.rs`, ...) | an editor between collection and hashing | `Manifests`, `SnapshotOps`, `Collect`, `SnapshotCodec`, `SnapshotChain`, `SnapshotLaws` |

How they interact. `openjd run` selects and orders steps, walks their parameter spaces and calls
a `Session`. A `Session` operation prepares an action and builds a future (`runner/`). The
future runs the process itself (`run_subprocess`) or through the helper (`run_via_helper`).
Lines of output that carry a directive go back over a channel that `drive_action` reads.

Module `Session` sees the process only as this future (`fut`); `Subprocess` and
`CrossUserHelper` are the two processes behind it, in the detail that their signals, pipes and
timers need. `CliRun` is built on `SessionApi`, which is what a caller of a session may rely on;
`ImplementsApi` of `Session` says that a session implements it. The snapshots crate is independent of
the session.

The `MC` modules give the constants values for TLC. `MCAction`, `MCJob`, `MCTemplate` and
`MCSnapshots` hold several components: a behaviour picks a topic in its initial state and the other components
rest. The `Proofs` modules hold theorems.

## The models

**Session.** `state`, `endingOnly`, `cleanupCalled`, `environments`, `environmentsEntered`,
`createdEnvVars`, `wrapEnvFileRecords`, `actionState`, `failMessage` and `cancel` are fields of
`Session`, `ActionStatusFields` and `CancelShared`. `helper` says where the `CrossUserHelper`
value is: absent, in the session, lent to a runner, shut down. `pc` and `op` are the owner's
program point between two awaits; `fut`, `msgs` and `pipeCancel` are the action's future, its
message channel and whether the helper was told to stop the process. `accepted` is history.
`EnterEnvironment`, `EnterVariablesFail`, `ExitEnvironment`, `RunTask`, `RunSubprocess` and
`Cleanup` are the operations up to the point where the action is announced. `SetAction`,
`SetupFails`, `SetupDone` are its setup; `Launch`, `FutureError`, `Emit`, `ObserveCancel`,
`TimeoutExpires`, `Complete` the future; `ApplyMessage`, `DriveError`, `Decide` and `Settle`
`drive_action`. `Decide` reads `mark_failed` under the lock and `Settle` takes the lock again for
`cancel.reset`; other threads run in between. `HandleCancel`, `HandleSend`, `HandleReturn` are
`SessionCancelHandle::cancel`, which holds the lock throughout. A call that the code rejects
before it assigns anything is a stuttering step. Symbol tables, file contents, log text and
progress messages are left out. `CallerState` and `FutureVerdict` map this state to that of
`SessionApi`.

**SessionApi.** The stack of entered environments, one action at a time, and a verdict on every
action. A verdict falls when the future ends (`ApiDecide`), before its messages are drained.

**Subprocess.** One call of `run_subprocess`. The select is biased, so each branch has the
negation of the branches above it in its guard. Time is a clock in seconds; a deadline that is
due, a cancel that the loop can see and the death of a killed process come before the next tick,
so the time bounds are those of a host that is not overloaded. The child, one descendant in its
process group and one that left it write, close and exit as they please; SIGKILL ends a process.

**CrossUserHelper.** `run_via_helper`, the helper and the command it runs. `platform` chooses the
Unix helper, which reads stdin itself, or the Windows helper, whose reader thread sorts commands
into two channels (`mainQ`, `cancelQ`). Commands and responses carry the action they belong to,
which the program's messages do not: no guard reads it, the properties do. `delivering` is the
time between the handle's write to the pipe and its write to the request channel. `CloneFails`
and `Crashes` name the actions during which the pipe's writer cannot be cloned and the helper may
die; `Timed` those with a timeout and `Forking` those whose command leaves a descendant. The
length of a notify period is abstracted: an armed escalation may fire at any time.

**CliRun and StepSelection.** A job is its outer environments and its steps with their
environments and a plan for their tasks. `ledger` is the command's own list of entered
environments, `baseline` how much of it belongs to the job. The signal handler is an action of
its own. `StepSelection` is `prepare_selection` and `resolve_step_dependencies`.

**TopoSort.** `KahnPop`, `KahnEnd` are the validator's check, the other actions the depth-first
sort of `topo_sorted` with its stack, on which a step may stand more than once.

**RangeExpr, Chunking, ParamSpace.** Parsing, index arithmetic, slices and printing in the
wrapping arithmetic of a small word; chunks of lists and ranges; the tree of lazy nodes with its
iterator, whose chunk size `openjd run` adjusts between tasks.

**Expressions.** Types and their unification, values and coercion, the functions with what they
charge, the choice of an overload, and the evaluator with its budgets and its unresolved symbols.
Floats are a grid of halves, integers have a small width, ranges are increasing sequences.

**Job parameters, paths, templates.** `ParamDefs` and `JobParameters` merge, coerce and check;
`Paths` and `PathMapping` work on sequences of lexemes. `TemplateStructure` returns the places at
which the structural passes report errors. `SymbolScopes` has, per field, what validation lets it
read, what job creation sends and what the worker binds. `ResolvedValues` has the checks of one
value at the three stages that apply them.

**MemoryPool and HashUpload.** `MemoryPool` is `memory_pool.rs` over tokio's fair semaphore
(external). `HashUpload` has a task per file (`Start` to `JoinAll`), an upload per chunk (`units`)
and a step per part (`UploadPart`). The dedup map is a function from hashes to owning uploads; a
waiter wakes when its owner's entry is gone. A hash is the bytes it was computed from: xxh128 is
taken to be free of collisions. `Faults` names the calls that may fail. `Edit` is another program
that overwrites a file meanwhile.

**Download, CacheSync, snapshots.** A download applies deletions, symlinks and directories, then
runs one task per file into a temporary file; a kill may fall anywhere and the download starts
again. A sync skips, copies or carries objects between caches that lose them. `SnapshotChain` is
a directory that is edited while snapshots are collected and hashed with a cache; `SnapshotLaws`
states what the operations promise about these snapshots. Lists of entries are sets, as their
order carries no meaning, and JSON is left out of the formats.

## Runs

| run | properties | what it shows |
| --- | --- | --- |
| `session_same_user` | `ImplementsApi`, `NeverWedged`, `CancelStateFresh`, `StackMatchesEnvironments`, `OneWrapLayer`, `VariablesFollowTheStack` | Every path of a same-user session, with a cancel handle and a parent token, leaves Running and Canceling, clears its cancel state, keeps stack and map in step, caches files of one wrap layer only, gives actions the variables around them, and is a path of `SessionApi`. |
| `action` | `HelperComesBack`, `AcceptedCancelIsHonoured`, `CancelEndsAction`, `StopsInTime`, `OutputIsComplete`, `SuccessIsGenuine`, `StopEndsCall` | One action as its session drives it, with and without a helper: the helper comes back, an accepted cancel is never followed by Success, and a cancel that reaches the process ends the action. The same-user process behind it: a stopped call returns in time, and at all; a notified child keeps its grace time; an undisturbed action loses no output; Success is never reported for a stopped or failed action. |
| `helper` | `ResultsAreGenuine`, `OutputArrives`, `SignalEndsAction`, `ShutdownCompletes` | Two actions through both helpers: answers never drift from their runs, output arrives before the exit, a signalled action ends unless the helper is kept from listening, the shutdown returns. |
| `job` | `JobTextsAreExact`, `WalkIsComplete`, `EvaluationIsBounded`, `ResultsAreForeseen`, `OperatorsAreLawful`, `SortIsSound`, `RunIsAccountable`, `InterruptedRunEnds` | Ranges and combinations mean what their text says; a walk visits every task once; limits stop an evaluation or change nothing; static types cover run-time values; steps are ordered; a successful run ran everything, and an interrupted one ends. |
| `template` | `ParametersAreSound`, `PathsAreLawful`, `TemplatesAreReadAsWritten`, `SymbolsAreBound`, `StagesAgree` | Parameters get values that all their definitions accept; pathlib's laws hold and the deepest mapping rule wins; errors name fields as written; what validation lets a field read is bound later, and an accepted template fails at job creation for a symbol only in the ranges validation does not look at; the three stages judge a value alike. |
| `snapshots` | `UploadIsSound`, `BytesAreAccounted`, `DiffsRebuildSnapshots`, `OperationsKeepFiles`, `SnapshotsAreFaithful`, `HashesAreGenuine`, `DownloadsAreAtomic`, `DownloadsAreExact`, `SyncsAreSound`, `ReturnsUnlessOrphaned` | Uploads of one hash never overlap and Ok means stored; objects match their keys; diffs rebuild snapshots; operations lose no file; hashes are of contents the file had; a killed download leaves whole files; a sync leaves what it reported. |
| `session_lost_cancel` | `HandleCancelIsDelivered` | Violated: a handle's cancel that returns true before the run command has reached the helper is dropped by it. |
| `session_recovery` | `NoRecovery` | Violated: after a failed action, an exit that keeps the session running makes it Ready again. |
| `subprocess_notify_end` | `NotifyEndIsKept` | Violated: a notified process is killed at the end of the grace time, before the announced NotifyEnd. |
| `upload_hang` | `Terminates` | Violated: a failed `create_multipart_upload` leaves the dedup entry behind and its waiters wait for ever. |
| `symbols_sent` | `TableSentIsEnough` | Violated: the table filtered for a step lacks what the lets of its step environments read. |
| `composed_diffs` | `ComposedDiffIsEquivalent` | Violated: of two diffs composed into one, the deletion of a file that becomes a directory is missing, so that applying the composition differs from applying both. |

**Bounds and why they are enough.**
- Session: two identifiers give nesting, a wrap environment around another environment and
  re-entry. One variable is enough for layering, as variables are independent. One pending
  message, as `apply_message` handles one at a time. Symmetry in the identifiers is used in the
  run without liveness only. `action` needs one identifier, as its properties do not
  speak of nesting. Redactions are on and the working directory is not retained.
- Subprocess: the constants keep the order of `STDOUT_DRAIN_AFTER_KILL` <
  `STDOUT_GRACE_TIME_POST_TERMINATE` < `STDOUT_GRACE_TIME` and use a notify period longer than all
  of them. The clock runs to 10, past the last deadline of a cancel seen early enough (`Stopped`). One line
  in the pipe tells read from unread. A limit of 0 takes the branch of `CancelMethod::Terminate`.
- Helper: two actions are needed for an answer or a cancel to reach the wrong one; a third adds
  nothing new because a command's state is fresh. One line in all, one call of the handle.
- Job: a word of 32 values puts range arithmetic at its edges, and ranges that print as more than
  `MaxChunks` (3) items occur; graphs of three steps with every
  order of dependencies and of four steps; jobs of two steps with up to two layers of environments
  around and in them, of which one may wrap or fail.
- Template: subjects grow one element at a time up to limits of two or three, which stand for the
  code's limits with the same comparisons. Numbers padded with zeros reach past `NumericLimit` (3).
- Snapshots: two equal files in parts and one chunked file that shares a chunk are the smallest
  case with an owner, a waiter and a late comer. Two workers and a pool smaller than the files make
  tasks wait. Downloads include a file whose name is the one a copy of another is given. One edit of an upload, two edits between at most three snapshots, two attempts of a
  download, two syncs and one lost object.

**Fairness.** Session: the owner's thread is strongly fair because it competes for the lock with a
handle that releases it; the future is polled, and a process that was told to stop ends
(`StopCompletes`). `Subprocess` justifies the last for a same-user process (`StopEndsCall`). Behind
a helper it is an assumption: `SignalEndsAction` has exceptions, the commands that keep the helper
from listening, so `CancelEndsAction` speaks of the session's part alone. Subprocess: the runtime
polls the call and its timers and time passes; reading is strongly fair because a due deadline goes
before it in the biased select; nothing is assumed of the child except that SIGKILL ends it.
Helper: both programs' tasks run, a helper forwards what it has read and an armed escalation
comes; nothing is assumed of the command. Both assumptions of an action, the session's and the
process's, are in `ActionFairness`. Command line: the command takes its steps while no action
is in flight, the handler's cancel is carried out, and an action ends once its token is cancelled,
which `CancelEndsAction` gives for the session. Upload: every ready task is polled and every remote
call returns. No fairness is assumed of callers, cancels, signals, edits or crashes.

Deadlock checking is off where a system may stop: a session that was cleaned up, a finished call,
a closed helper, a clock at its bound, a behaviour whose topic is exhausted. The liveness
properties find the waits that matter.

## Proofs

TLC checks the instances above; these theorems hold for every value of the constants that meets
the named assumptions of the modules.

**SessionProofs** (assumption `ConstantsAssumption`: what templates are, and that the markers for
"no environment" and "no change" are none of them).
- `TypeCorrect`, `NoWedgedSession`, `FreshCancelState`, `TeardownIsFinal`, `HelperIsReturned`,
  `CancelIsHonoured` rest on the inductive invariant `SafetyInv`: the type invariant, these safety
  invariants and `ControlInv`. None is inductive alone. `NeverWedged` needs that a settling owner
  has a terminal result, which needs what the future may have returned (`FutureInv`).
  `CancelIsHonoured` needs that a delivered cancel stays visible until `cancel.reset` and that the
  classification of the process's end looks at it (`DeliveryInv`). `FreshCancelState` needs that no
  delivery is under way when the owner takes the lock for the reset. Frame lemmas say what each
  group of actions leaves alone; each invariant has one lemma with a case per group.
- `StackMatches` and `SingleWrapLayer` rest on `StackInv`, the two together with the types:
  `PushStack` and `ExitStack` are the cases of an environment entered and of the last one removed.
- `VariablesKeepToTheStack` is the action property `VariablesFollowTheStack`. `EvaluatesInnermost`
  shows that the loop of `evaluate_env_vars` computes the innermost change of every variable: the
  visible values satisfy its recursion, and a least position where another solution would differ
  is impossible. `VariablesInv` adds what the operation in flight says of the stack: an
  environment being entered is the innermost one, one being exited is already gone, so what it
  prints is recorded where nobody looks; and an exit's variables were evaluated before its pop.

- `SessionImplementsApi`: every behaviour of `Session` is one of `SessionApi`. The refinement maps
  setup, runner and `drive_action` to one Busy period; each action is shown to be one abstract step
  or a stutter, under `SafetyInv`, `StackInv` and `VerdictInv` (a registered token follows its
  parent, and the status being settled is the future's).

**SubprocessProofs** (`ProcessConstants`: times are natural numbers and the grace time after a kill is not the longer one).
`OutputIsRead`, `SuccessIsEarned` and `CallStopsInTime`, from `CallInv`: types, what a child's
status says, the pipe, and `DeadlineInv`, which bounds the clock by the deadline that is armed in
each phase. The time bound is the sum of the bounds of the phases.

**CrossUserHelperProofs** (`HelperAssumption`: the bounds are natural numbers). `HelperInvHolds`,
`HelperResultsAreGenuine` and `HelperOutputArrives`, for any number of actions, lines and cancels
on both platforms. Messages carry no identifier, so the invariant `HelperInv` follows one run
through both pipes: `StepInv` says that while the session waits, its run command is on its way
(`Sent`), at work (`Working`, with as many lines in the pipe and buffers as the command wrote more
than the session read) or answered (`Answering`, the last response is its exit), and that
otherwise both pipes hold nothing of a run (`Silent`). `PastInv` keeps what is known of answered
actions, `QuietInv` says that nothing of a command outlives the helper's idle state.

**HashUploadProofs** (`UploadAssumption`, `PoolAssumption`). `UploadInvHolds` and
`UploadIsAlwaysSound`, for any files, sizes, workers, faults and edits. `UploadInv` reads the dedup
map as a lock (`LockInv`: a busy upload holds the entry of its hash; an entry belongs to a busy
upload or to one whose multipart upload was never created), follows waiters to their owner
(`WaitInv`), says that a returned upload has its object stored or that one for the same hash failed
(`StoredInv`), and ties open multipart uploads, file tasks, results and the return together.

**UploadBytesProofs** (the same assumptions). `BytesInvHolds` and `BytesAreAlwaysAccounted`: what is
stored, held in memory and counted. `BytesInv` adds three invariants to `UploadInv`. `PoolInv`: the
permits of the tasks and the available ones add up to the pool, a task that holds some is reading
or uploading, and so an Ok return leaves the pool whole. `ContentInv`: what a unit will store is
what it hashed; the parts of a multipart upload are the pieces of the file unless somebody wrote
over it, and the pieces joined are the file. `CountInv`: while nobody writes, the counters cover
every task that returned a result, hence the whole manifest at the end.

**CacheSyncProofs** (`SyncAssumption`: the S3 limits are positive and fit each other, what the
destination holds at first is whole, a manifest entry is no smaller than its object, and no object
needs more parts than S3 allows; larger ones make the service refuse the upload). `SyncInvHolds`
and `SyncsAreAlwaysSound`, for any manifests, objects, part sizes, losses and kills. `SyncInv` has a
part per object: what the stage of its task says of the call's history (`HistoryInv`), and, while it
is uploaded, that every part that arrived holds the object's bytes at its place and that none is
missing unless a request failed (`PartsInv`). From the latter follows that a completed upload is
the object (`PartsAreObject`), though the transfer cuts it by an estimate that may be too large; a
part that starts behind the object's end shows that the estimate was (`BeyondIsOver`). `TrustInv`
ties what was skipped unseen to the number of verified hits, `TallyInv` the statistics to the tasks.
Every step of a task is shown to touch only its own object (`TaskStep`), from which the invariant
follows once for all steps (`TaskHolds`). `EffectivePartSize` is the arithmetic of
`effective_part_size`: the parts it cuts are neither too many nor too small.

**TopoSortProofs** (`GraphsAssumption`: finitely many steps that depend on steps).
`SortIsCorrect`: the order of `topo_sorted` respects the dependencies and is stable, a cycle is
found exactly when there is one, and the validator accepts exactly the graphs that can be sorted.
`SearchInv` describes the stack: a started step is visited through its topmost entry, what it
needs is completed or above it, and every entry was pushed by the nearest active one below it, so
meeting a started step closes a cycle. `KahnInv` counts the steps taken off the queue, none of
which lies behind a cycle.

**CliRunProofs** (`JobAssumption`: lists are sequences and an id names one environment).
`CliInvHolds` and `RunIsAlwaysAccountable`, for any job. `CliInv` says where the command is in
which list (`PhaseInv`), what it knows of the session (`CallInv`), which environments its ledger
holds (`LedgerInv`: outer ones up to the baseline, then those of the step before the next to be
entered, hence never one the session would refuse) and how many tasks ran (`WorkInv`).

**How the proofs reach data.** Induction principles with an operator parameter are out of the
provers' reach. Where a loop has to be followed, its solution is given explicitly or shown to exist
for the least length for which it would not (`EvaluatesInnermost`, `RunningSum`, `PlannedIs`, and
reachability in `TopoSortProofs`), from the well-foundedness of the natural numbers. Sums over
finite sets and sequences joined piece by piece are reached in the same way (`SumUpTo`,
`AssembledIs`).

**Only model-checked.**
- All liveness: `CancelEndsAction`, `StopEndsCall`, `SignalEndsAction`, `ShutdownCompletes`,
  `InterruptedRunEnds`, `ReturnsUnlessOrphaned`.
- `DownloadsAreAtomic` and `DownloadsAreExact`: a download follows symlinks through a file tree
  with recursive operators, and its steps are built from them.
- The remaining properties of `job`, `template` and `snapshots`: their operators are recursive over
  texts, syntax trees, paths and types (`RECURSIVE` modules), and what they compute for every input
  cannot be proved here. `StepSelection` is one of them.

## Where code and documents differ

Six differences have a run (above). Others met while modelling, without one:

Sessions and processes.
- `action-messages.md:38`: a malformed directive that is applied after the process exited with 0
  leaves Success (`session.rs:2321`).
- `session.md:139`: the parent token does not stop an action that runs through the helper
  (`cross_user_helper.rs:618` never looks at it).
- `session.md:370`: a later `openjd_env` takes an earlier `openjd_unset_env` back (`session.rs:2298`).
- `session.md:430`: with `retain_working_dir`, cleanup leaves the helper running (`session.rs:1065`).
- `session.md:405`: the Windows helper keeps a late cancel for the next run (`helper/src/main.rs:237`).
- `session.rs:2104`: a command killed by a handle's cancel may be reported Failed when its exit
  overtakes the request channel (`session.rs:362`).
- `session.md:383`: a command that closes its output survives its notify period, because the helper
  only waits for it then (`helper/src/runner.rs:164`).
- `subprocess.md:201`, `:209`: a leaked descriptor, or a process that SIGKILL cannot end, keeps the
  call waiting without a bound (`subprocess.rs:1116`, `:1166`).
- `session.rs:335`: a second, urgent cancel is ignored by a process in its notify period
  (`subprocess.rs:1068`).

Templates, jobs and the command line.
- Validation lets an environment's `variables` read `Session.*` symbols (`format_strings.rs:107`,
  `validation.md:205`) that the session does not bind when it resolves them (`session.rs:1182`).
- A FLOAT range and the expression form of a STRING or PATH range are not validated
  (`format_strings.rs:1967`-`2047`): a symbol they read may be undefined at job creation.
- A number field whose text resolves to more than `MAX_RESOLVED_NUMERIC_LEN` characters is refused
  (`format_strings.rs:715`, `:762`) although zero-padded numbers of any length run
  (`runner/mod.rs:418`, `ranges.rs:207`). The comment at `format_strings.rs:268` says so.
- `validation.md:227` and `format_strings.rs:254` disagree on the symbols of one field;
  `validation.md` describes the cycle check as a depth-first search, the code counts in-degrees.
- Minimum above maximum, literal range elements longer than 1024 and ranges that resolve to nothing
  are found at job creation only.
- `parameters.md:71` counts characters where the code counts bytes; merged constraints of a
  RANGE_EXPR parameter's length are never checked against a value. An inner list of a LIST[LIST[INT]]
  that does not hold integers passes the merged item constraints (`parameters.rs:606`), where a default
  is refused by its definition (`expr_parameters.rs:665`). A PATH that is given a list or a range takes
  the text in which it is displayed as its path.
- `specs/cli/run.md` says steps run in index order; they run in the order of `topo_sorted`.
- The validator accepts combination expressions such as `(A)` and `A, B` that the iterator rejects;
  the iterator takes a lone `*` as an absent combination, which the validator refuses.
- `parameter-space.md`: a chunk of more than `MAX_RANGE_EXPR_CHUNKS` pieces is printed as a text that
  is refused when it is handed back.
- Paths: the POSIX join folds a leading `//`, and a rule that maps to `/` yields `//a`.

Expressions.
- `make_list` reaches its `unreachable!` when integers and floats are mixed with another kind, which
  a comprehension or a coercion to a list of a union can do.
- With an unresolved operand a Boolean operator is typed BOOL, so `null or X` toward a list is refused
  before `X` is known although it runs; `[[1.5], [X]]` and `[[], X]` are refused likewise.
- A call with an unresolved argument of a union type gets the type of the first signature that
  matches. Unifying two different unions returns the first.
- Equal values of different kinds hash differently, against the comment at `value.rs:338`.
- The sum of an empty float list is an integer; coercing `[]` to a list of a union gives a list of
  null type (`values.md:192`).

Snapshots.
- `snapshot_operation_hash_upload_s3.md:66`: parts are not verified against the first pass
  (`hash_upload.rs:640`); `hash_upload.rs:106`: progress can exceed 100 (`:513`);
  `hash_upload.rs:17`: a hash can be uploaded twice, one after the other (`:37`);
  `memory_pool.rs:11`: chunks detached by a failure hold data beyond the pool (`:763`);
  `snapshot_operation_hash_upload_pipeline.md:115`: hashes of failed uploads are not cached (`:394`).
- A diff in which a file becomes a directory, or the reverse, has two entries for one path, fails
  `validate` and cannot be read back in the v2025 format. Absolute Windows manifests cannot either.
- A file that changes between collection and hashing is cached under the mtime that was collected.
- `snapshot_operation_download_pipeline.md:57`, `:90`: temporary files stay after a failure; `:53`: the
  ranges of a file fetched in parts are not verified. The runnable bit is not restored.
- `create_copy` looks for a free name long before the rename: a copy can get the name of another file
  of the manifest, one of the two is lost, and the hash cache takes one for the other in later calls
  (`download.rs:935`).
- `snapshot_operation_download.md:79`: a deleted link stays when its target was deleted before it,
  because `exists` follows links.
- The failure of an `AbortMultipartUpload` is not reported and leaves the upload open
  (`hash_upload.rs:682`). A failed `CompleteMultipartUpload` of a sync is not aborted; an error of
  `object_exists` counts as absent.
- `FileSystemDataCache::put_object` writes the final path directly (`data_cache.rs:328`): a write that
  failed or was killed leaves a short object, which later syncs take as present.

## Not modelled

Python's snapshot of a session and the bindings' conversions of values; Windows API calls, process
tokens and permissions; the splitting of output into lines and the recognition of directives in them
(the models start from lines and messages); the parser of expressions and format strings (they start
from syntax trees); string, regular-expression and most path functions; embedded files, logging,
rates and progress. `PROJECT.json` lists every part with the reason.
