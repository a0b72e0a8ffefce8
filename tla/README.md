# Verification of rewriter-queue

TLA+ models of the durable job queue of this repository, of the orchestrator it runs, of the
model providers under both and of the benchmark on top; the TLC instances that check them and
the TLAPS proofs about them. Paths below are relative to the repository (`src/` is its root;
`orchestrator/` stands for `ai-org-orchestrator/src/`, `providers/` for
`inference-providers/src/`, `queue/` for `job-queue/src/`).

## 1. Inventory

| Component | State it keeps | Operations | Talks to | What is hard | What makes it correct |
|---|---|---|---|---|---|
| Job store (`queue/job.rs`) | `jobs/NNNN.json`, `NNNN.cancel`, `submit-<pid>.tmp`, `save-<id>.tmp` | submit, save, get, list, next_queued, request_cancel, effective_state | every other part, through files only | no lock: many processes and the server's threads write at once, any may die | ids are handed out once and in order; an accepted job stays what was accepted |
| Worker (`queue/worker.rs`) | the job it holds, its child, `worker.lock` | run, serve, recover_orphans, run_job, launch_job, terminate, finish, analyze_job | job files, orchestrator processes, markers | the worker, the machine or the orchestrator dies between any two writes; cancel races launch and exit | one orchestrator at a time; a job ends once; id order survives a resume; crash loops are bounded; every job ends |
| Follow-up (`queue/worker/chain.rs`) | `chain.json`, `follow_up.submitted`, `artifacts/increments.json` | follow_up, prepare_workspace, next_link | job store, the orchestrator's hand-off | submit and marker are two writes | an increment is submitted once, after its predecessor succeeded |
| Worker lock (`queue/worker.rs`, `backend.rs`, `server.rs`) | `worker.lock` | lock_worker, is_running, ensure_running, spawn_detached | submitters, workers, server | asking takes the lock; a job arrives while a worker leaves | one process serves; no queued job is left behind |
| Queue server and access (`queue/server.rs`, `config.rs`, `archive.rs`) | tokens, a worker thread, request threads | routes, submit with upload, cancel, download | job store, clients | threads share one pid; a failed upload | read-only tokens never change the queue; a failed upload leaves nothing |
| Events, analyses, feature requests (`queue/events.rs`, `run-events`, `orchestrator/observer.rs`, `analysis.rs`) | `events/NNNN.jsonl`, the workspace's `events.jsonl`, `analysis/`, `feature-requests.json` and its lock | emit, post, append, all_events, build_analysis, ingest_analysis, merge_requests, set_request_status | orchestrator to server, worker, CLI | posts fail or are answered late; two logs are merged; a line is cut off; a crash between analysis and merge | no event lost that one log holds, none doubled; the facts told are the run's; a person's decision survives merges |
| Client, MCP server, views (`queue/client.rs`, `backend.rs`, `mcp.rs`, `view.rs`, `main.rs`) | none | translate requests, format | server or store | - | - |
| Synthesis (`orchestrator/synthesis.rs`, `plan_review.rs`, `split_guard.rs`, `debug.rs`, `review_scope.rs`) | checkpoints under `synthesis/`, plans, variant directories | dual review, milestones, waves, fan-out, gap rounds, integration and soundness loops | agents, quality gate, workspace | every loop is resumed from checkpoints after a crash; parallel milestones | a resumed run takes the path of the interrupted one; nothing planned is dropped; only gated, judged code is delivered; loops end |
| Workspace (`orchestrator/workspace.rs`) | `artifacts/`, `synthesis/`, `deviations.md` | checkpoint, gate_usize, seed_variant, reset_synthesis | synthesis, pipeline | writes of parallel milestones; stale checkpoints | a checkpoint is computed once and answers its own question |
| Agents and tools (`orchestrator/manager.rs`, `tools.rs`, `patch.rs`, `agents.rs`) | transcripts, gate signatures | run_on_slot, run_agentic, run_with_review, fan_out, patch application | providers, workspace | turn budgets, nested fan-out, documents patched by text | a conversation keeps its provider and ends; a document delivered was reviewed as it stands |
| Pipeline (`orchestrator/main.rs`, `increments.rs`, `schema_check.rs`, `services.rs`) | `artifacts/*` of each stage, the crate's manifest, a database server and its watchdog | stages, schema check and repair, split, delivery, services | synthesis, queue | crash between a stage and the reset of what depends on it | nothing stale is built on; the manifest is the one that was judged; servers stop |
| Providers (`providers/`) | slots, failure counts, metrics, exploration counter | setup, probes, complete, complete_pinned, retries | HTTP and CLI back ends | shared state between threads, three retry budgets in one loop, providers that come and go | attempts are bounded; the error's class decides; no provider is forgotten |
| Analysis, estimation, quality (`orchestrator/analysis.rs`, `estimation.rs`, `quality.rs`, `advice.rs`, `provider_setup.rs`) | effort history | run cargo, estimate, summarise, refactor | agents | history changes under a resumed run; manifests are merged | the gate judges what is delivered |
| Benchmark (`bench/src`) | run records, work directories | submit, watch, cancel, collect, check, clear, compare | queue CLI | commands fail, jobs never end, the worker dies | a record is the job's outcome and the crate's worth; no directory is deleted under a writer |
| Editor extension, plugin, skills | none | - | - | - | - |

The components work only through the file system, processes and HTTP: submitters and the server
write job files, the worker reads them, launches an orchestrator per job on the job's
workspace, and the orchestrator's checkpoints and hand-off files are what later launches and
the follow-up read. That is why most models are about durable writes and about who may die
between two of them; `Conversation` is about threads that share the registry.

## 2. Modules

| Module | Models | Composes |
|---|---|---|
| `JobLifecycle` | what the queue promises about jobs: consecutive ids, one at a time in id order, bounded resumes, one end | abstract specification of `JobQueue` and `JobStore` |
| `JobQueue` | job files, markers, worker, orchestrators, follow-ups, crashes | implements `JobLifecycle` |
| `JobStore`, `MCJobStore` | how ids and files come about, inode by inode | implements `JobLifecycle` (with no resumes) |
| `WorkerLock` | who is the worker | justifies the single worker of `JobQueue` |
| `RunEvents` | the events of the runs of a worker's jobs, their two logs, the merge of the logs and the facts computed from it | |
| `FeatureRequests` | the worker's analysis of a job and the list of feature requests that users change | extends `RunEvents` |
| `Pipeline` | the main program from launch to delivery, schema, manifest, services | its contract stage is `Contract`, its synthesis `Milestones` and `Assembly` |
| `Patch`, `Contract` | applying a diff; the contract drafted, reviewed and patched | `Contract` extends `Patch` |
| `Milestones` | plans, reviews, waves, dual review, splits, gap rounds, over checkpoints | ends where `Assembly` starts |
| `Assembly` | from the assembled crate to the delivered one: integration, refactor, review panel, soundness | what an orchestrator of `JobQueue` does last |
| `Fleet`, `Registry`, `Conversation` | the slots and their backends; routing and retries; the agents' calls, conversations and copies | each extends the one before |
| `Acceptance`, `Bench` | a task's hidden checks; the benchmark's runner against the queue | `Bench` extends `Acceptance` |
| `*Proofs` | theorems about the module of that name; `JobStoreProofs` also has those of `WorkerLock`, `ConversationProofs` those of `Contract` | |

The `MC*` modules hold the small sets a configuration cannot write; the other configurations
instantiate their module directly.

### JobQueue

Durable state: `state`, `resumes`, `pid`, `ws` are the fields of a job file that decide
behaviour and are always saved together; `cancel` the markers; `handoff`, `chain`, `submitted`
the files of the follow-up. `live[j]` are the orchestrators of `j` that still run, named by
their launch number. The worker's program counter has one value per place between two durable
writes, so that a crash can fall on each of them.

| Code | Actions |
|---|---|
| `Queue::submit` | `Submit` (from users), `FollowSubmit` |
| `Queue::request_cancel` | `AskCancel` (the check), `WriteCancel` (the marker, later) |
| `worker::serve` | `WorkerStart`, `RecoverDone`, `NextQueued`, `IdleExit` |
| `recover_orphans` | `RecoverKill`, `RecoverSave` |
| `launch_job` | `LaunchCheck`, `LaunchFails`, `SaveRunning`, `Spawn`, `SavePid`, `StillRunning`, `PeekCancel`, `Terminate`, `Reap`; `LaunchError` for its `?` exits |
| `analyze_job` | `Analyze` (touches no job) |
| `chain::follow_up` | `FollowNothing`, `FollowSubmit`, `FollowMark`, `FollowError` |
| an orchestrator | `Split` (writes the hand-off), `OrchestratorExit` |
| the environment | `Crash` (the worker), `Reboot` (everything) |

Abstractions: a pid is the number of the launch and is not reused; an orchestrator's process
group is one process; a directory listing and a save are atomic here (`JobStore` opens up the
submission); a workspace is named by the first job submitted on it; `worker::run`'s second look
at the queue is a new `WorkerStart`, and why that is enough is `WorkerLock`'s subject.

### JobStore

`file`, `tmp` and `disk` are directory entries and inodes: `hard_link` makes two names of one
inode, `rename` replaces a name, `fs::write` truncates and then fills the inode it opened.
`Start`, `Open`, `Write`, `Link`, `Remove` are `Queue::submit`; `Take`, `SaveRunning`,
`SaveEnd` the worker's use of `next_queued` and `save`; `Die` a process that dies. `Threads`
is 1 for CLI processes and 2 for the request threads of the server, which share
`submit-<pid>.tmp`. The last of two writes to one inode wins as a whole. `save-<id>.tmp` is
written by the one worker only and is folded into `Save`.

### WorkerLock

`Submit`, `FoundRunning`, `Probe`, `ProbeEnd`, `SpawnDetached` are `Backend::submit` and
`ensure_running`; `LockWorker`, `LockTaken`, `ServeJob`, `IdleExit`, `DropLock`, `Recheck` are
`worker::run`; `ServerLock`, `ServerSubmit`, `ServerServe`, `ServerCrash` are `server::run`.
`LockInit` leaves open whether the queue has a server. A submitter that dies, or fails to spawn its
worker, is not modelled (section 6).

### RunEvents and FeatureRequests

The jobs of a worker, one after the other. `file` is each workspace's `events.jsonl` with a
flag for a last line that was `cut`, `served` the server's copy; `at` is where each thread of
the orchestrator is between creating an event, appending and posting it. `emitted` and `torn` are
history: the events whose append was reached, and those of them that went into the rest of a cut
line, where no reader finds them.

| Code | Actions |
|---|---|
| `Observer::stage`, `end_stage`, `close_stage`, `fail`, the notes of agents and gates | `EndPrevious`, `OpenStage`, `Note`, `Checkpoint`, `Fail`, `CloseFailed`, `CloseLast` |
| `Observer::append`, `post` with its pause after a failure | `AppendLine`, `PostSkipped`, `Post` |
| the run's end, and the worker's part in it | `Exit`, `Die`, `Crash`, `Cancel`, `Relaunch`, `GiveUp` |
| `identity`, `merge_event_sources`, `all_events` | operators `Count`, `Merge`, `AllEvents` |
| `unfinished_stages`, `infer_outcome` | operators `Unfinished`, `Outcome` |
| `try_analyze`, `build_analysis`, `EvidenceIndex` | `StartAnalysis`, `Analyse`, `SkipAnalysis`; `Valid` |
| `ingest_analysis`, `merge_into_store` under `with_requests_lock` | `WriteAnalysis`, `TakeLock`, `Load`, `Save`; `Merged`, `Raise` |
| `set_request_status` | `Ask`, `UserLoads`, `UserSaves`, `UserDies`; `Decided` |

Abstractions: an event is its time, kind and stage; the outcome "cancelled" an analysis may be
told is left out; `Unfinished` says without a loop what the counter of `unfinished_stages`, which does
not go below zero, comes to (a stage is open when from some event on it starts more often than it
ends); a stage that calls a model neither ends nor fails in the millisecond of its
last event, and a relaunch takes longer than a millisecond; a job that recovery gave up is never
analysed; when the pause after a failed post ends is open.

### Pipeline

A launch goes through the places of `main`: `Launch`, `StartServer`/`ServerFails`,
`SpawnWatchdog`, `NoSource`, `WriteManifest`, `RunStage`/`StageFails`, `WriteSchema`,
`SchemaCompiles`/`SchemaFails`/`RepairSchema`/`SchemaNeverCompiles`, `FitsOneRun`/
`IncrementTooBig`/`StartPlanning`/`PlanIncrements`/`PlanFails`, `FindV2`/`Answer`/
`GatePasses`/`GateFails`/`GivesUp`, the refactor of the crate that passed
(`NoRefactor`/`AskRefactor`, `RefactorPasses`/`RefactorFails`), the review panel
(`RepairSoundness`, `SaveV2`), `StopServices`, `EmitV2`. `Panic` and the failing variants
are `expect`, `?` and `process::exit`, which differ in whether `stop_all` runs (`GiveUp`).
`Watchdog` is the shell loop of `services.rs`; `Crash` kills the orchestrator, `KillGroup` its
process group. A schema is the crates it declares and whether it compiles and fits; a
manifest the crates it adds; an answer its Cargo.toml section. `Declared`, `Reconciled` and
`Clean` are `merge_dependencies`, `reconcile_manifest` and the gate. Every gate, that of a
refactored crate included, rewrites the manifest on disk before it judges; a rejected refactor
(`RefactorFails`) leaves it so, while the crate in hand stays the one that passed. A refactor
whose agent fails is `NoRefactor`. `code` is the crate in hand, a variable of the process that a
crash or the end of the launch takes away (`Forget`). A mission says what it asks for, and, as a
bound of the model, how many launches it gets (`Missions`).

### Patch and Contract

`Patch` is the application of a diff to a text of lines that are sequences of letters:
`Places` and `CountedOnce` are `str::matches`, `ApplyHunk(s)` the search and replacement,
`ApplyPatch` the loop over files with its refusals; `Meant` says what a diff means (all of its
blocks replaced at once), without the search. `Contract` is `run_with_review` on the
document checkpoints: `Launch`, `Draft` (a full text, or a patch), `Review`, `Emit`, `Fails`
for errors, `Crash`, and `CutOff` for a write that a crash cuts off.

### Milestones

Checkpoints are durable (`planned`, `reviewed`, `worked`, `security`, `maintenance`), `call` and
`ms` are the calls of `implement_milestones` and `implement_one_milestone` of the launch, named
by their path in the tree of splits; all threads of a wave interleave.

| Code | Actions |
|---|---|
| `synthesize_by_milestones`, `fill_scope_gaps` | `Launch`, `StartRound`, `EndRound`; `Crash` |
| `implement_milestones`, `review_plan` | `AskPlan`, `PlannerFails`, `Review`, `ReviewFails` |
| `schedule_waves` and the scope of threads | `StartWave` (`NextWave`, `DirFor`), `EndWave` |
| `implement_one_milestone` | `Begin`, `SplitReturns`, `OutOfBudget`, `FinerReturns`; `SplitCannotHelp` |
| `run_with_dual_review` | `Worker`, `SecurityReviewer`, `MaintenanceReviewer`, `AgentFails` |

Abstractions: each milestone delivers one non-empty set of files, named by its id; what the
history predicts as an agentic milestone's budget is any number up to the cap.

### Assembly

One workspace, one launch at a time (that is `JobQueue`'s subject). Durable: `answer` is
`artifacts/synthesis/`, `v2` is `v2.rs`, `dir` says whose files lie in `artifacts/v2/src`. A code
is named by the checkpoint it came from and the fix plan laid over it, so the model can tell
whether an answer was given about the code in hand (`asked`). A launch loses its loop counters
and starts over.

| Code | Actions |
|---|---|
| `main`, V2 stage and delivery | `Launch`, `EmitV2`, `EmitCutOff`, `WriteCrate`; `Error` for `?` and `expect` |
| `integration_check_and_repair` | `GatePasses`, `GateFails`, `RepairCrate`, `Escalate` |
| `refactor_pass` | `NoRefactor`, `RefactorCrate`, `RefactorFails` |
| `run_review_panel`, `enforce_soundness` | `ReviewIp`, `Sound`, `Unsound`, `RepairSoundness`, `ReviewReadiness` |
| `Workspace::checkpoint`, `integration_gate` | operators `Checkpoint`, `Gate` |

Abstractions: what the milestones assemble is the same code in every launch, and a plan of fix
milestones is one answer (both are the subject of `Milestones`); the gate's verdict
is a function of the code alone, though `integration_gate` also merges and judges the manifest on
disk (`quality.rs:176`–`299`), which `Pipeline` models; diagnoses and deviations change prompts and
logs only. A checkpoint
cut off by a crash needs no action of its own: a verdict that is cut off reads as unsound, other
text as some code the gate has yet to judge. A cut-off `v2.rs` does (`EmitCutOff`).

### Fleet, Registry and Conversation

`Fleet` has no state of its own: per backend, which of its service's doings become which
`ProviderError` (`ErrorsOf`), and how configuration, environment and probes make the slots
(`BuildRegistry`, `RunQq`), of which an entry for the CLI without models gets one of its own
(`DefaultCliModel`). `Registry` adds the shared registry (`older` orders the slots by
`last_used`, `tick` is the exploration counter) and one request per calling thread:

| Code | Actions |
|---|---|
| `Registry::complete`, `try_complete` | `Submit`, `Route` (any ranking of the candidates; `Explores`), `NoCandidate`, `Answered`, `FallThrough`, `Spent`/`Retry` by the class of the round's last error |
| `complete_pinned` | `RoutePinned` with the same retries |
| `Manager::run_on_slot` | `StartPlain`, `PlainEnds` |
| `run_agentic`, `run_agentic_inner` | `StartConversation`, `AskTurn`, `TripBreaker`, `Extend`, `OutOfTurns`, `TurnFails`, `AskAgain`, `Answer`, `CallTools`, `NextTurn` |
| `fan_out`, `read_file` | `FanOut`, `Join`, `ToolPanics`, `Return` |

Abstractions: scores, prices and quality are data, so the ranking of the candidates is any order; waiting
has no length; a prompt is small or not; the pool of threads `Caller` bounds `fan_out`;
file errors of logs and accounts, the suffix of an agent's name and the capable-slot bonus are
left out.

### Bench and Acceptance

`SetUp`, `SetUpFails`, `Submit`, `RunDirect`, `SeeEnded`, `SeeRunning`, `SeeWaiting`,
`StatusFails`, `CancelJob`, `SeeStopped`, `SeeNotStopped`, `StopWaiting`, `Collect`, `Check`,
`Clear` are the steps of `run_one` and `run_queue`; the queue they meet is `Pick`, `Claim`,
`Spawn`, `SavePid`, `LaunchFails`, `Exit`, `Finish`, `WorkerDies`, `WorkerStarts`, `UserCancels`
(a part of `JobQueue`). As there, the pid is saved after the spawn: `unsaved` names an orchestrator
in between, which becomes one of the `strays` when its worker dies just then, and `WorkerStarts`
kills those in `orch` only. `mode` is whether the runner starts the orchestrator itself or submits
a job. Each command may fail with or without its effect. `Acceptance` computes the outcome of a
task's checks for a crate; `Accepts` says independently what the task asks for. Left out:
`--keep`, the death of the benchmark itself, two benchmarks with one label.


## 3. Runs

Each configuration checks the questions its module was written for in one run; a run lists no
property that another run of the same module already covers.

| Run | Shows | Bounds, and why they are enough |
|---|---|---|
| `queue_safety` | `OneTrackedOrchestrator`, `CrashLoopBounded`, `CancelStopsRelaunch` | 2 jobs (order and hand-over need two), 1 resume (the cap reached and passed), 2 faults (a crash inside the recovery from a crash), the second job may reuse the first one's workspace |
| `queue_live` | `SeriesInOrder`; `CancelEnds`, `EveryJobEnds`; `Lifecycle`, the refinement of `JobLifecycle` with its progress | 1 mission with 2 increments (the first and a later one differ), 1 resume, 1 fault; the refinement's safety half is proved for any number |
| `worker_lock` | `OneServes`, `NoJobStranded`, `JobsAreServed` | 3 submitters: one is the worker, one mistakes a probe for it, one is the probe; 2 server crashes |
| `store` | `AcceptedIsStored`, `RunningFileIsWorkers`, `IdsHandedOutInOrder` | 3 processes try one id and the losers the next; one dies anywhere; processes are interchangeable (symmetry) |
| `store_threads` | a disagreement, section 4 | 2 threads, 1 submission each |
| `assembly` | `DeliveredPassedGates`, `DeliveredWasJudged`, `AnswersAreAboutTheCode`, `EveryLaunchEnds` | 2 attempts (a first and a later repair and soundness round), 1 escalation (the check runs again once); crashes, errors and launches without bound |
| `milestones` | `Isolated`, `DependenciesFirst`, `NothingDropped`, `ReplayAgrees`, `EveryLaunchEnds` | 2 names, 2 levels of splits below a plan, 1 iteration with a cap of 2 (flat and predicted budget differ), 1 round of gaps, 2 launches; six scenes, one per interesting kind of plan: hard, agentic, parallel, out of order, cyclic, in rounds |
| `contract` | `ContractIsReviewed`, `HunksAreApplied` | 3 iterations (a draft, a patch and a patch of the patch); documents of a few lines whose hunks overlap, are ambiguous or miss |
| `pipeline` | `MadeForThisSchema`, `DeliveredAsJudged`, `DependenciesKept`, `ServersStop` | 1 repair, 1 plan attempt, 2 answers per synthesis (a rejected one and a better one; a crate that passed and its repair), 1 refactor; 3 launches, 2 of a mission with services, so that the crash that needs three to show (section 4) happens; schemas and sections of each kind |
| `conversation` | `OneProvider`, `TurnBudget`, `NoSlotForgotten`, `EveryCallEnds` | 2 callers that interleave, fleets of 2 providers that go and come back, exploration every second request, retry budgets of 0 and 1, a conversation of 1 turn that may be extended by 1 |
| `feature_requests` | `NothingLostOrDoubled`, `FactsAreExact`, `StoreIsSumOfOperations`, `AnalysisReachesStore` | 2 jobs, 2 stages, 1 helper thread, 1 person, 1 request; four scenarios: the stages and posts, the notes of a second thread, the crash with a cut line and the relaunch, the concurrent store |
| `bench` | `NoWriterLeft`, `OutcomeIsTheJobs`, `VerdictIsTheCrates`, `EveryRunEnds` | 2 repeats (the second meets the first one's worker and orchestrators), time for 2 looks, 2 status errors, 1 look after a cancel; tasks of each kind, and crates that lack one thing or nothing |

The properties are defined at the end of their module, each with a comment. Every one has a
mutant: an operator next to the definition it replaces (comment `Mutant:`), which changes the
code the way a plausible slip would and which the property's run refutes.

Where deadlock is not checked, the system may stop: no jobs are left, the launches or the repeats
are used up, every caller has returned.

### Fairness

- `JobQueue` (`FairSpec`): weak fairness of the worker's steps. `serve` loops without blocking for
  ever, and a worker that ends is started again by a supervisor (`docs/remote-deployment.md`,
  `Restart=on-failure`) or, for a local queue, by the next submission (`ensure_running`): the
  liveness properties are about a queue that is hosted or still in use. Nothing is assumed of
  users, cancels or faults. `EveryJobEnds` and the progress in `Lifecycle` assume in their
  statement (`OrchestratorsEnd`) that an orchestrator ends; `CancelEnds` does not.
- `WorkerLock`: running processes run on, and the server has a supervisor. A submitter that was
  killed between `submit` and `ensure_running` is not modelled.
- `Assembly`, `Milestones`, `Pipeline`, `Conversation`: a thread that has begun takes its next
  step, in which the agent, the provider or cargo answers or fails: the loops that count, nest and
  wait are the subject, and the code sets no timeout on those calls of its own. No crash or new
  launch is assumed. In `Pipeline` each server's watchdog also runs on, until it is killed.
- `Bench`: the runner runs on; its commands end because `exec` kills them after their timeout.
  Nothing is assumed of the worker, the jobs or the orchestrators.
- `RunEvents`/`FeatureRequests`, `Contract` and `JobStore` have no liveness: their properties say
  what is true whenever a step is over.

## 4. Where code and documents disagree

`store_threads` shows one: two requests to one server share `submit-<pid>.tmp`. The second
request's `fs::write` goes through the inode the first has linked as its job file; the first job is
then no longer what was accepted (`queue/job.rs:124`).

The others are stated next to the properties, without a run. Adding the formula to the
configuration named makes TLC print the behaviour.

| Formula | Where it fails | What is said, what happens |
|---|---|---|
| `JobQueue.SingleWriter` | `JobQueueSafety.cfg` | `recover_orphans` promises that no two orchestrators write one workspace (`worker.rs:111`). The pid is saved after the spawn (`worker.rs:349`): a worker that dies in between leaves an orchestrator recovery cannot know of, and the relaunch runs beside it |
| `JobQueue.SeriesContinues` | `JobQueueLive.cfg`, `LiveSpec` | `docs/tutorial.md:151` says the queue submits the next increment when one succeeds. `follow_up` runs only right after the launch (`worker.rs:184`): a crash after the success was saved ends the series |
| `Assembly.RepairsAreAboutTheCode` | `Assembly.cfg` | `workspace.rs:114` asks for uniquely named checkpoints. `integration/repair/{attempt}` names neither the escalation nor the soundness round (`synthesis.rs:371`): after an escalation the gate is answered with the repair made before it |
| `Assembly.DirectoryIsCrate` | `Assembly.cfg` | `advice.rs:30` says the working crate is kept. A refactor the gate rejects has already replaced the sources (`advice.rs:49`), and what it added stays |
| `Contract.AmbiguousIsRefused` | `Contract.cfg` | `patch.rs:145`–`149` refuses an ambiguous hunk. `str::matches` does not see places that overlap: `"}\n}"` occurs twice in `"}\n}\n}"` and is counted once |
| `Pipeline.NoServerIsLeft` | `Pipeline.cfg` | `services.rs:88`–`89` and `CHANGELOG.md:51` say a killed orchestrator leaves no server. `killpg` (and a crash between the start and the watchdog) leaves one |
| `Pipeline.WorkingCrateIsKept` | `Pipeline.cfg` | `advice.rs:30`–`31` keeps the working crate unless the gate accepts the refactored one. That gate has by then merged the refactored crate's manifest into the one on disk (`quality.rs:178`), where it stays: a crate that carries no manifest is delivered with it |
| `Bench.NoStrayLeft` | `Bench.cfg` | `runner.rs:220`–`221`: the directory must not be deleted while the orchestrator can still write to it. A worker that dies between the spawn and the save of the pid (`worker.rs:349`–`354`) leaves an orchestrator that `recover_orphans` cannot kill; the job ends without it, and the runner checks and deletes |
| `Conversation.SameProvider` | `Conversation.cfg`, `Runs <- MCTwins` | `registry.rs:393`–`396` pins a conversation to its provider. The pin is a name, which two providers of one kind share |
| `FeatureRequests.ResumedFactsAreExact` | `FeatureRequests.cfg`, `Scenarios <- MCResumed` | `skills/post-run-analyst.md:5` and `docs/observability.md:39` want the outcome as it was. A stage that was killed and resumed reads as one that failed or never ended (`analysis.rs:57`–`102`) |
| `Bench.QueueTimeIsFree` | `Bench.cfg` | `docs/benchmarking.md:110` counts the time from the job's start. `runner.rs:300` counts waiting in the queue, too |

Smaller ones, met while modelling; the models follow the code:

- Queue: a second job on one workspace may submit an increment again after a crash between
  `submit` and its marker (`SeriesInOrder` is about workspaces used once). A marker written between
  `launch_job`'s look and its save of Running is overtaken; the watch loop then ends the job.
- Events: the first event of a relaunch is lost with a line that was cut off before it; a reused
  workspace's events are not told apart by job; a crash between writing an analysis and merging it
  loses its requests (`worker.rs:271`); the attempt counter of the gate starts anew on a relaunch;
  a merge raises a request's priority, which `docs/observability.md` says it keeps.
- Synthesis: the history an estimate is taken from is read again by a relaunch
  (`synthesis.rs:1283`), so a milestone's budget may differ, though `workspace.rs:136` calls the
  replay exact; a hard milestone whose split is empty keeps the empty plan's checkpoint and is never
  asked again; equal milestone names share checkpoints and directories; a name in DEPENDS_ON that
  is no milestone's is dropped, and behind a cycle the first milestone is scheduled anyway.
- Assembly: a refactor that failed in one launch may succeed in the next, whose verdicts are then
  about the unrefactored crate (`swallowed` in `DeliveredWasJudged`); a `v2.rs` cut off by a crash
  is delivered as it is (`Torn`).
- Contract: a patch that only creates another file succeeds with the document unchanged; a removed
  line that starts with `-- ` reads as a file header; hunks match within lines; with `--max-iter 0`
  the empty contract is accepted; a contract cut off by a crash is taken as it is.
- Pipeline: a crash between saving the repaired schema and dropping the checkpoints leaves
  checkpoints, `v2.rs` and manifest of the old schema (`interrupted`, excepted by
  `MadeForThisSchema` and `DependenciesKept`); the manifest keeps the crates of a schema that was
  repaired; the exit "no readable source" does not stop the services (`main.rs:226`); a crate handed
  on to increments leaves an old `v2.rs` in place.
- Providers: any model qualifies a provider for a request, but its first model answers; transport
  errors, Ollama's 429 and the exit codes of the CLI are final; a request that is too large is retried as
  if it were rate limited; the context limit is not checked against the history.
- Benchmark: after five failed status commands a run counts as failed and its directory is deleted
  while the job may run on (excepted by `NoWriterLeft`, as is a submission whose answer was lost);
  the crate of a failed job is still checked; a check that expects nothing passes with any exit code.

## 5. Proofs

Every theorem holds for all values of the constants, from the named assumptions of the modules
alone (`QueueAssumption`, `BoundsAssumption`, `PlansAssumption`, `ClientsAssumption` and so on: types
of the constants, and what the code guarantees of its own inputs). Three theorems have a hypothesis of
their own, which says what the property is about: `SeriesIsInOrder` that workspaces are used once, and
`AcceptedStaysStored` and `StoreImplementsLifecycle` that a process accepts one submission at a time. None of the properties is inductive by itself;
what follows says what makes them so. All inductive invariants were checked with TLC first.

**`JobQueueProofs`**, for every number of jobs, resumes, increments and faults, with or without reuse of
workspaces: `TypeCorrect`, `OneOrchestrator`, `EndedIsDead`, `JobsRunInIdOrder`,
`CrashLoopIsBounded`, `CancelledIsNotRelaunched`, `JobsEndOnce`, and `ImplementsLifecycle`
(`Spec => L!ASpec`); without reuse, `SeriesIsInOrder`. `Inductive` says that the program counter agrees with the file of the job the
worker holds (`ControlMatchesFile`); a file that says running is held by the worker or will be found
by recovery (`RunningIsOwned`); the pid in the file, or the one about to be saved, is the only
tracked process of its job (`PidMatchesProcess`); every launch but the first was paid for with a
resume (`LaunchesPaid`); a marked job passes the marker check at most once more
(`CancelAccounted`); the job being launched is the lowest that has not ended (`OrderAccounted`).
For `SeriesIsInOrder`, each link of a series was made right after the success of the one before it,
and follow-up has not been, and will not be, where it is already made, since a job ends once
(`SeriesAccounted`).
The refinement goes action by action: `Submit` and `FollowSubmit` map to `ASubmit`, `SaveRunning` to
`AStart`, `RecoverSave` to `AResume` or `AEnd`, the other saves to `AEnd`; the rest stutters.

**`JobStoreProofs`**, first about `JobStore`, for any number of processes and jobs. `StoreTypeCorrect`
and `RunningFile` hold for any number of threads: the worker has read and replaces its own file only
(`WorkersFile`). `AcceptedStaysStored` and `StoreImplementsLifecycle` (`Spec => Lifecycle!ASpec`)
are about processes that run one submission at a time, as the command line does, and
not about the threads of the server, for which `store_threads` refutes the first. They rest on whose
the temporary file is (`OwnTmp`: its inode is its process's own, and no job file before it is
linked), on what each job file holds (`FilesHoldJobs`), and on ids below one that is taken being taken
(`InOrder`). `Link` maps to `ASubmit`, `SaveRunning` to `AStart`, `SaveEnd` to `AEnd`; the rest
stutters.

Then about `WorkerLock`, for any set of submitters and requests and any number of crashes:
`LockIsDisciplined` (the lock names exactly the process whose place in its code holds it, so one
process serves) and `NobodyIsStranded` (a queued job always has a process left that will look at the
queue). The second rests on the first: a submitter that finds the lock held knows that its holder
is still to look at the queue or to spawn a worker.

**`FeatureRequestsProofs`**, for any number of jobs, stages, posting threads, users, kills and decisions, and
whatever the analyst answers.
- `FeatureTypeCorrect`: also, no event was told later than the clock says (`ClockAhead`).
- `StoreIsSum`: who has loaded the list holds the lock, and the list is still what was loaded
  (`Holding`).
- `AnalysesReachTheList`: what an analysis raises is in the list or in the worker's hands
  (`OnTheWay`), and no merge or decision takes a job out of a request.
- `MergeIsUnion`: the merge of two copies of a log holds each event as often as the copy that has it
  more often. The indexes that `Merge` keeps are placed by a bijection (`Places`), and of equal events
  the last so many of the local copy are kept (`LateOccurrences`).
- `RecordIsComplete`: an event is at the server as often as it was emitted, those not counted that a
  thread is about to post, at most; the complete lines of a workspace and what went into the rest of
  a cut one make up what was emitted there, event by event (`Accounted`).
- `FactsAreTrue`: what a run that was never killed has told so far (`Story`): each stage up to the one
  it is at started once, those behind it ended and no later one did. Of a run that was killed, too
  (`FailureTold`): when it is between stages, everything was told before now, by it or by the
  launches before it, so that its failure is told last. What readers see is what was told
  (`SeenIsTold`, `SeenOnce`), in the order of time (`MergeInOrder`).

**`MilestonesProofs`**, for all plans and answers, every depth of splits, every budget, number of rounds
and of launches.
- `RelaunchesAgree`: the plan a call follows is what the checkpoints of plan and review say
  (`PlanInv`), and the three checkpoints of an iteration that converged stay, so no relaunch gets past
  that iteration (`WonInv`).
- `DependenciesAreFirst`: what a call has scheduled outside its wave is done (`Waves`); ids below
  different calls differ (`Ids`), so no step of another part of the tree touches it. That a wave is never
  empty is the well-foundedness of the naturals.
- `NothingIsDropped`: what a milestone or call hands on lies below it and is not empty once it returns
  (`Files`).
- `SiblingsAreIsolated`: everything built below a call lies in its wave, a milestone above one that
  is being built waits for its split, a directory belongs to a milestone above its user, and two that
  share one are above each other (`Nested`). The argument is about prefixes of paths (`AboveUnder`,
  `BelowOfBelow`).
- `MilestonesTypeCorrect`: also that no split is deeper than `MAX_SPLIT_DEPTH`, no milestone past its
  budget and no round past `MAX_GAP_FILL_ROUNDS`: an iteration under review is one the budget pays
  for (`Paid`).

**`AssemblyProofs`**, for any number of attempts and escalations: `TypeCorrect` (the nested loops stay in
their bounds), `OnlyPassedCodeShips`, `DirectoryIsTheCrate`. The invariant says what the launch knows
of the code it holds at each place (`HeldCodePassed`), which loop still has a round left
(`LoopsAccounted`), and what `v2.rs` stands for once written (`EmittedPassed`). Verdicts of the gate and
of checkpoints never change, so what `v2.rs` held stays true over any number of launches.
`JudgedCodeShips` and `AnswersAreRelevant` need more: that a relaunch walks the path of the one
before. The answer of a repair or a fix plan names the code that is gated next and the gate's verdict on
a code stays, so the code at each depth and attempt is a function of the code the check starts with
(`CodeAt`), a check that has been past a place left its checkpoints there (`Behind`), and it has one
result (`OneResult`). The launch holds the code of its place (`Held`); a checkpoint was asked about the
code of its place, or after the first check had ended (`Answers`); `v2.rs` was judged (`Emitted`). A
refactor that fails leaves no checkpoint, and is the one step the path does not remember: both theorems
are about behaviours without it.

**`PipelineProofs`**: `WorkIsForThisSchema` (checkpoints are dropped with every schema they were not made
for, save by the interrupted repair), `ManifestIsJudged` (a crate that passed a gate carries the manifest
that gate judged, or none; a gate that refuses one, of an answer or a refactor, may change the manifest
on disk, after which either another gate passes or `discarded` says so: `ManifestInv`), `CratesStay`,
`TypeCorrect` (no launch repairs, plans or answers more often than its budget says: `Typed`), and
`ServersAreKept`, the safety half of `ServersStop`: a server that runs while no launch is at work has its
watchdog still to stop it, or lost it with its launch.

**`ConversationProofs`**, for any fleet, budgets and number of callers: `ConversationsAreBounded` (calls
are paid for by turns, turns by the budget and its one extension: `AllBounded`) and
`ConversationsAreFaithful` (a conversation is pinned from its first turn, and its request in flight
only goes to slots of that name: `AllPinned`), and `NoSlotIsForgotten`: an exploration that passes a
slot over is charged to the thread and the slot it went to, which was not used later; the pair is not
charged again until the slot is used (`PassedIsCharged`), and there are only so many pairs.
`ConversationTypeCorrect` has that the order of last use is an order (`Ordered`), and from the same
invariant `RetriesAreBounded`: whatever errors alternate, no request overdraws one of its three retry
budgets (`Within`). Of `Contract`: `ContractTypeCorrect` (no round past `max_iter`, nothing reviewed that
was not drafted: `RoundsWithin`) and `ContractWasReviewed`. A checkpoint is written once, so the draft that a review was about is the one
still there when it is delivered (`Checkpointed`). `HunksApplyAsMeant` is about diffs and texts of any
length: applied to the contract in hand, the hunks of a reply make the text that the diff means, each
block replaced in its own place, or are refused. Hunks whose old block overlaps itself are the
exception (`AmbiguousIsRefused`, section 4). It rests on `HunksMeanOneText`, about the operators of
`Patch`:
- a fold over the hunks is unfolded into the texts after each of them (`Computes`), by an induction over
  a set of numbers (`AllOfNat`), the form of induction that needs no predicate as a parameter;
- by induction over the hunks, the text after `k` of them is the text with the first `k` blocks replaced
  at once (`Rewritten` with `First(place, k)`): one hunk more replaces one block between the same lines
  before and the same rest behind it (`OneMore`, `TwoTexts`);
- a block that does not overlap a copy of itself and is in its place is replaced there and nowhere
  else, or refused because `str::matches` counts it twice (`CloseOverlap`, `HunkInPlace`);
- the contract in hand and the drafts are texts throughout (`TextsOnly`).

**`BenchProofs`**, for any number of repeats, any time budget and any tasks: `TypeCorrect`, `VerdictIsRight`
(`RunChecks`, the code's order of checks, agrees with `Accepts`, what the task asks for), `NobodyWrites`
and `OutcomeIsRight`. The invariant ties each record to the job it is about (`Jobs`, `Written`, `Pending`)
and says that an orchestrator the worker or the job file knows of is of a job that runs (`Launches`).
`NobodyWrites` is about those: a stray, which nobody knows of, does write on (`NoStrayLeft`, section 4).

Only model-checked: liveness and the progress half of the refinement, which are out of the prover's
reach. Every safety property of a passing run is the subject of a theorem, and so is every type
invariant.

## 6. Not modelled, and why

- Pure I/O and formatting: HTTP framing, archives, log tails, views, MCP translation, prompts, the
  wire formats of the providers, cargo itself.
- The path of `synthesis.rs` that cuts one large source into chunks and reduces them, with
  `gate_usize`: it has the same checkpoints and the same dual review as a milestone, and no loop of
  its own.
- The server's access rules: read-only tokens and uploads keep no state between two requests.
- The benchmark's comparison of two results and its metrics: arithmetic on the records.
- Reused pids (`killpg` after a reboot), listings that are not atomic, two work directories in one
  nanosecond, submitters that die between `submit` and `ensure_running`, two benchmarks with one
  label, the file errors of logs and accounts: faults the code has no answer to; a property about them
  would restate the fault.
- The editor extension, the plugin and the skills: a launcher and prompts.

## 7. What is left

1. The chunk path of `synthesis.rs`, and the fan-out of variants, which lose each other's
   dependencies when they are merged.
2. One composed model of `JobQueue` with `Pipeline` in place of the orchestrator's three steps.
