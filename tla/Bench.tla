------------------------------- MODULE Bench --------------------------------
(***************************************************************************)
(* The benchmark's runner (bench/src/runner.rs): repeated runs of a task,  *)
(* each submitted to the queue, watched until it ends or its time budget   *)
(* is used up, collected, checked (module Acceptance) and cleared away; or *)
(* run directly as a child process.                                        *)
(*                                                                         *)
(* Abstractions: time is the number of polls; a command of the queue       *)
(* succeeds, or fails with or without its effect (its timeout is one such  *)
(* failure); of the worker, modelled by JobQueue, only what the runner     *)
(* can meet is here, for one user's jobs; --keep is left out.              *)
(***************************************************************************)
EXTENDS Naturals, Acceptance

CONSTANTS
  Tasks,         \* the task directories
  Crates,        \* the crates a run may deliver
  Repeats,       \* opts.repeat
  Budget,        \* spec.time_budget_secs, in polls
  StatusErrors,  \* status errors in a row that end the watch (5)
  AwaitPolls     \* the minute await_stopped waits, in polls

ASSUME BenchAssumption ==
  /\ Repeats \in Nat /\ Budget \in Nat /\ AwaitPolls \in Nat /\ StatusErrors \in Nat \ {0}
  /\ Tasks \subseteq Task /\ Crates \subseteq Crate

Run == 1..Repeats
Terminal == {"succeeded", "failed", "cancelled"}
JobState == {"none", "queued", "running"} \cup Terminal

VARIABLES
  mode,       \* whether it runs the orchestrator itself or goes through the queue
  run, pc,    \* the runner: which repeat, and where in it
  elapsed, seen,  \* polls since the reference instant, and whether that is the first "running"
  errors, waits,  \* status errors in a row, polls of await_stopped
  outcome, timedOut,
  verdict,    \* of this run: whether it passed, the failed checks, and (history) whether a
              \* crate was checked that is what its task asks for
  record,     \* record[r]: outcome and verdict of a run, once it has them
  dir,        \* work directories
  job, cancel,    \* the queue's files: states, and requests to cancel
  worker, launching,  \* whether a worker serves, and the job it is about to start
  unsaved,    \* the run whose orchestrator was spawned and whose pid is not saved yet
  orch,       \* runs with a living orchestrator the worker or the job file knows of
  strays,     \* runs with a living one that neither knows any more
  crates,     \* runs whose workspace has a crate's manifest
  unwatched,  \* runs the runner stopped asking about before they ended (history)
  raced       \* runs cancelled between the worker's look and its start (history)

Locals == <<elapsed, seen, errors, waits>>
records == <<record, verdict>>
runner == <<run, pc, Locals, outcome, timedOut, records, dir>>
started == <<launching, unsaved, strays>>
queue == <<job, cancel, worker, started, orch, crates>>
history == <<unwatched, raced>>
vars == <<mode, runner, queue, history>>

Blank == [outcome |-> "none", passed |-> FALSE]
NoVerdict == [passed |-> FALSE, failed |-> {}, accepted |-> FALSE]

\* Every variable has its type, and no counter goes past its bound.
TypeOK ==
  /\ mode \in {"direct", "queue"}
  /\ run \in 1..(Repeats + 1) /\ elapsed \in 0..Budget /\ seen \in BOOLEAN
  /\ pc \in {"setup", "submit", "direct", "watch", "cancel", "await", "collect", "check", "clear", "done"}
  /\ errors \in 0..StatusErrors /\ waits \in 0..AwaitPolls
  /\ outcome \in Terminal \cup {"none", "timeout"} /\ timedOut \in BOOLEAN
  /\ record \in [Run -> [outcome : Terminal \cup {"none", "timeout"}, passed : BOOLEAN]]
  /\ verdict \in [passed : BOOLEAN,
       failed : SUBSET (Checks \cup Tests \cup
                  {"setup", "build", "binary", "cargo_tests", "timeout", "no-crate"}),
       accepted : BOOLEAN]
  /\ dir \subseteq Run /\ job \in [Run -> JobState] /\ cancel \subseteq Run
  /\ worker \in BOOLEAN /\ launching \subseteq Run /\ unsaved \subseteq Run
  /\ orch \subseteq Run /\ strays \subseteq Run /\ crates \subseteq Run
  /\ unwatched \subseteq Run /\ raced \subseteq Run

Init ==
  /\ mode \in {"direct", "queue"}
  /\ run = 1 /\ pc = IF Repeats = 0 THEN "done" ELSE "setup"
  /\ elapsed = 0 /\ seen = FALSE /\ errors = 0 /\ waits = 0 /\ outcome = "none" /\ timedOut = FALSE
  /\ record = [r \in Run |-> Blank] /\ verdict = NoVerdict /\ dir = {}
  /\ job = [r \in Run |-> "none"] /\ cancel = {} /\ worker \in BOOLEAN /\ launching = {}
  /\ unsaved = {} /\ orch = {} /\ strays = {} /\ crates = {} /\ unwatched = {} /\ raced = {}

-----------------------------------------------------------------------------
(* The runner: run_all and run_one. *)

SetUp ==
  /\ pc = "setup" /\ dir' = dir \cup {run}
  /\ pc' = IF mode = "direct" THEN "direct" ELSE "submit"
  /\ orch' = IF mode = "direct" THEN orch \cup {run} ELSE orch
  /\ UNCHANGED <<mode, run, Locals, outcome, timedOut, records, job, cancel, worker, started, crates, history>>

\* setup fails: a record of its own, and no directory is cleared.
SetUpFails ==
  /\ pc = "setup" /\ record' = [record EXCEPT ![run].outcome = "failed"]
  /\ run' = run + 1 /\ pc' = IF run = Repeats THEN "done" ELSE "setup"
  /\ UNCHANGED <<mode, Locals, outcome, timedOut, verdict, dir, queue, history>>

\* run_queue returns, its locals with it.
Forget == elapsed' = 0 /\ seen' = FALSE /\ errors' = 0 /\ waits' = 0
Ended(o) == outcome' = o /\ pc' = "collect" /\ Forget

\* exec of the orchestrator: it exits, or is killed with its group when the budget is used up.
RunDirect ==
  /\ pc = "direct" /\ orch' = orch \ {run}
  /\ \E o \in {"succeeded", "failed", "timeout"} : Ended(o) /\ timedOut' = (o = "timeout")
  /\ crates' \in {crates, crates \cup {run}}
  /\ UNCHANGED <<mode, run, records, dir, job, cancel, worker, started, history>>

\* Nothing to check: the verdict says why.
NotChecked(reason) == pc' = "clear" /\ verdict' = [verdict EXCEPT !.failed = {reason}]

\* A job comes to be with the submission's answer, or without one.
Submit ==
  /\ pc = "submit"
  /\ \/ job' = [job EXCEPT ![run] = "queued"] /\ pc' = "watch"
        /\ UNCHANGED <<outcome, verdict, unwatched>>
     \/ /\ outcome' = "failed" /\ NotChecked("no-crate")
        /\ \/ UNCHANGED <<job, unwatched>>
           \/ job' = [job EXCEPT ![run] = "queued"] /\ unwatched' = unwatched \cup {run}
  /\ UNCHANGED <<mode, run, Locals, timedOut, record, dir, cancel, worker,
                 started, orch, crates, raced>>

-----------------------------------------------------------------------------
(* run_queue: the watch. *)

\* effective_state: a queued job with a request to cancel is shown as cancelled.
Shown(r) == IF job[r] = "queued" /\ r \in cancel THEN "cancelled" ELSE job[r]

\* The budget is looked at after each poll, and the runner sleeps if it is not used up.
Sleep(e) ==
  \/ e >= Budget /\ pc' = "cancel" /\ elapsed' = e
  \/ e < Budget /\ elapsed' = e + 1 /\ UNCHANGED pc

SeeEnded ==
  /\ pc = "watch" /\ Shown(run) \in Terminal /\ Ended(Shown(run))
  /\ UNCHANGED <<mode, run, timedOut, records, dir, queue, history>>

\* The first poll that sees the job running starts the clock again.
SeeRunning ==
  /\ pc = "watch" /\ Shown(run) = "running" /\ seen' = TRUE /\ errors' = 0
  /\ Sleep(IF seen THEN elapsed ELSE 0)
  /\ UNCHANGED <<mode, run, waits, outcome, timedOut, records, dir, queue, history>>

\* The job waits in the queue, for the first time or again: the clock that runs goes on.
SeeWaiting ==
  /\ pc = "watch" /\ Shown(run) = "queued" /\ errors' = 0 /\ Sleep(elapsed)
  /\ UNCHANGED <<mode, run, seen, waits, outcome, timedOut, records, dir, queue, history>>

StatusFails ==
  /\ pc = "watch"
  /\ \/ errors + 1 >= StatusErrors /\ Ended("failed") /\ unwatched' = unwatched \cup {run}
     \/ /\ errors + 1 < StatusErrors /\ errors' = errors + 1 /\ Sleep(elapsed)
        /\ UNCHANGED <<seen, waits, outcome, unwatched>>
  /\ UNCHANGED <<mode, run, timedOut, records, dir, queue, raced>>

\* request_cancel refuses a job that has ended.
RequestCancel(r) ==
  /\ Shown(r) \in {"queued", "running"} /\ cancel' = cancel \cup {r}
  /\ raced' = IF job[r] = "queued" /\ r \in launching THEN raced \cup {r} ELSE raced

\* Mutant: the runner does not wait for the job to stop.
CancelJob_NoAwait ==
  /\ pc = "cancel" /\ Ended("timeout") /\ timedOut' = TRUE
  /\ RequestCancel(run) \/ UNCHANGED <<cancel, raced>>
  /\ UNCHANGED <<mode, run, records, dir, job, worker, started, orch, crates, unwatched>>

\* Mutant: the runner repeats its request until the queue takes it.
CancelJob_Insists ==
  /\ pc = "cancel" /\ RequestCancel(run) /\ pc' = "await" /\ timedOut' = TRUE
  /\ UNCHANGED <<mode, run, Locals, outcome, records, dir, job, worker, started,
                 orch, crates, unwatched>>

\* The runner waits whatever the answer to its request is.
CancelJob ==
  /\ pc = "cancel" /\ pc' = "await" /\ timedOut' = TRUE
  /\ RequestCancel(run) \/ UNCHANGED <<cancel, raced>>
  /\ UNCHANGED <<mode, run, Locals, outcome, records, dir, job, worker, started,
                 orch, crates, unwatched>>

\* await_stopped: until the job has ended, for a minute at most, or until an error.
SeeStopped ==
  /\ pc = "await" /\ Shown(run) \in Terminal /\ Ended("timeout")
  /\ UNCHANGED <<mode, run, timedOut, records, dir, queue, history>>

SeeNotStopped ==
  /\ pc = "await" /\ waits < AwaitPolls /\ waits' = waits + 1
  /\ UNCHANGED <<mode, run, pc, elapsed, seen, errors, outcome, timedOut, records, dir, queue, history>>

StopWaiting ==
  /\ pc = "await" /\ Ended("timeout") /\ unwatched' = unwatched \cup {run}
  /\ UNCHANGED <<mode, run, timedOut, records, dir, queue, raced>>

-----------------------------------------------------------------------------
(* The end of run_one. *)

\* Mutant: what a run that timed out left behind is checked too.
Collect_Always ==
  /\ pc = "collect"
  /\ \/ run \in crates /\ pc' = "check" /\ UNCHANGED verdict
     \/ (run \notin crates \/ mode = "queue") /\ NotChecked("no-crate")
  /\ UNCHANGED <<mode, run, Locals, outcome, timedOut, record, dir, queue, history>>

\* The crate is the workspace's; where the queue is behind a server, which shows only here, it
\* is fetched, which may fail.  A run that timed out is not checked.
Collect ==
  /\ pc = "collect"
  /\ \/ run \in crates /\ ~timedOut /\ pc' = "check" /\ UNCHANGED verdict
     \/ run \in crates /\ timedOut /\ NotChecked("timeout")
     \/ (run \notin crates \/ mode = "queue") /\ NotChecked("no-crate")
  /\ UNCHANGED <<mode, run, Locals, outcome, timedOut, record, dir, queue, history>>

\* The task, which loaded before the first run, matters only here.
Check ==
  /\ pc = "check" /\ pc' = "clear"
  /\ \E task \in {t \in Tasks : LoadOne(t)}, crate \in Crates :
       \E outcomes \in {RunChecks(task, crate), NoCopy} :
         verdict' = [passed |-> outcomes # {} /\ FailedOf(outcomes) = {},
                     failed |-> FailedOf(outcomes), accepted |-> Accepts(task, crate)]
  /\ UNCHANGED <<mode, run, Locals, outcome, timedOut, record, dir, queue, history>>

\* The directory goes, and the record is written.
Clear ==
  /\ pc = "clear" /\ record' = [record EXCEPT ![run] = [outcome |-> outcome, passed |-> verdict.passed]]
  /\ dir' = dir \ {run} /\ outcome' = "none" /\ timedOut' = FALSE /\ verdict' = NoVerdict
  /\ run' = run + 1 /\ pc' = IF run = Repeats THEN "done" ELSE "setup"
  /\ UNCHANGED <<mode, Locals, queue, history>>

Runner ==
  \/ SetUp \/ SetUpFails \/ RunDirect \/ Submit
  \/ SeeEnded \/ SeeRunning \/ SeeWaiting \/ StatusFails
  \/ CancelJob \/ SeeStopped \/ SeeNotStopped \/ StopWaiting
  \/ Collect \/ Check \/ Clear

-----------------------------------------------------------------------------
(* The worker and the orchestrator, as the runner meets them. *)

Idle == launching = {} /\ \A r \in Run : job[r] # "running"

\* The worker looks for a job nobody cancelled, ...
Pick(r) ==
  /\ worker /\ Idle /\ job[r] = "queued" /\ r \notin cancel
  /\ \A s \in 1..(r - 1) : job[s] # "queued" \/ s \in cancel
  /\ launching' = {r}
  /\ UNCHANGED <<mode, runner, job, cancel, worker, unsaved, strays, orch, crates, history>>

\* ... marks it running, ...
Claim(r) ==
  /\ r \in launching /\ job[r] = "queued" /\ job' = [job EXCEPT ![r] = "running"]
  /\ UNCHANGED <<mode, runner, cancel, worker, started, orch, crates, history>>

\* ... and starts its orchestrator, which writes a manifest first, or fails before that; ...
Spawn(r) ==
  /\ r \in launching /\ job[r] = "running"
  /\ launching' = {} /\ unsaved' = {r} /\ orch' = orch \cup {r}
  /\ crates' \in {crates, crates \cup {r}}
  /\ UNCHANGED <<mode, runner, job, cancel, worker, strays, history>>

\* ... only then its pid goes into the job file.
SavePid(r) ==
  /\ r \in unsaved /\ unsaved' = {}
  /\ UNCHANGED <<mode, runner, job, cancel, worker, launching, strays, orch, crates, history>>

\* There is no binary, or it can not be started.
LaunchFails(r) ==
  /\ r \in launching /\ launching' = {} /\ job' = [job EXCEPT ![r] = "failed"]
  /\ UNCHANGED <<mode, runner, cancel, worker, unsaved, strays, orch, crates, history>>

Exit(r) ==
  /\ mode # "direct"
  /\ \/ r \in orch /\ orch' = orch \ {r} /\ UNCHANGED strays
     \/ r \in strays /\ strays' = strays \ {r} /\ UNCHANGED orch
  /\ UNCHANGED <<mode, runner, job, cancel, worker, launching, unsaved, crates, history>>

\* The worker records the exit; or it finds the request, kills the group and records that.
Finish(r) ==
  /\ worker /\ job[r] = "running" /\ r \notin launching \cup unsaved
  /\ \/ r \notin orch /\ \E s \in {"succeeded", "failed"} : job' = [job EXCEPT ![r] = s]
     \/ r \in cancel /\ job' = [job EXCEPT ![r] = "cancelled"]
  /\ orch' = orch \ {r}
  /\ UNCHANGED <<mode, runner, cancel, worker, started, crates, history>>

\* With the worker goes what it knew of an orchestrator whose pid is not in the job file.
WorkerDies ==
  /\ worker /\ worker' = FALSE /\ launching' = {} /\ unsaved' = {}
  /\ orch' = orch \ unsaved /\ strays' = strays \cup (orch \cap unsaved)
  /\ UNCHANGED <<mode, runner, job, cancel, crates, history>>

\* A new worker kills what the job file of a running job knows of, and queues the job again or
\* gives it up; a stray goes on.
WorkerStarts ==
  /\ ~worker /\ worker' = TRUE /\ mode # "direct" /\ orch' = {}
  /\ \E s \in {"queued", "failed"} :
       job' = [r \in Run |-> IF job[r] = "running" THEN s ELSE job[r]]
  /\ UNCHANGED <<mode, runner, cancel, started, crates, history>>

\* Somebody else cancels the job.
UserCancels(r) ==
  /\ RequestCancel(r)
  /\ UNCHANGED <<mode, runner, job, worker, started, orch, crates, unwatched>>

Queue ==
  \/ \E r \in Run : UserCancels(r)
  \/ \E r \in Run : Pick(r) \/ Claim(r) \/ Spawn(r) \/ SavePid(r) \/ LaunchFails(r)
  \/ \E r \in Run : Exit(r) \/ Finish(r)
  \/ WorkerDies \/ WorkerStarts

Next == Runner \/ Queue

Spec == Init /\ [][Next]_vars

\* The runner goes on, and its commands return (exec kills them after their timeout).  Nothing
\* is assumed of the worker, or that any job ends.
FairSpec == Spec /\ WF_vars(Runner)

-----------------------------------------------------------------------------
(* Properties. *)

\* "the work directory must not be deleted while the orchestrator can still write to it": nor
\* is the crate checked, while an orchestrator of that run lives which the worker or the job
\* file knows of, a relaunched one included; unless the runner had stopped asking about the job
\* (a lost submission, too many status errors, a minute's wait), or it was cancelled just as
\* the worker started it.  Not covered are strays: see NoStrayLeft.
NoWriterLeft ==
  \A r \in orch \ (unwatched \cup raced) :
    r \in dir /\ (pc = "check" => run # r)

\* The same of every orchestrator.  The code does not keep it: recover_orphans can not kill one
\* whose pid a dead worker had not saved, and the runner sees the job end without it.
NoStrayLeft ==
  \A r \in strays \ (unwatched \cup raced) :
    r \in dir /\ (pc = "check" => run # r)

\* A run is recorded as the job's own end, as its timeout, as cancelled at somebody's request,
\* or as failed because its end was never seen; a run that passed is none that timed out.
OutcomeIsTheJobs ==
  \A r \in Run :
    LET o == record[r].outcome IN
    /\ mode # "direct" /\ o \in Terminal =>
         \/ o = job[r]
         \/ o = "cancelled" /\ r \in cancel
         \/ o = "failed" /\ (r \in unwatched \/ job[r] = "none")
    /\ o = "timeout" => ~record[r].passed

\* "passed the task's acceptance checks": a run passes only with a crate that does all its task
\* asks for, however it was built, run and tested; and one that does not pass says which check
\* failed, or that there was nothing to check.
VerdictIsTheCrates ==
  pc = "clear" =>
    /\ verdict.passed => verdict.accepted
    /\ ~verdict.passed <=> verdict.failed # {}

\* "waiting behind other jobs does not use it up": a run whose job was never seen running is
\* not recorded as a timeout.
QueueTimeIsFree == pc = "cancel" => seen

\* The benchmark ends, even if no job ever does, no worker serves and every command fails.
EveryRunEnds == <>(pc = "done")
=============================================================================
