------------------------------ MODULE JobQueue ------------------------------
(***************************************************************************)
(* The durable job queue of job-queue/src: job files and cancel markers    *)
(* (job.rs), the single worker that launches, watches, cancels and         *)
(* recovers orchestrators (worker.rs), and the follow-up that submits the  *)
(* increments of a mission that was too big (worker/chain.rs).             *)
(*                                                                         *)
(* The worker and the machine may crash between any two durable writes;    *)
(* an orchestrator is a process group of its own and survives the worker.  *)
(* Process ids are abstracted to the number of the launch that made them.  *)
(***************************************************************************)
EXTENDS Integers, FiniteSets

CONSTANTS
  MaxJobs,        \* bound: job ids of the instance
  MaxUserJobs,    \* bound: ids users may take; the others are left to follow-ups
  MaxResumes,     \* MAX_RESUMES of worker.rs
  MaxIncrements,  \* increments a split mission may have
  MaxFaults,      \* bound: crashes, reboots and I/O errors in a behaviour
  ReuseWorkspace  \* TRUE: users may submit a job on a workspace used before

ASSUME QueueAssumption ==
  /\ MaxJobs \in Nat \ {0} /\ MaxResumes \in Nat /\ MaxUserJobs \in Nat
  /\ MaxIncrements \in Nat \ {0, 1} /\ MaxFaults \in Nat
  /\ ReuseWorkspace \in BOOLEAN

VARIABLES
  \* durable: the queue directory and the workspaces
  state, resumes, pid, ws,  \* the fields of job j's NNNN.json that decide behaviour
  cancel,     \* ids with a .cancel marker
  handoff,    \* handoff[w]: increments in artifacts/increments.json of workspace w, 0 if no file
  chain,      \* chain[w]: chain.json of workspace w
  submitted,  \* workspaces holding follow_up.submitted
  \* processes
  live,       \* live[j]: launch numbers of j's orchestrators still alive
  asking,     \* cancel requests between their check and their write
  \* the worker's memory
  pc, current, child, exit, todo, failed,
  \* history: what no process can read
  launches,   \* launches[j]: orchestrators ever spawned for j
  atCancel,   \* launches[j] when j's marker was first written
  lost,       \* lost[j]: launches whose pid was never written to j's file
  faults

job     == <<state, resumes, pid, ws>>   \* one file: a save writes its fields together
files   == <<job, cancel, handoff, chain, submitted>>
memory  == <<pc, current, child, exit, todo, failed>>
history == <<launches, atCancel, lost, faults>>
vars    == <<files, live, asking, memory, history>>

JobId     == 1..MaxJobs
Workspace == JobId      \* a workspace is named by the first job submitted on it
NoPid     == 0
NoChain   == [root |-> 0, index |-> 0, total |-> 0]
Terminal  == {"succeeded", "failed", "cancelled"}
State     == {"absent", "queued", "running"} \cup Terminal

PC == {"down",       \* no process holds worker.lock
       "recover",    \* recover_orphans: next interrupted job
       "requeue",    \* its orchestrator was killed, its file not yet saved
       "poll",       \* next_queued
       "launch",     \* launch_job, before it looks for the marker
       "start",      \* before the Running state is saved
       "spawn",      \* Running is saved, no process yet
       "record",     \* process spawned, pid not yet saved
       "watch",      \* the loop: try_wait
       "peek",       \* the loop: the child was alive, look for the marker
       "term",       \* terminate: signal the process group and wait for it
       "analyze",    \* analyze_job
       "follow",     \* chain::follow_up
       "mark"}       \* next increment submitted, marker not yet written

JobTypes     == /\ state \in [JobId -> State] /\ resumes \in [JobId -> 0..MaxResumes]
                /\ pid \in [JobId -> Nat] /\ ws \in [JobId -> Workspace]
Link         == [root : 0..MaxJobs, index : Nat, total : Nat]
SeriesTypes  == /\ handoff \in [Workspace -> 0..MaxIncrements] /\ chain \in [Workspace -> Link]
                /\ submitted \subseteq Workspace
MarkerTypes  == cancel \subseteq JobId /\ asking \subseteq JobId
ProcessTypes == live \in [JobId -> SUBSET (Nat \ {0})] /\ lost \in [JobId -> SUBSET Nat]
WorkerTypes  == /\ pc \in PC /\ current \in JobId /\ child \in Nat
                /\ exit \in {"alive", "ok", "bad"} /\ todo \subseteq JobId /\ failed \in BOOLEAN
CountTypes   == /\ launches \in [JobId -> Nat] /\ atCancel \in [JobId -> Nat]
                /\ faults \in 0..MaxFaults

TypeOK == JobTypes /\ SeriesTypes /\ MarkerTypes /\ ProcessTypes /\ WorkerTypes /\ CountTypes

Init ==
  /\ state = [j \in JobId |-> "absent"] /\ resumes = [j \in JobId |-> 0]
  /\ pid = [j \in JobId |-> NoPid] /\ ws = [j \in JobId |-> j]
  /\ cancel = {} /\ asking = {} /\ submitted = {}
  /\ handoff = [w \in Workspace |-> 0] /\ chain = [w \in Workspace |-> NoChain]
  /\ live = [j \in JobId |-> {}] /\ lost = [j \in JobId |-> {}]
  /\ pc = "down" /\ current = 1 /\ child = NoPid /\ exit = "alive"
  /\ todo = {} /\ failed = FALSE
  /\ launches = [j \in JobId |-> 0] /\ atCancel = [j \in JobId |-> 0]
  /\ faults = 0

-----------------------------------------------------------------------------
(* Reading the queue. *)

InState(s) == {j \in JobId : state[j] = s}
Least(S, j) == j \in S /\ \A i \in S : j <= i

EffectiveState(j) ==
  IF state[j] = "queued" /\ j \in cancel THEN "cancelled" ELSE state[j]

SetState(j, s) == state' = [state EXCEPT ![j] = s] /\ UNCHANGED <<resumes, pid, ws>>

\* The process holding the lock ends; what it knew is gone.
WorkerGone == /\ pc' = "down" /\ current' = 1 /\ child' = NoPid /\ exit' = "alive"
              /\ todo' = {} /\ failed' = FALSE

\* Once finish has saved the job the worker goes on to analyze_job.
Finish(s) == SetState(current, s) /\ pc' = "analyze"

-----------------------------------------------------------------------------
(* Clients: the CLI, the HTTP handlers, the MCP server. *)

\* A new file under an id no file had: queued, never resumed, no pid.
NewJob(j, w) ==
  /\ state' = [state EXCEPT ![j] = "queued"] /\ ws' = [ws EXCEPT ![j] = w]
  /\ UNCHANGED <<resumes, pid>>

Submit(j) ==
  /\ j <= MaxUserJobs
  /\ Least(InState("absent"), j)
  /\ \E w \in {j} \cup (IF ReuseWorkspace THEN {ws[i] : i \in 1..(j - 1)} ELSE {}) :
       NewJob(j, w)
  /\ UNCHANGED <<cancel, handoff, chain, submitted, live, asking, memory, history>>

\* request_cancel reads the job and refuses one that has ended ...
AskCancel(j) ==
  /\ j \notin asking
  /\ EffectiveState(j) = "queued" \/ state[j] = "running"
  /\ asking' = asking \cup {j}
  /\ UNCHANGED <<files, live, memory, history>>

\* ... and only then writes the marker, whatever became of the job meanwhile.
WriteCancel(j) ==
  /\ j \in asking
  /\ asking' = asking \ {j} /\ cancel' = cancel \cup {j}
  /\ atCancel' = IF j \in cancel THEN atCancel ELSE [atCancel EXCEPT ![j] = launches[j]]
  /\ UNCHANGED <<job, handoff, chain, submitted, live, memory, launches, lost, faults>>

-----------------------------------------------------------------------------
(* The orchestrator, as far as the queue depends on it. *)

\* A mission whose schema is over budget is split.  The plan is checkpointed, so a later run on
\* the same workspace writes the same file; an increment fails rather than split again.
Split(j) ==
  /\ live[j] # {}
  /\ LET w == ws[j] IN
       /\ handoff[w] = 0 /\ chain[w] = NoChain
       /\ \E n \in 2..MaxIncrements : handoff' = [handoff EXCEPT ![w] = n]
  /\ UNCHANGED <<job, cancel, chain, submitted, live, asking, memory, history>>

OrchestratorExit(j, p) ==
  /\ p \in live[j]
  /\ live' = [live EXCEPT ![j] = @ \ {p}]
  /\ IF j = current /\ p = child /\ exit = "alive" THEN exit' \in {"ok", "bad"} ELSE UNCHANGED exit
  /\ UNCHANGED <<files, asking, pc, current, child, todo, failed, history>>

-----------------------------------------------------------------------------
(* The worker. *)

\* Mutant: serve polls without recovering first.
WorkerStart_NoRecovery ==
  /\ pc = "down"
  /\ pc' = "recover" /\ todo' = {}
  /\ UNCHANGED <<files, live, asking, current, child, exit, failed, history>>

\* A new holder of the lock enters serve, which first lists the interrupted jobs.
WorkerStart ==
  /\ pc = "down"
  /\ pc' = "recover" /\ todo' = InState("running")
  /\ UNCHANGED <<files, live, asking, current, child, exit, failed, history>>

\* Mutant: the interrupted job is requeued without killing its orchestrator.
RecoverKill_NoKill ==
  /\ pc = "recover"
  /\ \E j \in JobId : Least(todo, j) /\ current' = j
  /\ pc' = "requeue"
  /\ UNCHANGED <<files, live, asking, child, exit, todo, failed, history>>

RecoverKill ==
  /\ pc = "recover"
  /\ \E j \in JobId :
       /\ Least(todo, j)
       /\ current' = j
       /\ live' = [live EXCEPT ![j] = @ \ {pid[j]}]
  /\ pc' = "requeue"
  /\ UNCHANGED <<files, asking, child, exit, todo, failed, history>>

\* Mutant: the cap is tested with > instead of >=.
RecoverSave_OneMore ==
  /\ pc = "requeue"
  /\ IF resumes[current] > MaxResumes
       THEN SetState(current, "failed")
       ELSE /\ state' = [state EXCEPT ![current] = "queued"]
            /\ pid' = [pid EXCEPT ![current] = NoPid]
            /\ resumes' = [resumes EXCEPT ![current] = @ + 1]
            /\ UNCHANGED ws
  /\ pc' = "recover" /\ todo' = todo \ {current}
  /\ UNCHANGED <<cancel, handoff, chain, submitted, live, asking, current, child, exit, failed, history>>

\* Mutant: the resume is not counted.
RecoverSave_NoCount ==
  /\ pc = "requeue"
  /\ IF resumes[current] >= MaxResumes
       THEN SetState(current, "failed")
       ELSE /\ state' = [state EXCEPT ![current] = "queued"]
            /\ pid' = [pid EXCEPT ![current] = NoPid]
            /\ UNCHANGED <<resumes, ws>>
  /\ pc' = "recover" /\ todo' = todo \ {current}
  /\ UNCHANGED <<cancel, handoff, chain, submitted, live, asking, current, child, exit, failed, history>>

RecoverSave ==
  /\ pc = "requeue"
  /\ IF resumes[current] >= MaxResumes
       THEN SetState(current, "failed")
       ELSE /\ state' = [state EXCEPT ![current] = "queued"]
            /\ pid' = [pid EXCEPT ![current] = NoPid]
            /\ resumes' = [resumes EXCEPT ![current] = @ + 1]
            /\ UNCHANGED ws
  /\ pc' = "recover" /\ todo' = todo \ {current}
  /\ UNCHANGED <<cancel, handoff, chain, submitted, live, asking, current, child, exit, failed, history>>

RecoverDone ==
  /\ pc = "recover" /\ todo = {}
  /\ pc' = "poll"
  /\ UNCHANGED <<files, live, asking, current, child, exit, todo, failed, history>>

NextQueued ==
  /\ pc = "poll"
  /\ \E j \in JobId : Least(InState("queued"), j) /\ current' = j
  /\ pc' = "launch"
  /\ UNCHANGED <<files, live, asking, child, exit, todo, failed, history>>

\* A local worker with nothing to do gives the lock back.
IdleExit ==
  /\ pc = "poll" /\ InState("queued") = {}
  /\ WorkerGone
  /\ UNCHANGED <<files, live, asking, history>>

\* Mutant: a job is launched without looking for a marker.
LaunchCheck_NoMarker ==
  /\ pc = "launch"
  /\ pc' = "start"
  /\ UNCHANGED <<files, live, asking, current, child, exit, todo, failed, history>>

LaunchCheck ==
  /\ pc = "launch"
  /\ IF current \in cancel THEN Finish("cancelled") ELSE pc' = "start" /\ UNCHANGED job
  /\ UNCHANGED <<cancel, handoff, chain, submitted, live, asking, current, child, exit, todo, failed, history>>

\* The orchestrator binary is not found, or cannot be spawned.
LaunchFails ==
  /\ pc \in {"start", "spawn"}
  /\ Finish("failed")
  /\ UNCHANGED <<cancel, handoff, chain, submitted, live, asking, current, child, exit, todo, failed, history>>

SaveRunning ==
  /\ pc = "start"
  /\ SetState(current, "running") /\ pc' = "spawn"
  /\ UNCHANGED <<cancel, handoff, chain, submitted, live, asking, current, child, exit, todo, failed, history>>

Spawn ==
  /\ pc = "spawn"
  /\ LET p == launches[current] + 1 IN
       /\ launches' = [launches EXCEPT ![current] = p]
       /\ live' = [live EXCEPT ![current] = @ \cup {p}]
       /\ child' = p
  /\ exit' = "alive" /\ pc' = "record"
  /\ UNCHANGED <<files, asking, current, todo, failed, atCancel, lost, faults>>

SavePid ==
  /\ pc = "record"
  /\ pid' = [pid EXCEPT ![current] = child] /\ pc' = "watch"
  /\ UNCHANGED <<state, resumes, ws, cancel, handoff, chain, submitted, live, asking, current, child, exit, todo, failed, history>>

Reap ==
  /\ pc = "watch" /\ exit # "alive"
  /\ Finish(IF exit = "ok" THEN "succeeded" ELSE "failed")
  /\ UNCHANGED <<cancel, handoff, chain, submitted, live, asking, current, child, exit, todo, failed, history>>

StillRunning ==
  /\ pc = "watch" /\ exit = "alive"
  /\ pc' = "peek"
  /\ UNCHANGED <<files, live, asking, current, child, exit, todo, failed, history>>

\* Mutant: the watch loop only waits.
PeekCancel_Never ==
  /\ pc = "peek"
  /\ pc' = "watch"
  /\ UNCHANGED <<files, live, asking, current, child, exit, todo, failed, history>>

PeekCancel ==
  /\ pc = "peek"
  /\ pc' = IF current \in cancel THEN "term" ELSE "watch"
  /\ UNCHANGED <<files, live, asking, current, child, exit, todo, failed, history>>

\* SIGTERM, SIGKILL after the grace period, and a wait: the child is gone when terminate returns,
\* and the end is saved.  (A crash in between leaves what OrchestratorExit and a crash leave.)
Terminate ==
  /\ pc = "term"
  /\ live' = [live EXCEPT ![current] = @ \ {child}]
  /\ exit' = IF exit = "alive" THEN "bad" ELSE exit
  /\ Finish("cancelled")
  /\ UNCHANGED <<cancel, handoff, chain, submitted, asking, current, child, todo, failed, history>>

\* The analysis reads events and writes its own files; it never touches a job.
Analyze ==
  /\ pc = "analyze"
  /\ pc' = "follow"
  /\ UNCHANGED <<files, live, asking, current, child, exit, todo, failed, history>>

-----------------------------------------------------------------------------
(* chain::follow_up, after every launch. *)

\* The link after the job on workspace w: the next one of its series, or the first of a split.
NextLink(w) ==
  IF chain[w] # NoChain THEN [chain[w] EXCEPT !.index = @ + 1]
                        ELSE [root |-> w, index |-> 1, total |-> handoff[w]]

\* Mutant: follow_up does not ask whether the job succeeded.
OwesIncrement_AnyState(j) ==
  LET w == ws[j] IN
    /\ w \notin submitted
    /\ IF chain[w] # NoChain THEN chain[w].index < chain[w].total ELSE handoff[w] > 0

OwesIncrement(j) ==
  LET w == ws[j] IN
    /\ state[j] = "succeeded" /\ w \notin submitted
    /\ IF chain[w] # NoChain THEN chain[w].index < chain[w].total ELSE handoff[w] > 0

\* run_job returns; serve polls again unless the launch itself failed.
RunJobReturns ==
  IF failed THEN WorkerGone ELSE pc' = "poll" /\ UNCHANGED <<current, child, exit, todo, failed>>

\* Nothing is owed, or (a bound of the instance) no id is left to submit it under.
FollowNothing ==
  /\ pc = "follow" /\ (~OwesIncrement(current) \/ InState("absent") = {})
  /\ RunJobReturns
  /\ UNCHANGED <<files, live, asking, history>>

\* The new workspace is prepared before the job that names it appears.
FollowSubmit ==
  /\ pc = "follow" /\ OwesIncrement(current)
  /\ \E j \in JobId :
       /\ Least(InState("absent"), j)
       /\ NewJob(j, j)
       /\ chain' = [chain EXCEPT ![j] = NextLink(ws[current])]
  /\ pc' = "mark"
  /\ UNCHANGED <<cancel, handoff, submitted, live, asking, current, child, exit, todo, failed, history>>

\* Write follow_up.submitted, then save the note (which nothing reads).
FollowMark ==
  /\ pc = "mark"
  /\ submitted' = submitted \cup {ws[current]}
  /\ RunJobReturns
  /\ UNCHANGED <<job, cancel, handoff, chain, live, asking, history>>

-----------------------------------------------------------------------------
(* Faults.  None is fair, and MaxFaults bounds them. *)

Fault == faults < MaxFaults /\ faults' = faults + 1

\* A process that dies or gives up with pc = "record" leaves an orchestrator nobody knows of.
LoseUnrecorded ==
  lost' = IF pc = "record" THEN [lost EXCEPT ![current] = @ \cup {child}] ELSE lost

\* The worker process is killed; the orchestrators are not in its process group.
Crash ==
  /\ Fault /\ pc # "down"
  /\ WorkerGone /\ LoseUnrecorded
  /\ UNCHANGED <<files, live, asking, launches, atCancel>>

\* The machine goes down, and every process with it.
Reboot ==
  /\ Fault
  /\ WorkerGone /\ LoseUnrecorded
  /\ live' = [j \in JobId |-> {}] /\ asking' = {}
  /\ UNCHANGED <<files, launches, atCancel>>

\* A save, the log file or try_wait fails inside launch_job, whose error ends serve; analysis
\* and follow-up still run first.
LaunchError ==
  /\ Fault /\ pc \in {"launch", "start", "spawn", "record", "watch", "term"}
  /\ failed' = TRUE /\ pc' = "analyze" /\ LoseUnrecorded
  /\ UNCHANGED <<files, live, asking, current, child, exit, todo, launches, atCancel>>

\* Copying the sources, the submission or the marker fails: one log line, and no second try.
FollowError ==
  /\ Fault /\ pc \in {"follow", "mark"} /\ OwesIncrement(current)
  /\ RunJobReturns
  /\ UNCHANGED <<files, live, asking, launches, atCancel, lost>>

-----------------------------------------------------------------------------

Worker ==
  \/ WorkerStart \/ RecoverKill \/ RecoverSave \/ RecoverDone
  \/ NextQueued \/ IdleExit
  \/ LaunchCheck \/ LaunchFails \/ SaveRunning \/ Spawn \/ SavePid
  \/ Reap \/ StillRunning \/ PeekCancel \/ Terminate
  \/ Analyze \/ FollowNothing \/ FollowSubmit \/ FollowMark

Client       == \E j \in JobId : Submit(j) \/ AskCancel(j) \/ WriteCancel(j)
Orchestrator == \E j \in JobId : Split(j) \/ \E p \in live[j] : OrchestratorExit(j, p)
Faulty       == Crash \/ Reboot \/ LaunchError \/ FollowError

Next == Worker \/ Client \/ Orchestrator \/ Faulty
Spec == Init /\ [][Next]_vars

\* The worker keeps working and is started again after it ends: by a supervisor, or by the next
\* local submission.  Nothing is assumed of users, nor of when an orchestrator ends.
FairSpec == Spec /\ WF_vars(Worker)

\* Every orchestrator ends sooner or later: its iterations are bounded.
OrchestratorsEnd == WF_vars(\E j \in JobId : \E p \in live[j] : OrchestratorExit(j, p))
LiveSpec == FairSpec /\ OrchestratorsEnd
-----------------------------------------------------------------------------
(* Safety *)

Tracked(j) == live[j] \ lost[j]

\* Whatever crashed in between, at most one orchestrator is alive among those whose pid the
\* worker holds or has saved: recovery kills the old one before the job can be launched again.
OneTrackedOrchestrator ==
  \A i, j \in JobId : \A p \in Tracked(i), q \in Tracked(j) : i = j /\ p = q

\* An orchestrator the queue knows of never outlives its job's run: once the file says queued
\* again, succeeded, failed or cancelled, the process is gone.
EndedMeansDead ==
  \A j \in JobId : state[j] # "running" => Tracked(j) = {}

\* Jobs run in id order even across interruptions: a job that was ever started, or has ended,
\* finds every lower id ended, so a resumed job is not overtaken by later ones.
InIdOrder ==
  \A i, j \in JobId :
    i < j /\ (state[j] \notin {"absent", "queued"} \/ launches[j] > 0) => state[i] \in Terminal

\* A job that dies every time is launched MAX_RESUMES + 1 times at most, however often the
\* worker or the machine crashes, including inside recovery itself.
CrashLoopBounded == \A j \in JobId : launches[j] <= MaxResumes + 1

\* A cancel marker outlives crashes: at most the launch already past its check still happens,
\* and recovery never relaunches a job somebody cancelled.
CancelStopsRelaunch == \A j \in cancel : launches[j] <= atCancel[j] + 1

\* An increment of a series is submitted at most once: no two workspaces hold the same link.
IncrementsOnce ==
  \A v, w \in Workspace :
    chain[v] # NoChain /\ chain[v].root = chain[w].root /\ chain[v].index = chain[w].index => v = w

\* Increment k + 1 exists only if a job on increment k's workspace (for the first, on the split
\* mission's) has succeeded: it is built on a finished crate.
IncrementAfterPrevious ==
  \A w \in Workspace : chain[w] # NoChain =>
    \E j \in JobId :
      /\ state[j] = "succeeded"
      /\ IF chain[w].index = 1
           THEN ws[j] = chain[w].root
           ELSE chain[ws[j]] = [chain[w] EXCEPT !.index = @ - 1]

\* A series is built link by link, each once and on the one before it.
SeriesInOrder == IncrementsOnce /\ IncrementAfterPrevious

\* A job ends once: no later step, recovery included, moves it out of a final state.
EndsOnce ==
  [][\A j \in JobId : state[j] \in Terminal => state'[j] = state[j]]_vars

(* Liveness *)

\* Every submitted job ends, through any bounded number of crashes and reboots, if orchestrators
\* end at all.
EveryJobEnds == OrchestratorsEnd => \A j \in JobId : state[j] = "queued" ~> state[j] \in Terminal

\* Cancelling a running job ends it even if its orchestrator would never stop by itself.
CancelEnds == \A j \in JobId : state[j] = "running" /\ j \in cancel ~> state[j] \in Terminal

\* The queue implements the abstract life cycle of jobs, and its progress if orchestrators end.
L == INSTANCE JobLifecycle WITH phase <- state,
                                resumed <- resumes
Lifecycle == L!ASpec /\ (OrchestratorsEnd => L!AFairness)

-----------------------------------------------------------------------------
(* Why the safety properties hold: what every step of the worker relies on. *)

\* The program counter agrees with the file of the job the worker holds.
ControlMatchesFile ==
  /\ pc \in {"launch", "start"} => state[current] = "queued"
  /\ pc \in {"requeue", "spawn", "record", "watch", "peek", "term"} => state[current] = "running"
  /\ pc \in {"analyze", "follow"} => state[current] \in IF failed THEN {"queued", "running"} ELSE Terminal
  /\ pc = "mark" => state[current] = "succeeded"
  /\ failed => pc \in {"analyze", "follow"}
  /\ pc = "requeue" => current \in todo
  /\ pc \in {"recover", "requeue"} => todo \subseteq InState("running")

\* A file that says running is one the worker holds, or one the next recovery will find.
RunningIsOwned ==
  /\ \A i, j \in InState("running") : i = j
  /\ \A j \in InState("running") :
       \/ pc = "down"
       \/ pc \in {"recover", "requeue"} /\ j \in todo
       \/ current = j /\ (failed \/ pc \in {"spawn", "record", "watch", "peek", "term"})

\* The pid in the file, or the one about to be saved, is the job's only tracked process.
PidMatchesProcess ==
  /\ \A j \in JobId : \A p \in live[j] \cup lost[j] : p <= launches[j]
  /\ \A j \in JobId : \A p \in Tracked(j) :
       state[j] = "running" /\ p = IF pc = "record" /\ current = j THEN child ELSE pid[j]
  /\ pc \in {"requeue", "spawn"} => Tracked(current) = {}
  /\ pc \in {"record", "watch", "peek", "term"} =>
       child <= launches[current] /\ (exit # "alive" => child \notin live[current])
  /\ pc \in {"watch", "peek", "term"} => pid[current] = child

\* Each launch is the first or paid for with a resume.
LaunchesPaid ==
  /\ \A j \in JobId : launches[j] <= resumes[j] + (IF state[j] \in {"absent", "queued"} THEN 0 ELSE 1)
  /\ pc = "spawn" => launches[current] <= resumes[current]

\* A marked job is past the check for its marker once at most.
CancelAccounted ==
  /\ CancelStopsRelaunch
  /\ pc \in {"start", "spawn"} /\ current \in cancel => launches[current] <= atCancel[current]

\* Ids are handed out in order, and the job being launched is the lowest that has not ended.
OrderAccounted ==
  /\ InIdOrder
  /\ \A i, j \in JobId : i < j /\ state[i] = "absent" => state[j] = "absent"
  /\ pc \in {"launch", "start"} => \A i \in JobId : i < current => state[i] \in Terminal

Inductive ==
  /\ TypeOK /\ ControlMatchesFile /\ RunningIsOwned /\ PidMatchesProcess
  /\ LaunchesPaid /\ CancelAccounted /\ OrderAccounted

-----------------------------------------------------------------------------
(* What the code, its comments or its docs say, and the code does not do *)

\* worker.rs on recover_orphans: "kill it outright (avoids two orchestrators writing the same
\* workspace at once)".  Fails when the worker dies between spawn and saving the pid.
SingleWriter ==
  \A i, j \in JobId : \A p \in live[i], q \in live[j] : ws[i] = ws[j] => i = j /\ p = q

\* The tutorial: "When an increment succeeds, the queue submits the next one".  Fails when the
\* worker dies after saving the success: follow_up runs only right after a launch.
SeriesContinues ==
  \A j \in JobId : OwesIncrement(j) ~> ws[j] \in submitted
=============================================================================
