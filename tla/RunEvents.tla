----------------------------- MODULE RunEvents -----------------------------
(***************************************************************************)
(* The record of a run: the orchestrator's threads emit events, each is    *)
(* appended to events.jsonl in the workspace and then posted to the queue  *)
(* server, best effort (ai-org-orchestrator/src/observer.rs); readers      *)
(* merge the two copies (job-queue/src/events.rs), and the facts of the    *)
(* run are computed from the merge (ai-org-orchestrator/src/analysis.rs).  *)
(*                                                                         *)
(* Jobs run one after the other, as the worker runs them.  A run is a      *)
(* series of checkpointed stages; it may be killed anywhere and launched   *)
(* again in the same workspace, in the middle of a line of the log.        *)
(***************************************************************************)
EXTENDS Naturals, Sequences, FiniteSets

CONSTANTS
    MaxJobs,    \* the jobs are 1..MaxJobs
    Stages,     \* the pipeline's stages are 1..Stages
    Helper,     \* the threads a stage may start
    Slug,       \* the ids of feature requests
    Scenarios   \* the instances to start from, see ScenarioType

ASSUME BoundsAssumption ==
    /\ MaxJobs \in Nat \ {0}
    /\ Stages \in Nat

Jobs == 1..MaxJobs
Main == "main"
Threads == Helper \cup {Main}
NoStage == 0

\* jobs: how many there are; ws: the workspace of each; reporting: a server
\* hosts the worker; stages: of the pipeline; notes: events the helpers of a
\* job emit; kills: how often a job's worker dies; raise: requests the analyst may propose; decisions: statuses set.
ScenarioType == [jobs : Jobs, ws : [Jobs -> Jobs], reporting : BOOLEAN, stages : 0..Stages,
                 notes : Nat, kills : Nat,
                 raise : SUBSET Slug, decisions : Nat]

ASSUME ScenariosAssumption == Scenarios \subseteq ScenarioType

\* An event is what its line holds, the job's id aside: two events may be equal.
Kinds == {"start", "end", "failed_end", "error", "note"}
Event == [ts : Nat, kind : Kinds, stage : 0..Stages]
NoEvent == [ts |-> 0, kind |-> "note", stage |-> NoStage]
NotEmitting == [step |-> "idle", event |-> NoEvent]

VARIABLES
    scen,     \* the scenario
    job,      \* the job the worker is at
    main,     \* where the orchestrator's main thread is
    stage,    \* Inner.stage: the open stage
    at,       \* where each thread is in emit, and with which event
    file,     \* the complete lines of each workspace's events.jsonl
    cut,      \* that file ends in the middle of a line
    served,   \* the server's copy of each job's events
    paused,   \* Inner.post_paused_until is set
    done,     \* the stages each workspace has checkpoints of
    now,      \* the clock, in milliseconds that tell events apart
    notes,    \* events the helpers have emitted in this job
    kills,    \* how often the job's orchestrator was killed
    torn,     \* the events of each workspace that went into the rest of a cut line (history)
    emitted   \* the events of each workspace whose append was reached (history)

logvars == <<scen, stage, at, file, cut, served, paused, done, now, notes, torn, emitted>>
evars == <<logvars, job, main, kills>>

MainStates == {"next", "open", "work", "close", "exit_ok", "exit_failed",
               "down",                             \* killed, to be recovered
               "succeeded", "failed", "cancelled", \* the job has ended
               "dropped"}                          \* given up by recovery, never analysed
Running == {"next", "open", "work", "close", "exit_ok", "exit_failed"}

Ws == scen.ws[job]

EventsInit ==
    /\ scen \in Scenarios
    /\ job = 1
    /\ main = "next"
    /\ stage = NoStage
    /\ at = [t \in Threads |-> NotEmitting]
    /\ file = [w \in Jobs |-> << >>]
    /\ cut = [w \in Jobs |-> FALSE]
    /\ served = [j \in Jobs |-> << >>]
    /\ paused = FALSE
    /\ done = [w \in Jobs |-> 0]
    /\ now = 0
    /\ notes = 0
    /\ kills = 0
    /\ torn = [w \in Jobs |-> << >>]
    /\ emitted = [w \in Jobs |-> << >>]

-----------------------------------------------------------------------------
(* Emitting *)

\* Events may share a millisecond.
SoonOrLater == {now, now + 1}
Later == {now + 1}

\* Event::new takes the time; the label is the stage that is open, or the
\* one given.
Create(t, kind, label, times) ==
    /\ at[t].step = "idle"
    /\ \E ts \in times :
         /\ now' = ts
         /\ at' = [at EXCEPT ![t] = [step |-> "append",
                     event |-> [ts |-> ts, kind |-> kind, stage |-> label]]]

\* One line under the write lock.  A line that starts in the middle of
\* another is no event, and neither is what it completes.
AppendLine(t) ==
    /\ at[t].step = "append"
    /\ file' = [file EXCEPT ![Ws] = IF cut[Ws] THEN @ ELSE Append(@, at[t].event)]
    /\ cut' = [cut EXCEPT ![Ws] = FALSE]
    /\ torn' = [torn EXCEPT ![Ws] = IF cut[Ws] THEN Append(@, at[t].event) ELSE @]
    /\ at' = [at EXCEPT ![t].step = "post"]
    /\ emitted' = [emitted EXCEPT ![Ws] = Append(@, at[t].event)]
    /\ UNCHANGED <<scen, stage, served, paused, done, now, notes, job, main, kills>>

Arrives(t) == served' = [served EXCEPT ![job] = Append(@, at[t].event)]

\* No server, or still in the pause after a failed post.
PostSkipped(t) ==
    /\ at[t].step = "post"
    /\ ~scen.reporting \/ paused
    /\ at' = [at EXCEPT ![t] = NotEmitting]
    /\ UNCHANGED <<scen, stage, file, cut, served, paused, done, now, notes, torn, emitted, job, main, kills>>

\* A pause is over when a thread finds it over; the post may fail, or its
\* answer come too late.
Post(t) ==
    /\ at[t].step = "post"
    /\ scen.reporting
    /\ \/ Arrives(t) /\ paused' = FALSE
       \/ Arrives(t) /\ paused' = TRUE
       \/ UNCHANGED served /\ paused' = TRUE
    /\ at' = [at EXCEPT ![t] = NotEmitting]
    /\ UNCHANGED <<scen, stage, file, cut, done, now, notes, torn, emitted, job, main, kills>>

-----------------------------------------------------------------------------
(* The orchestrator *)

Quiet == \A t \in Threads : at[t].step = "idle"

\* The first stage that no checkpoint answers.
NextStage == done[Ws] + 1

StagesLeft == NextStage <= scen.stages

MainStep(from, to) ==
    /\ main = from
    /\ at[Main].step = "idle"
    /\ main' = to

\* Observer::stage, first half: end_stage.
EndPrevious ==
    /\ MainStep("next", "open")
    /\ StagesLeft
    /\ stage # NoStage
    /\ stage' = NoStage
    /\ Create(Main, "end", stage, SoonOrLater)
    /\ UNCHANGED <<scen, file, cut, served, paused, done, notes, torn, emitted, job, kills>>

\* Second half; the first does nothing when no stage is open.
OpenStage ==
    /\ StagesLeft
    /\ stage = NoStage
    /\ MainStep("next", "work") \/ MainStep("open", "work")
    /\ stage' = NextStage
    /\ Create(Main, "start", NextStage, SoonOrLater)
    /\ UNCHANGED <<scen, file, cut, served, paused, done, notes, torn, emitted, job, kills>>

\* A thread of the stage reports a call, a finding or its own panic.
Note(t) ==
    /\ main = "work"
    /\ at[Main].step = "idle"
    /\ notes < scen.notes
    /\ notes' = notes + 1
    /\ \E kind \in {"note", "error"} : Create(t, kind, stage, SoonOrLater)
    /\ UNCHANGED <<scen, stage, file, cut, served, paused, done, torn, emitted, job, main, kills>>

\* The stage's threads are joined and its result is in the workspace; its end
\* is told only when the next stage starts.  No stage that calls a model
\* ends in the millisecond of its last event.
Checkpoint ==
    /\ MainStep("work", "next")
    /\ Quiet
    /\ done' = [done EXCEPT ![Ws] = stage]
    /\ now' = now + 1
    /\ UNCHANGED <<scen, stage, at, file, cut, served, paused, notes, torn, emitted, job, kills>>

\* Observer::fail: an error, and the open stage, if any, ends badly.  A stage
\* fails no sooner than it could end.
Fail ==
    /\ \/ MainStep("work", "close") /\ Create(Main, "error", stage, Later)
       \/ MainStep("next", "close") /\ Create(Main, "error", stage, SoonOrLater)
    /\ Quiet
    /\ UNCHANGED <<scen, stage, file, cut, served, paused, done, notes, torn, emitted, job, kills>>

CloseFailed ==
    /\ MainStep("close", "exit_failed")
    /\ stage' = NoStage
    /\ IF stage = NoStage THEN UNCHANGED <<at, now>> ELSE Create(Main, "failed_end", stage, SoonOrLater)
    /\ UNCHANGED <<scen, file, cut, served, paused, done, notes, torn, emitted, job, kills>>

\* end_stage after the last stage.
CloseLast ==
    /\ MainStep("next", "exit_ok")
    /\ ~StagesLeft
    /\ stage' = NoStage
    /\ IF stage = NoStage THEN UNCHANGED <<at, now>> ELSE Create(Main, "end", stage, SoonOrLater)
    /\ UNCHANGED <<scen, file, cut, served, paused, done, notes, torn, emitted, job, kills>>

Exit ==
    /\ MainStep("exit_ok", "succeeded") \/ MainStep("exit_failed", "failed")
    /\ UNCHANGED <<logvars, job, kills>>

\* The orchestrator dies with all its threads, perhaps while one writes.
Die(to) ==
    /\ main \in Running
    /\ main' = to
    /\ \E tear \in BOOLEAN :
         /\ tear => \E t \in Threads : at[t].step = "append"
         /\ cut' = [cut EXCEPT ![Ws] = @ \/ tear]
    /\ at' = [t \in Threads |-> NotEmitting]
    /\ paused' = FALSE
    /\ UNCHANGED <<scen, file, served, done, now, notes, torn, emitted, job>>

\* The worker or the machine goes down; recovery kills what is left.
Crash ==
    /\ kills < scen.kills
    /\ kills' = kills + 1
    /\ Die("down")
    /\ UNCHANGED stage

\* The user cancels the job: its orchestrator is terminated.
Cancel == Die("cancelled") /\ UNCHANGED <<stage, kills>>

\* Recovery requeues the job, and it is launched again in its workspace, which
\* takes longer than a millisecond.
Relaunch ==
    /\ main = "down"
    /\ main' = "next"
    /\ stage' = NoStage
    /\ now' = now + 1
    /\ UNCHANGED <<scen, at, file, cut, served, paused, done, notes, torn, emitted, job, kills>>

\* Recovery gives the job up: it fails without having been run, so that its
\* record is never analysed.
GiveUp ==
    /\ main = "down"
    /\ main' = "dropped"
    /\ UNCHANGED <<logvars, job, kills>>

Orchestrate ==
    \/ \E t \in Threads : AppendLine(t) \/ PostSkipped(t) \/ Post(t)
    \/ \E t \in Helper : Note(t)
    \/ EndPrevious
    \/ OpenStage
    \/ Checkpoint
    \/ Fail
    \/ CloseFailed
    \/ CloseLast
    \/ Exit
    \/ Crash
    \/ Cancel
    \/ Relaunch
    \/ GiveUp

-----------------------------------------------------------------------------
(* Reading *)

Count(es, e) == Cardinality({i \in DOMAIN es : es[i] = e})

\* Mutant: the copies are put together.
Concatenate(remote, local) == remote \o local

\* merge_event_sources: the server's copy, and of the other the events that are there more
\* often; in order of time, those of one time as they were put together.
Merge(remote, local) ==
    LET both == remote \o local
        kept == {i \in DOMAIN both : i > Len(remote) =>
                   Count(SubSeq(local, 1, i - Len(remote)), both[i]) > Count(remote, both[i])}
        Before(i, j) == both[i].ts < both[j].ts \/ (both[i].ts = both[j].ts /\ i < j)
        place == [i \in kept |-> Cardinality({j \in kept : Before(j, i)}) + 1]
    IN  [k \in 1..Cardinality(kept) |-> both[CHOOSE i \in kept : place[i] = k]]

AllEvents(j) == Merge(served[j], file[scen.ws[j]])

\* unfinished_stages: starts and ends are paired by name, in order, and an end that finds no start
\* open is nothing.  So a stage is left open when from some event on it starts more often than it ends.
Unfinished(es) ==
    LET From(i, s, kinds) == Cardinality({k \in i..Len(es) : es[k].stage = s /\ es[k].kind \in kinds})
    IN  {s \in 0..Stages : \E i \in DOMAIN es : From(i, s, {"start"}) > From(i, s, {"end", "failed_end"})}

\* Mutant: any error makes the run a failed one.
AnyErrorFails(es) ==
    IF es = << >> \/ Unfinished(es) # {} \/ \E i \in DOMAIN es : es[i].kind = "error"
    THEN "failed" ELSE "succeeded"

\* infer_outcome.  No event the pipeline emits of itself mentions a
\* cancellation, so the outcome "cancelled" is left out.
Outcome(es) ==
    LET ends == {i \in DOMAIN es : es[i].kind \in {"end", "failed_end"}}
    IN  IF \/ es = << >>
           \/ es[Len(es)].kind = "error"
           \/ Unfinished(es) # {}
           \/ \E i \in ends : es[i].kind = "failed_end" /\ \A k \in ends : k <= i
        THEN "failed"
        ELSE "succeeded"
=============================================================================
