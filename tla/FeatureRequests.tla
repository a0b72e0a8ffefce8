-------------------------- MODULE FeatureRequests --------------------------
(***************************************************************************)
(* What becomes of a run's record: after each job the worker has it        *)
(* analysed, keeps the claims whose evidence is in the record, stores the  *)
(* analysis and merges its feature requests into one list over all jobs,   *)
(* which users change at the same time from the command line and through   *)
(* the server (job-queue/src/worker.rs, job-queue/src/events.rs and        *)
(* ai-org-orchestrator/src/analysis.rs).                                   *)
(*                                                                         *)
(* What the analyst answers is the environment's choice.                   *)
(***************************************************************************)
EXTENDS RunEvents

CONSTANT User  \* clients that set a request's status

VARIABLES
    worker,     \* where the worker is after the job, and with what
    analyses,   \* the outcome each stored analysis tells
    store,      \* feature-requests.json
    lock,       \* who holds feature-requests.lock
    user,       \* what each client is doing
    decisions,  \* how many statuses were set
    sum,        \* the completed merges and decisions, one after the other
    merged      \* the slugs each job's stored analysis raises

svars == <<analyses, store, lock, user, decisions, sum, merged>>
vars == <<evars, worker, svars>>

Worker == "worker"
Nobody == "nobody"
Clients == User \cup {Worker}

\* The lock tells its holders apart: the worker is no user, and neither is nobody.
ASSUME ClientsAssumption == User \cap {Worker, Nobody} = {}

Priorities == 1..3   \* Low, Medium, High
Statuses == {"open", "accepted", "done", "rejected"}

Request == [jobs : SUBSET Jobs, evidence : SUBSET Event,
            priority : Priorities, status : Statuses]
\* A request that is not in the list is one no job raised.
NoRequest == [jobs |-> {}, evidence |-> {}, priority |-> 1, status |-> "open"]
Stored(requests, s) == requests[s].jobs # {}

\* A reference that is in no record.
Invented == [ts |-> 0, kind |-> "note", stage |-> NoStage]

WorkerSteps == {"run", "analyse", "write", "lock", "load", "save"}
Empty == [s \in Slug |-> NoRequest]

Init ==
    /\ EventsInit
    /\ worker = [step |-> "run", incoming |-> Empty, copy |-> Empty]
    /\ analyses = [j \in Jobs |-> "none"]
    /\ store = Empty
    /\ lock = Nobody
    /\ user = [u \in User |-> [step |-> "idle", slug |-> CHOOSE s \in Slug : TRUE,
                               status |-> "open", copy |-> Empty]]
    /\ decisions = 0
    /\ sum = Empty
    /\ merged = [j \in Jobs |-> {}]

-----------------------------------------------------------------------------
(* Merging and deciding *)

Raise(p) == IF p = 3 THEN 3 ELSE p + 1

\* merge_requests: a known request keeps its status, and is raised by a job
\* it does not list yet.
Merged(requests, incoming) ==
    [s \in Slug |->
        IF ~Stored(incoming, s) THEN requests[s]
        ELSE IF ~Stored(requests, s) THEN incoming[s]
        ELSE [requests[s] EXCEPT
                !.priority = IF incoming[s].jobs \subseteq requests[s].jobs THEN @ ELSE Raise(@),
                !.jobs = @ \cup incoming[s].jobs,
                !.evidence = @ \cup incoming[s].evidence]]

Decided(requests, s, status) == [requests EXCEPT ![s].status = status]

-----------------------------------------------------------------------------
(* The worker after a job *)

\* The job has ended; one without events is not analysed.
StartAnalysis ==
    /\ worker.step = "run"
    /\ main \in {"succeeded", "failed", "cancelled"}
    /\ AllEvents(job) # << >>
    /\ worker' = [worker EXCEPT !.step = "analyse"]
    /\ UNCHANGED <<evars, svars>>

\* EvidenceIndex::valid
Valid(log, cites) == {e \in cites : \E i \in DOMAIN log : log[i] = e}

\* build_analysis: requests without valid evidence are dropped; ingest_analysis
\* opens the others in the job's name.
Analyse ==
    /\ worker.step = "analyse"
    /\ LET log == AllEvents(job)
           citable == {log[i] : i \in DOMAIN log} \cup {Invented}
       IN  \E S \in SUBSET scen.raise, priority \in Priorities, cites \in [Slug -> citable] :
             worker' = [worker EXCEPT !.step = "write",
               !.incoming = [s \in Slug |->
                  LET evidence == Valid(log, {cites[s]})
                  IN  IF s \in S /\ evidence # {}
                      THEN [jobs |-> {job}, evidence |-> evidence,
                            priority |-> priority, status |-> "open"]
                      ELSE NoRequest]]
    /\ UNCHANGED <<evars, svars>>

Rest == [step |-> "run", incoming |-> Empty, copy |-> Empty]

ToNextJob ==
    /\ job' = job + 1
    /\ main' = "next"
    /\ kills' = 0
    /\ notes' = 0
    /\ stage' = NoStage
    /\ UNCHANGED <<scen, at, file, cut, served, paused, done, now, torn, emitted>>

\* The worker turns to the next job: there is nothing to analyse, the analysis
\* failed or ran out of time, or the worker was restarted in the middle of it.
SkipAnalysis ==
    /\ main \in {"succeeded", "failed", "cancelled", "dropped"}
    /\ job < scen.jobs
    /\ worker' = Rest
    /\ lock' = IF lock = Worker THEN Nobody ELSE lock
    /\ merged' = [merged EXCEPT ![job] = {}]
    /\ ToNextJob
    /\ UNCHANGED <<analyses, store, user, decisions, sum>>

\* events::write_analysis, by renaming a temporary file.
WriteAnalysis ==
    /\ worker.step = "write"
    /\ analyses' = [analyses EXCEPT ![job] = Outcome(AllEvents(job))]
    /\ merged' = [merged EXCEPT ![job] = {s \in Slug : Stored(worker.incoming, s)}]
    /\ worker' = [worker EXCEPT !.step = "lock"]
    /\ UNCHANGED <<evars, store, lock, user, decisions, sum>>

\* Mutant: the merge is left out when another holds the lock.
TryLock ==
    /\ worker.step = "lock"
    /\ lock' = IF lock = Nobody THEN Worker ELSE lock
    /\ worker' = [worker EXCEPT !.step = IF lock = Nobody THEN "load" ELSE "run"]
    /\ IF lock = Nobody THEN UNCHANGED evars
       ELSE main' = "dropped" /\ UNCHANGED <<logvars, job, kills>>
    /\ UNCHANGED <<analyses, store, user, decisions, sum, merged>>

TakeLock ==
    /\ worker.step = "lock"
    /\ lock = Nobody
    /\ lock' = Worker
    /\ worker' = [worker EXCEPT !.step = "load"]
    /\ UNCHANGED <<evars, analyses, store, user, decisions, sum, merged>>

Load ==
    /\ worker.step = "load"
    /\ worker' = [worker EXCEPT !.step = "save", !.copy = store]
    /\ UNCHANGED <<evars, svars>>

\* save_requests renames; the lock goes with the file handle.
Save ==
    /\ worker.step = "save"
    /\ store' = Merged(worker.copy, worker.incoming)
    /\ sum' = Merged(sum, worker.incoming)
    /\ lock' = Nobody
    /\ worker' = [worker EXCEPT !.step = "run", !.copy = Empty]
    /\ IF job < scen.jobs
       THEN ToNextJob
       ELSE main' = "dropped" /\ UNCHANGED <<logvars, job, kills>>
    /\ UNCHANGED <<analyses, user, decisions, merged>>

Analysis ==
    \/ StartAnalysis
    \/ Analyse
    \/ SkipAnalysis
    \/ WriteAnalysis
    \/ TakeLock
    \/ Load
    \/ Save

-----------------------------------------------------------------------------
(* Users: set_request_status *)

Ask(u) ==
    /\ user[u].step = "idle"
    /\ decisions < scen.decisions
    /\ decisions' = decisions + 1
    /\ \E s \in Slug, status \in Statuses :
         user' = [user EXCEPT ![u] = [@ EXCEPT !.step = "lock", !.slug = s, !.status = status]]
    /\ UNCHANGED <<evars, worker, analyses, store, lock, sum, merged>>

\* Mutant: the list is loaded while another holds the lock.
UserLoadsUnlocked(u) ==
    /\ user[u].step = "lock"
    /\ user' = [user EXCEPT ![u] = [@ EXCEPT !.step = "save", !.copy = store]]
    /\ UNCHANGED <<evars, worker, analyses, store, lock, decisions, sum, merged>>

\* Under the lock the list is loaded; an unknown request is an error.
UserLoads(u) ==
    /\ user[u].step = "lock"
    /\ lock = Nobody
    /\ IF Stored(store, user[u].slug)
       THEN /\ lock' = u
            /\ user' = [user EXCEPT ![u] = [@ EXCEPT !.step = "save", !.copy = store]]
       ELSE /\ user' = [user EXCEPT ![u].step = "idle"]
            /\ UNCHANGED lock
    /\ UNCHANGED <<evars, worker, analyses, store, decisions, sum, merged>>

UserSaves(u) ==
    /\ user[u].step = "save"
    /\ store' = Decided(user[u].copy, user[u].slug, user[u].status)
    /\ sum' = Decided(sum, user[u].slug, user[u].status)
    /\ lock' = Nobody
    /\ user' = [user EXCEPT ![u] = [@ EXCEPT !.step = "idle", !.copy = Empty]]
    /\ UNCHANGED <<evars, worker, analyses, decisions, merged>>

\* The client is killed while it has the lock.
UserDies(u) ==
    /\ user[u].step = "save"
    /\ lock' = Nobody
    /\ user' = [user EXCEPT ![u] = [@ EXCEPT !.step = "idle", !.copy = Empty]]
    /\ UNCHANGED <<evars, worker, analyses, store, decisions, sum, merged>>

Next ==
    \/ Orchestrate /\ UNCHANGED <<worker, svars>>
    \/ Analysis
    \/ \E u \in User : Ask(u) \/ UserLoads(u) \/ UserSaves(u) \/ UserDies(u)

Spec == Init /\ [][Next]_vars

-----------------------------------------------------------------------------
(* Properties *)

\* Every variable has its type, the open stage is one the pipeline has, and
\* the clock is not behind an event.
TypeOK ==
    /\ scen \in Scenarios
    /\ job \in Jobs
    /\ main \in MainStates
    /\ stage \in 0..Stages
    /\ at \in [Threads -> [step : {"idle", "append", "post"}, event : Event]]
    /\ file \in [Jobs -> Seq(Event)]
    /\ served \in [Jobs -> Seq(Event)]
    /\ emitted \in [Jobs -> Seq(Event)]
    /\ cut \in [Jobs -> BOOLEAN]
    /\ torn \in [Jobs -> Seq(Event)]
    /\ done \in [Jobs -> 0..Stages]
    /\ paused \in BOOLEAN
    /\ now \in Nat /\ notes \in Nat /\ kills \in 0..scen.kills
    /\ worker \in [step : WorkerSteps, incoming : [Slug -> Request \cup {NoRequest}],
                   copy : [Slug -> Request \cup {NoRequest}]]
    /\ analyses \in [Jobs -> {"none", "succeeded", "failed"}]
    /\ store \in [Slug -> Request]
    /\ lock \in Clients \cup {Nobody}
    /\ \A w \in Jobs : \A i \in DOMAIN emitted[w] : emitted[w][i].ts <= now

\* A reader that took the server's copy earlier, when it was any prefix of
\* what it is now, and the workspace's log after it, sees no event more often
\* than it was emitted, and every event as often: a run that is killed in the
\* middle of a line and launched again loses no more than the one event that
\* goes into the rest of that line.
NothingLostOrDoubled ==
    \A n \in 0..Len(served[job]) :
        LET log == Merge(SubSeq(served[job], 1, n), file[Ws])
        IN  \A i \in DOMAIN emitted[Ws] :
              LET e == emitted[Ws][i]
              IN  /\ Count(log, e) <= Count(emitted[Ws], e)
                  /\ Count(log, e) + Count(torn[Ws], e) >= Count(emitted[Ws], e)

\* The workspace is the job's own.
OwnWorkspace == \A j \in Jobs : j # job => scen.ws[j] # Ws

\* The facts are exact: a run that failed is told to have failed, however often
\* it was killed and launched again, unless an event of it went into a cut line;
\* one that succeeded without a kill is told so, and no stage of it never ended;
\* a stage that a cancelled run died in is said so, though the log may end in a
\* cut line.  What a run that was killed before it succeeded is told is the
\* subject of ResumedFactsAreExact.
FactsAreExact ==
    LET log == AllEvents(job)
    IN  OwnWorkspace /\ log # << >> =>
          /\ main = "failed" /\ torn[Ws] = << >> => Outcome(log) = "failed"
          /\ main = "succeeded" /\ kills = 0 => Outcome(log) = "succeeded" /\ Unfinished(log) = {}
          /\ /\ main = "cancelled" /\ kills = 0
             /\ stage # NoStage
             /\ \E i \in DOMAIN log : log[i].kind = "start" /\ log[i].stage = stage
             => stage \in Unfinished(log)

\* The list of feature requests is what the merges and decisions that
\* completed make of it one after the other: none overwrites another, whoever
\* dies in the middle.
StoreIsSumOfOperations == store = sum

\* The requests of a stored analysis are in the list, in its job's name, when
\* the worker has turned to the next job without having been restarted.
AnalysisReachesStore == \A j \in Jobs :
    j < job \/ main = "dropped" => \A s \in merged[j] : j \in store[s].jobs

\* The facts the analyst is told are exact (skills/post-run-analyst.md:5): a
\* run that succeeded is not told to have failed, killed and resumed or not.
ResumedFactsAreExact ==
    OwnWorkspace /\ main = "succeeded" /\ AllEvents(job) # << >> =>
        Outcome(AllEvents(job)) = "succeeded"
=============================================================================
