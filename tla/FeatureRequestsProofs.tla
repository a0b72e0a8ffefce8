------------------------ MODULE FeatureRequestsProofs ------------------------
(***************************************************************************)
(* What module FeatureRequests promises, for every number of jobs, users   *)
(* and decisions and whatever the analyst answers: the list of feature     *)
(* requests is made by whole operations, and every analysis reaches it.    *)
(* No event of a run is lost to its readers or seen twice, and what they   *)
(* make of the events is what happened.                                    *)
(***************************************************************************)
EXTENDS FeatureRequests, FiniteSetTheorems, TLAPS

-----------------------------------------------------------------------------
(* The lists and who has one in hand. *)

\* A list has a request for every slug, and a request has its jobs.
IsList(l) ==
  /\ l = [s \in Slug |-> l[s]]
  /\ \A s \in Slug : l[s] = [jobs |-> l[s].jobs, evidence |-> l[s].evidence,
                             priority |-> l[s].priority, status |-> l[s].status]

\* What the clients have in hand.
HandTypes ==
  /\ worker = [step |-> worker.step, incoming |-> worker.incoming, copy |-> worker.copy]
  /\ user = [u \in User |-> user[u]]
  /\ \A u \in User : user[u] = [step |-> user[u].step, slug |-> user[u].slug,
                                status |-> user[u].status, copy |-> user[u].copy]

\* Whoever has loaded the list has the lock, and the list is still what was loaded.
Holding ==
  /\ worker.step \in {"load", "save"} => lock = Worker
  /\ worker.step = "save" => worker.copy = store
  /\ \A u \in User : user[u].step = "save" => lock = u /\ user[u].copy = store
  /\ store = sum

LEMMA HandInit == Init => HandTypes /\ Holding
  <1> SUFFICES ASSUME Init PROVE HandTypes /\ Holding
    OBVIOUS
  <1>1. PICK first : first = CHOOSE s \in Slug : TRUE
    OBVIOUS
  <1>2. user = [u \in User |-> [step |-> "idle", slug |-> first, status |-> "open", copy |-> Empty]]
    BY <1>1, Zenon DEF Init
  <1>3. worker = [step |-> "run", incoming |-> Empty, copy |-> Empty] /\ store = Empty /\ sum = Empty
    BY DEF Init
  <1> QED
    BY <1>2, <1>3 DEF HandTypes, Holding

LEMMA Distinct == Worker \notin User /\ Nobody \notin User /\ Worker # Nobody
  BY ClientsAssumption DEF Worker, Nobody

LEMMA WorkerHand ==
  ASSUME HandTypes, Analysis
  PROVE  HandTypes' /\ UNCHANGED user
  <1>1. UNCHANGED user
    BY DEF Analysis, StartAnalysis, Analyse, SkipAnalysis, WriteAnalysis, TakeLock, Load, Save, svars
  <1>2. ASSUME NEW r, worker' = [worker EXCEPT !.step = r] PROVE HandTypes'
    BY <1>1, <1>2 DEF HandTypes
  <1>3. CASE StartAnalysis \/ WriteAnalysis \/ TakeLock
    <2>1. \E r : worker' = [worker EXCEPT !.step = r]
      BY <1>3 DEF StartAnalysis, WriteAnalysis, TakeLock
    <2> QED
      BY <1>1, <1>2, <2>1
  <1>4. ASSUME NEW l, worker' = [worker EXCEPT !.step = "write", !.incoming = l] PROVE HandTypes'
    BY <1>1, <1>4 DEF HandTypes
  <1>5. CASE Analyse
    <2>1. \E l : worker' = [worker EXCEPT !.step = "write", !.incoming = l]
      BY <1>5 DEF Analyse
    <2> QED
      BY <1>1, <1>4, <2>1
  <1>6. CASE SkipAnalysis
    BY <1>1, <1>6 DEF SkipAnalysis, Rest, HandTypes
  <1>7. CASE Load
    BY <1>1, <1>7 DEF Load, HandTypes
  <1>8. CASE Save
    BY <1>1, <1>8 DEF Save, HandTypes
  <1> QED
    BY <1>1, <1>3, <1>5, <1>6, <1>7, <1>8 DEF Analysis

LEMMA WorkerHolds ==
  ASSUME HandTypes, Holding, Analysis
  PROVE  Holding'
  <1> USE DEF Holding
  <1>0. UNCHANGED user
    BY WorkerHand
  <1>1. CASE StartAnalysis \/ WriteAnalysis
    BY <1>0, <1>1 DEF StartAnalysis, WriteAnalysis, svars, HandTypes
  <1>2. CASE Analyse
    <2>1. worker'.step = "write" /\ UNCHANGED svars
      BY <1>2 DEF Analyse, HandTypes
    <2> QED
      BY <1>0, <2>1 DEF svars
  <1>3. CASE SkipAnalysis
    <2>1. worker'.step = "run" /\ UNCHANGED <<store, sum>>
      BY <1>3 DEF SkipAnalysis, Rest
    <2>2. \A u \in User : lock = u => lock' = u
      BY <1>3, Distinct DEF SkipAnalysis
    <2> QED
      BY <1>0, <2>1, <2>2
  <1>4. CASE TakeLock
    <2>1. worker'.step = "load" /\ lock' = Worker /\ lock = Nobody /\ UNCHANGED <<store, sum>>
      BY <1>4 DEF TakeLock, HandTypes
    <2> QED
      BY <1>0, <2>1, Distinct
  <1>5. CASE Load
    BY <1>0, <1>5 DEF Load, HandTypes, svars
  <1>6. CASE Save
    <2>1. worker'.step = "run" /\ lock = Worker
      BY <1>6 DEF Save, HandTypes
    <2>2. store' = sum'
      BY <1>6 DEF Save
    <2>3. \A u \in User : user[u].step # "save"
      BY <2>1, Distinct
    <2> QED
      BY <1>0, <2>1, <2>2, <2>3
  <1> QED
    BY <1>1, <1>2, <1>3, <1>4, <1>5, <1>6 DEF Analysis

UserStep(u) == Ask(u) \/ UserLoads(u) \/ UserSaves(u) \/ UserDies(u)

LEMMA UserHand ==
  ASSUME HandTypes, NEW u \in User, UserStep(u)
  PROVE  HandTypes' /\ UNCHANGED <<evars, worker, analyses, merged>>
  <1>1. UNCHANGED <<evars, worker, analyses, merged>>
    BY DEF UserStep, Ask, UserLoads, UserSaves, UserDies
  <1>2. \E r : user' = [user EXCEPT ![u] = r] /\ r = [step |-> r.step, slug |-> r.slug, status |-> r.status, copy |-> r.copy]
    <2>1. user[u] = [step |-> user[u].step, slug |-> user[u].slug, status |-> user[u].status, copy |-> user[u].copy]
      BY DEF HandTypes
    <2>2. CASE Ask(u)
      <3>1. PICK s \in Slug, status \in Statuses :
              user' = [user EXCEPT ![u] = [@ EXCEPT !.step = "lock", !.slug = s, !.status = status]]
        BY <2>2 DEF Ask
      <3>2. PICK r : r = [user[u] EXCEPT !.step = "lock", !.slug = s, !.status = status]
        OBVIOUS
      <3>3. r = [step |-> r.step, slug |-> r.slug, status |-> r.status, copy |-> r.copy]
        BY <2>1, <3>2
      <3> QED
        BY <3>1, <3>2, <3>3
    <2>3. CASE UserLoads(u)
      BY <2>1, <2>3 DEF UserLoads
    <2>4. CASE UserSaves(u) \/ UserDies(u)
      BY <2>1, <2>4 DEF UserSaves, UserDies
    <2> QED
      BY <2>2, <2>3, <2>4 DEF UserStep
  <1>3. PICK r : user' = [user EXCEPT ![u] = r] /\ r = [step |-> r.step, slug |-> r.slug, status |-> r.status, copy |-> r.copy]
    BY <1>2
  <1>4. user = [v \in User |-> user[v]]
    BY DEF HandTypes
  <1>5. user' = [v \in User |-> IF v = u THEN r ELSE user[v]]
    BY <1>3, <1>4
  <1> QED
    BY <1>1, <1>3, <1>5 DEF HandTypes

LEMMA UserHolds ==
  ASSUME HandTypes, Holding, NEW u \in User, UserStep(u)
  PROVE  Holding'
  <1> USE DEF Holding
  <1>0. UNCHANGED worker /\ \A v \in User : v # u => user'[v] = user[v]
    <2>1. user = [v \in User |-> user[v]]
      BY DEF HandTypes
    <2>2. \E r : user' = [user EXCEPT ![u] = r]
      BY DEF UserStep, Ask, UserLoads, UserSaves, UserDies
    <2> QED
      BY <2>1, <2>2, UserHand
  <1>1. user[u] = [step |-> user[u].step, slug |-> user[u].slug, status |-> user[u].status, copy |-> user[u].copy]
        /\ u \in DOMAIN user
    BY DEF HandTypes
  <1>2. CASE Ask(u)
    <2>1. user'[u].step = "lock" /\ UNCHANGED <<store, lock, sum>>
      BY <1>1, <1>2 DEF Ask
    <2> QED
      BY <1>0, <2>1
  <1>3. CASE UserLoads(u)
    <2>1. UNCHANGED <<store, sum>> /\ lock = Nobody
      BY <1>3 DEF UserLoads
    <2>2. \/ lock' = u /\ user'[u].step = "save" /\ user'[u].copy = store
          \/ lock' = lock /\ user'[u].step = "idle"
      BY <1>1, <1>3 DEF UserLoads
    <2> QED
      BY <1>0, <2>1, <2>2, Distinct
  <1>4. CASE UserSaves(u)
    <2>1. user'[u].step = "idle" /\ lock = u /\ store' = sum'
      BY <1>1, <1>4 DEF UserSaves
    <2>2. worker.step \notin {"load", "save"} /\ \A v \in User : v # u => user[v].step # "save"
      BY <2>1, Distinct
    <2> QED
      BY <1>0, <2>1, <2>2
  <1>5. CASE UserDies(u)
    <2>1. user'[u].step = "idle" /\ lock = u /\ UNCHANGED <<store, sum>>
      BY <1>1, <1>5 DEF UserDies
    <2>2. worker.step \notin {"load", "save"} /\ \A v \in User : v # u => user[v].step # "save"
      BY <2>1, Distinct
    <2> QED
      BY <1>0, <2>1, <2>2
  <1> QED
    BY <1>2, <1>3, <1>4, <1>5 DEF UserStep

LEMMA Cases ==
  ASSUME [Next]_vars
  PROVE  \/ Analysis \/ \E u \in User : UserStep(u)
         \/ Orchestrate /\ UNCHANGED <<worker, svars>>
         \/ UNCHANGED vars
  BY Zenon DEF Next, UserStep

LEMMA HoldingNext == HandTypes /\ Holding /\ [Next]_vars => HandTypes' /\ Holding'
  <1> SUFFICES ASSUME HandTypes, Holding, [Next]_vars PROVE HandTypes' /\ Holding'
    OBVIOUS
  <1>1. CASE Analysis
    BY <1>1, WorkerHand, WorkerHolds
  <1>2. ASSUME NEW u \in User, UserStep(u) PROVE HandTypes' /\ Holding'
    BY <1>2, UserHand, UserHolds
  <1>3. ASSUME UNCHANGED <<worker, svars>> PROVE HandTypes' /\ Holding'
    BY <1>3 DEF svars, HandTypes, Holding
  <1>4. CASE UNCHANGED vars
    BY <1>3, <1>4 DEF vars
  <1> QED
    BY <1>1, <1>2, <1>3, <1>4, Cases

\* events.rs, RequestsLock with ingest_analysis and set_request_status: whoever merges or decides
\* works on the list as it is, so the list is what the completed operations make of it in turn,
\* for any number of clients and whichever of them dies in the middle.
THEOREM StoreIsSum == Spec => []StoreIsSumOfOperations
  <1>1. Holding => StoreIsSumOfOperations
    BY DEF Holding, StoreIsSumOfOperations
  <1> QED
    BY HandInit, HoldingNext, <1>1, PTL DEF Spec

-----------------------------------------------------------------------------
(* What merging and deciding do to the jobs of a request. *)

LEMMA MergedJobs ==
  ASSUME NEW r, NEW i, IsList(r), IsList(i)
  PROVE  /\ IsList(Merged(r, i))
         /\ \A s \in Slug : Merged(r, i)[s].jobs = r[s].jobs \cup i[s].jobs
  <1>1. PICK m : m = Merged(r, i)
    OBVIOUS
  <1>2. m = [s \in Slug |-> m[s]]
    BY <1>1 DEF Merged
  <1>3. ASSUME NEW s \in Slug
        PROVE  /\ m[s].jobs = r[s].jobs \cup i[s].jobs
               /\ m[s] = [jobs |-> m[s].jobs, evidence |-> m[s].evidence,
                          priority |-> m[s].priority, status |-> m[s].status]
    <2>1. /\ r[s] = [jobs |-> r[s].jobs, evidence |-> r[s].evidence,
                      priority |-> r[s].priority, status |-> r[s].status]
          /\ i[s] = [jobs |-> i[s].jobs, evidence |-> i[s].evidence,
                      priority |-> i[s].priority, status |-> i[s].status]
      BY DEF IsList
    <2>2. CASE ~Stored(i, s)
      BY <1>1, <2>1, <2>2 DEF Merged, Stored
    <2>3. CASE Stored(i, s) /\ ~Stored(r, s)
      BY <1>1, <2>1, <2>3 DEF Merged, Stored
    <2>4. CASE Stored(i, s) /\ Stored(r, s)
      <3>1. PICK p : p = IF i[s].jobs \subseteq r[s].jobs THEN r[s].priority ELSE Raise(r[s].priority)
        OBVIOUS
      <3>2. m[s] = [r[s] EXCEPT !.priority = p, !.jobs = @ \cup i[s].jobs, !.evidence = @ \cup i[s].evidence]
        BY <1>1, <2>4, <3>1 DEF Merged
      <3> QED
        BY <2>1, <3>2
    <2> QED
      BY <2>2, <2>3, <2>4
  <1> QED
    BY <1>1, <1>2, <1>3 DEF IsList

LEMMA DecidedJobs ==
  ASSUME NEW r, NEW s, NEW status, IsList(r)
  PROVE  /\ IsList(Decided(r, s, status))
         /\ \A t \in Slug : Decided(r, s, status)[t].jobs = r[t].jobs
  <1>1. PICK d : d = Decided(r, s, status)
    OBVIOUS
  <1>2. d = [t \in Slug |-> IF t = s THEN [r[t] EXCEPT !.status = status] ELSE r[t]]
    BY <1>1 DEF Decided, IsList
  <1>3. ASSUME NEW t \in Slug
        PROVE  /\ d[t].jobs = r[t].jobs
               /\ d[t] = [jobs |-> d[t].jobs, evidence |-> d[t].evidence,
                          priority |-> d[t].priority, status |-> d[t].status]
    <2>1. r[t] = [jobs |-> r[t].jobs, evidence |-> r[t].evidence, priority |-> r[t].priority, status |-> r[t].status]
      BY DEF IsList
    <2> QED
      BY <1>2, <2>1
  <1>4. d = [t \in Slug |-> d[t]]
    BY <1>2
  <1> QED
    BY <1>1, <1>3, <1>4 DEF IsList

LEMMA EmptyIsList == IsList(Empty) /\ \A s \in Slug : Empty[s].jobs = {}
  BY DEF IsList, Empty, NoRequest

\* The stored list, and what the analyst's answer was made into.
Lists == IsList(store) /\ IsList(worker.incoming)

\* The list changes when the worker or a user saves it, and then no request loses a job.
LEMMA StoreGrows ==
  ASSUME HandTypes, Holding, Lists, [Next]_vars
  PROVE  /\ IsList(store')
         /\ \A s \in Slug : store[s].jobs \subseteq store'[s].jobs
         /\ Save => \A s \in Slug : worker.incoming[s].jobs \subseteq store'[s].jobs
  <1>1. CASE Save
    <2>1. store' = Merged(store, worker.incoming)
      BY <1>1 DEF Save, Holding
    <2> QED
      BY <2>1, MergedJobs DEF Lists
  <1>2. ASSUME NEW u \in User, UserSaves(u) PROVE IsList(store') /\ \A s \in Slug : store'[s].jobs = store[s].jobs
    <2>1. store' = Decided(store, user[u].slug, user[u].status)
      BY <1>2 DEF UserSaves, Holding
    <2> QED
      BY <2>1, DecidedJobs DEF Lists
  <1>3. Save \/ (\E u \in User : UserSaves(u)) \/ store' = store
    BY Cases DEF Analysis, StartAnalysis, Analyse, SkipAnalysis, WriteAnalysis, TakeLock, Load,
       UserStep, Ask, UserLoads, UserDies, svars, vars
  <1>4. ~(\E u \in User : UserSaves(u) /\ Save)
    <2> SUFFICES ASSUME NEW u \in User, UserSaves(u), Save PROVE FALSE
      OBVIOUS
    <2>1. lock = u /\ lock = Worker
      BY DEF UserSaves, Save, Holding
    <2> QED
      BY <2>1, Distinct
  <1>5. CASE store' = store /\ ~Save
    BY <1>5 DEF Lists
  <1> QED
    BY <1>1, <1>2, <1>3, <1>4, <1>5

LEMMA IncomingSteps ==
  ASSUME HandTypes, [Next]_vars
  PROVE  \/ Analyse \/ SkipAnalysis \/ worker'.incoming = worker.incoming
  <1>1. CASE Analysis
    BY <1>1 DEF Analysis, StartAnalysis, WriteAnalysis, TakeLock, Load, Save, HandTypes
  <1>2. ASSUME NEW u \in User, UserStep(u) PROVE worker' = worker
    BY <1>2, UserHand
  <1> QED
    BY <1>1, <1>2, Cases DEF vars

\* build_analysis makes a whole list, of requests of this job alone.
LEMMA AnalyseList ==
  ASSUME HandTypes, Analyse
  PROVE  /\ IsList(worker'.incoming)
         /\ \A s \in Slug : worker'.incoming[s].jobs \in {{}, {job}}
         /\ worker'.step = "write"
  <1>1. PICK S \in SUBSET scen.raise, priority \in Priorities,
             cites \in [Slug -> {AllEvents(job)[i] : i \in DOMAIN AllEvents(job)} \cup {Invented}] :
          worker' = [worker EXCEPT !.step = "write",
               !.incoming = [s \in Slug |->
                  LET evidence == Valid(AllEvents(job), {cites[s]})
                  IN  IF s \in S /\ evidence # {}
                      THEN [jobs |-> {job}, evidence |-> evidence,
                            priority |-> priority, status |-> "open"]
                      ELSE NoRequest]]
    BY DEF Analyse
  <1>2. PICK valid : valid = [s \in Slug |-> Valid(AllEvents(job), {cites[s]})]
    OBVIOUS
  <1>3. PICK l : l = [s \in Slug |-> IF s \in S /\ valid[s] # {}
                       THEN [jobs |-> {job}, evidence |-> valid[s], priority |-> priority, status |-> "open"]
                       ELSE NoRequest]
    OBVIOUS
  <1>4. l = [s \in Slug |->
                  LET evidence == Valid(AllEvents(job), {cites[s]})
                  IN  IF s \in S /\ evidence # {}
                      THEN [jobs |-> {job}, evidence |-> evidence,
                            priority |-> priority, status |-> "open"]
                      ELSE NoRequest]
    BY <1>2, <1>3
  <1>5. worker'.incoming = l /\ worker'.step = "write"
    <2>1. worker' = [worker EXCEPT !.step = "write", !.incoming = l]
      BY <1>1, <1>4
    <2> QED
      BY <2>1 DEF HandTypes
  <1>6. IsList(l) /\ \A s \in Slug : l[s].jobs \in {{}, {job}}
    BY <1>3 DEF IsList, NoRequest
  <1> QED
    BY <1>5, <1>6

LEMMA ListsNext == HandTypes /\ Holding /\ Lists /\ [Next]_vars => Lists'
  <1> SUFFICES ASSUME HandTypes, Holding, Lists, [Next]_vars PROVE Lists'
    OBVIOUS
  <1>1. IsList(store)'
    BY StoreGrows DEF IsList
  <1>2. IsList(worker.incoming)'
    <2>1. CASE Analyse
      BY <2>1, AnalyseList DEF IsList
    <2>2. CASE SkipAnalysis
      BY <2>2, EmptyIsList DEF SkipAnalysis, Rest, IsList, Empty, NoRequest
    <2>3. CASE worker'.incoming = worker.incoming
      BY <2>3 DEF Lists, IsList
    <2> QED
      BY <2>1, <2>2, <2>3, IncomingSteps
  <1> QED
    BY <1>1, <1>2 DEF Lists

-----------------------------------------------------------------------------
(* From the analysis to the list. *)

Ended == {"succeeded", "failed", "cancelled"}

\* The worker's place and the state of its job.
InPlace ==
  /\ scen \in Scenarios /\ job \in Jobs /\ job <= scen.jobs
  /\ worker.step # "run" => main \in Ended

\* Where the requests of the stored analyses are: those of earlier jobs in the list, those of the
\* worker's job in its hands, and none of a later one.
OnTheWay ==
  /\ merged = [j \in Jobs |-> merged[j]]
  /\ worker.step \notin {"run", "analyse"} => \A s \in Slug : worker.incoming[s].jobs \in {{}, {job}}
  /\ worker.step \in {"lock", "load", "save"} => merged[job] = {s \in Slug : Stored(worker.incoming, s)}
  /\ main # "dropped" /\ merged[job] # {} => worker.step \in {"lock", "load", "save"}
  /\ \A j \in Jobs : j > job => merged[j] = {}
  /\ AnalysisReachesStore

\* No step of a run that goes on ends an analysis, or begins one.
LEMMA OrchestrateFrame ==
  Orchestrate => UNCHANGED <<scen, job>> /\ (main' = main \/ main \notin Ended \cup {"dropped"})
  <1> USE DEF Ended, MainStep, logvars
  <1>1. ASSUME NEW t \in Threads, AppendLine(t) \/ PostSkipped(t) \/ Post(t) PROVE UNCHANGED <<scen, job, main>>
    BY <1>1 DEF AppendLine, PostSkipped, Post
  <1>2. ASSUME NEW t \in Helper, Note(t) PROVE UNCHANGED <<scen, job, main>>
    BY <1>2 DEF Note
  <1>3. EndPrevious \/ OpenStage \/ Checkpoint \/ Fail
        => UNCHANGED <<scen, job>> /\ main \notin Ended \cup {"dropped"}
    BY DEF EndPrevious, OpenStage, Checkpoint, Fail
  <1>4. CloseFailed \/ CloseLast \/ Exit => UNCHANGED <<scen, job>> /\ main \notin Ended \cup {"dropped"}
    BY DEF CloseFailed, CloseLast, Exit
  <1>5. Crash \/ Cancel \/ Relaunch \/ GiveUp => UNCHANGED <<scen, job>> /\ main \notin Ended \cup {"dropped"}
    BY DEF Crash, Cancel, Relaunch, GiveUp, Die, Running
  <1> QED
    BY Zenon, <1>1, <1>2, <1>3, <1>4, <1>5 DEF Orchestrate

\* What each step of the worker does to its place, its job and what it has to merge.
LEMMA WorkerPlace ==
  ASSUME HandTypes, Analysis
  PROVE  /\ UNCHANGED scen
         /\ StartAnalysis =>
              worker.step = "run" /\ worker'.step = "analyse" /\ main \in Ended /\ UNCHANGED <<job, main, merged>>
         /\ Analyse =>
              worker.step = "analyse" /\ worker'.step = "write" /\ UNCHANGED <<job, main, merged>>
         /\ WriteAnalysis =>
              /\ worker.step = "write" /\ worker'.step = "lock" /\ UNCHANGED <<job, main>>
              /\ merged' = [merged EXCEPT ![job] = {s \in Slug : Stored(worker.incoming, s)}]
         /\ TakeLock => worker.step = "lock" /\ worker'.step = "load" /\ UNCHANGED <<job, main, merged>>
         /\ Load => worker.step = "load" /\ worker'.step = "save" /\ UNCHANGED <<job, main, merged>>
         /\ Save => /\ worker.step = "save" /\ worker'.step = "run" /\ UNCHANGED merged
                    /\ \/ job < scen.jobs /\ job' = job + 1 /\ main' = "next"
                       \/ job' = job /\ main' = "dropped"
         /\ SkipAnalysis => /\ job < scen.jobs /\ job' = job + 1 /\ main' = "next" /\ worker'.step = "run"
                            /\ merged' = [merged EXCEPT ![job] = {}]
  <1> USE DEF HandTypes, evars, logvars, svars, ToNextJob, Ended
  <1>1. StartAnalysis =>
          /\ worker.step = "run" /\ worker'.step = "analyse" /\ main \in Ended /\ UNCHANGED <<scen, job, main, merged>>
    BY DEF StartAnalysis
  <1>2. Analyse => worker.step = "analyse" /\ worker'.step = "write" /\ UNCHANGED <<scen, job, main, merged>>
    BY AnalyseList DEF Analyse
  <1>3. WriteAnalysis =>
          /\ worker.step = "write" /\ worker'.step = "lock" /\ UNCHANGED <<scen, job, main>>
          /\ merged' = [merged EXCEPT ![job] = {s \in Slug : Stored(worker.incoming, s)}]
    BY DEF WriteAnalysis
  <1>4. TakeLock => worker.step = "lock" /\ worker'.step = "load" /\ UNCHANGED <<scen, job, main, merged>>
    BY DEF TakeLock
  <1>5. Load => worker.step = "load" /\ worker'.step = "save" /\ UNCHANGED <<scen, job, main, merged>>
    BY DEF Load
  <1>6. Save => /\ worker.step = "save" /\ worker'.step = "run" /\ UNCHANGED <<scen, merged>>
                /\ \/ job < scen.jobs /\ job' = job + 1 /\ main' = "next"
                   \/ job' = job /\ main' = "dropped"
    BY DEF Save
  <1>7. SkipAnalysis => /\ job < scen.jobs /\ job' = job + 1 /\ main' = "next" /\ worker'.step = "run" /\ UNCHANGED scen
                        /\ merged' = [merged EXCEPT ![job] = {}]
    BY DEF SkipAnalysis, Rest
  <1> QED
    BY Zenon, <1>1, <1>2, <1>3, <1>4, <1>5, <1>6, <1>7 DEF Analysis

LEMMA PlaceInit == Init => InPlace
  <1>1. \A c \in Scenarios : c.jobs \in Jobs
    BY ScenariosAssumption DEF ScenarioType
  <1>2. \A k \in Jobs : 1 \in Jobs /\ 1 <= k
    BY BoundsAssumption DEF Jobs
  <1> QED
    BY <1>1, <1>2 DEF Init, EventsInit, InPlace

LEMMA NextJob ==
  ASSUME InPlace
  PROVE  /\ job \in Nat /\ job + 1 \in Nat
         /\ job < scen.jobs => job + 1 \in Jobs /\ job + 1 <= scen.jobs
         /\ \A j \in Jobs : j \in Nat
  <1>1. scen.jobs \in Jobs
    BY ScenariosAssumption DEF InPlace, ScenarioType
  <1> QED
    BY <1>1, BoundsAssumption DEF Jobs, InPlace

LEMMA PlaceNext == HandTypes /\ InPlace /\ [Next]_vars => InPlace'
  <1> SUFFICES ASSUME HandTypes, InPlace, [Next]_vars PROVE InPlace'
    OBVIOUS
  <1>1. CASE Analysis
    <2>1. UNCHANGED scen
      BY <1>1, WorkerPlace
    <2>2. CASE StartAnalysis \/ Analyse \/ WriteAnalysis \/ TakeLock \/ Load
      <3>1. UNCHANGED <<job, main>> /\ (worker'.step # "run" => main \in Ended)
        BY <1>1, <2>2, WorkerPlace DEF InPlace
      <3> QED
        BY <2>1, <3>1 DEF InPlace
    <2>3. CASE Save \/ SkipAnalysis
      <3>1. worker'.step = "run" /\ (job' = job \/ (job < scen.jobs /\ job' = job + 1))
        BY <1>1, <2>3, WorkerPlace
      <3> QED
        BY <2>1, <3>1, NextJob DEF InPlace
    <2> QED
      BY <1>1, <2>2, <2>3 DEF Analysis
  <1>2. ASSUME NEW u \in User, UserStep(u) PROVE InPlace'
    BY <1>2, UserHand DEF evars, logvars, InPlace
  <1>3. CASE Orchestrate /\ UNCHANGED <<worker, svars>>
    BY <1>3, OrchestrateFrame DEF InPlace
  <1>4. CASE UNCHANGED vars
    BY <1>4 DEF vars, evars, logvars, InPlace
  <1> QED
    BY <1>1, <1>2, <1>3, <1>4, Cases

LEMMA OnTheWayInit == Init => OnTheWay
  <1> SUFFICES ASSUME Init PROVE OnTheWay
    OBVIOUS
  <1>1. worker.step = "run" /\ merged = [j \in Jobs |-> {}] /\ job \in Jobs
    BY PlaceInit DEF Init, InPlace
  <1> QED
    BY <1>1 DEF OnTheWay, AnalysisReachesStore

\* An analysis raises requests of the list.
MergedTypes == merged \in [Jobs -> SUBSET Slug]

LEMMA MergedTypesNext == HandTypes /\ MergedTypes /\ [Next]_vars => MergedTypes'
  <1> SUFFICES ASSUME HandTypes, MergedTypes, [Next]_vars PROVE MergedTypes'
    OBVIOUS
  <1>1. ASSUME NEW S \in SUBSET Slug, merged' = [merged EXCEPT ![job] = S] PROVE MergedTypes'
    BY <1>1 DEF MergedTypes
  <1>2. CASE WriteAnalysis
    <2>1. {s \in Slug : Stored(worker.incoming, s)} \in SUBSET Slug
      OBVIOUS
    <2> QED
      BY <1>1, <1>2, <2>1 DEF WriteAnalysis
  <1>3. CASE SkipAnalysis
    BY <1>3 DEF SkipAnalysis, MergedTypes
  <1>4. CASE UNCHANGED merged
    BY <1>4 DEF MergedTypes
  <1>5. WriteAnalysis \/ SkipAnalysis \/ UNCHANGED merged
    BY Cases, UserHand DEF Analysis, StartAnalysis, Analyse, TakeLock, Load, Save, svars, vars
  <1> QED
    BY <1>2, <1>3, <1>4, <1>5

\* Requests that are in the list stay there.
LEMMA StillThere ==
  ASSUME HandTypes, Holding, Lists, [Next]_vars, NEW j \in Jobs,
         \A s \in merged[j] : j \in store[s].jobs, merged[j] \subseteq Slug
  PROVE  \A s \in merged[j] : j \in store'[s].jobs
  BY StoreGrows

LEMMA OnTheWayNext ==
  ASSUME HandTypes, Holding, Lists, InPlace, MergedTypes, OnTheWay, [Next]_vars
  PROVE  OnTheWay'
  <1>0. job \in Jobs /\ \A j \in Jobs : j < job => \A s \in merged[j] : j \in store'[s].jobs
    BY StillThere DEF InPlace, MergedTypes, OnTheWay, AnalysisReachesStore
  <1>1. ASSUME UNCHANGED <<merged, job>>, worker' = worker, main' = main \/ main \notin Ended \cup {"dropped"}
        PROVE  OnTheWay'
    <2>1. main' = "dropped" => \A s \in merged[job] : job \in store'[s].jobs
      <3>1. CASE main = "dropped"
        BY <1>0, <3>1, StillThere DEF MergedTypes, OnTheWay, AnalysisReachesStore
      <3>2. CASE main # "dropped" /\ main' = "dropped"
        <4>1. worker.step = "run"
          BY <1>1, <3>2 DEF InPlace, Ended
        <4>2. merged[job] = {}
          BY <3>2, <4>1 DEF OnTheWay
        <4> QED
          BY <4>2
      <3> QED
        BY <3>1, <3>2
    <2>2. main' # "dropped" /\ merged[job] # {} => worker.step \in {"lock", "load", "save"}
      BY <1>1 DEF OnTheWay
    <2>3. AnalysisReachesStore'
      <3> SUFFICES ASSUME NEW j \in Jobs, j < job \/ main' = "dropped"
                   PROVE  \A s \in merged[j] : j \in store'[s].jobs
        BY <1>1 DEF AnalysisReachesStore
      <3>1. j < job \/ j = job \/ merged[j] = {}
        BY NextJob DEF OnTheWay
      <3> QED
        BY <1>0, <2>1, <3>1
    <2> QED
      BY <1>1, <2>2, <2>3 DEF OnTheWay, Stored
  <1>2. CASE Orchestrate /\ UNCHANGED <<worker, svars>>
    BY <1>1, <1>2, OrchestrateFrame DEF svars
  <1>3. ASSUME NEW u \in User, UserStep(u) PROVE OnTheWay'
    BY <1>1, <1>3, UserHand DEF evars, logvars
  <1>4. CASE UNCHANGED vars
    BY <1>1, <1>4 DEF vars, evars, logvars, svars
  <1>5. CASE StartAnalysis \/ TakeLock \/ Load
    <2>1. /\ UNCHANGED <<merged, job, main>> /\ worker'.incoming = worker.incoming
          /\ \/ worker.step = "run" /\ worker'.step = "analyse" /\ main \in Ended
             \/ worker.step = "lock" /\ worker'.step = "load"
             \/ worker.step = "load" /\ worker'.step = "save"
      <3>1. worker'.incoming = worker.incoming
        BY <1>5 DEF StartAnalysis, TakeLock, Load, HandTypes
      <3> QED
        BY <1>5, <3>1, WorkerPlace DEF Analysis
    <2>2. main \in Ended
      BY <2>1 DEF InPlace
    <2>3. AnalysisReachesStore'
      BY <1>0, <2>1, <2>2 DEF AnalysisReachesStore, Ended
    <2>4. merged[job] # {} => worker.step \in {"lock", "load", "save"}
      BY <2>2 DEF OnTheWay, Ended
    <2> QED
      BY <2>1, <2>3, <2>4 DEF OnTheWay, Stored
  <1>6. CASE Analyse
    <2>1. /\ UNCHANGED <<merged, job, main>> /\ worker.step = "analyse" /\ worker'.step = "write"
          /\ \A s \in Slug : worker'.incoming[s].jobs \in {{}, {job}}
      BY <1>6, WorkerPlace, AnalyseList DEF Analysis
    <2>2. main \in Ended
      BY <2>1 DEF InPlace
    <2>3. AnalysisReachesStore'
      BY <1>0, <2>1, <2>2 DEF AnalysisReachesStore, Ended
    <2>4. merged[job] = {}
      BY <2>1, <2>2 DEF OnTheWay, Ended
    <2> QED
      BY <2>1, <2>3, <2>4 DEF OnTheWay
  <1>7. CASE WriteAnalysis
    <2>1. /\ UNCHANGED <<job, main>> /\ worker.step = "write" /\ worker'.step = "lock"
          /\ merged' = [merged EXCEPT ![job] = {s \in Slug : Stored(worker.incoming, s)}]
      BY <1>7, WorkerPlace DEF Analysis
    <2>2. worker'.incoming = worker.incoming
      BY <1>7 DEF WriteAnalysis, HandTypes
    <2>3. main \in Ended
      BY <2>1 DEF InPlace
    <2>4. /\ merged'[job] = {s \in Slug : Stored(worker.incoming, s)}
          /\ \A j \in Jobs : j # job => merged'[j] = merged[j]
          /\ merged' = [j \in Jobs |-> merged'[j]]
      BY <1>0, <2>1 DEF OnTheWay
    <2>5. AnalysisReachesStore'
      <3> SUFFICES ASSUME NEW j \in Jobs, j < job PROVE \A s \in merged'[j] : j \in store'[s].jobs
        BY <2>1, <2>3 DEF AnalysisReachesStore, Ended
      <3>1. j # job
        BY NextJob
      <3> QED
        BY <1>0, <2>4, <3>1
    <2>6. \A j \in Jobs : j > job => merged'[j] = {}
      BY <2>4, NextJob DEF OnTheWay
    <2> QED
      BY <2>1, <2>2, <2>4, <2>5, <2>6 DEF OnTheWay, Stored
  <1>8. CASE Save
    <2>1. /\ worker.step = "save" /\ worker'.step = "run" /\ UNCHANGED merged
          /\ \/ job < scen.jobs /\ job' = job + 1 /\ main' = "next"
             \/ job' = job /\ main' = "dropped"
      BY <1>8, WorkerPlace DEF Analysis
    <2>2. ASSUME NEW s \in merged[job] PROVE job \in store'[s].jobs
      <3>1. s \in Slug /\ worker.incoming[s].jobs = {job}
        BY <2>1 DEF OnTheWay, Stored
      <3> QED
        BY <1>8, <3>1, StoreGrows
    <2>3. \A j \in Jobs : j > job => merged[j] = {}
      BY DEF OnTheWay
    <2>4. AnalysisReachesStore'
      <3> SUFFICES ASSUME NEW j \in Jobs, j < job' \/ main' = "dropped"
                   PROVE  \A s \in merged[j] : j \in store'[s].jobs
        BY <2>1 DEF AnalysisReachesStore
      <3>1. j < job \/ j = job \/ j > job
        BY NextJob
      <3> QED
        BY <1>0, <2>2, <2>3, <3>1
    <2>5. \A j \in Jobs : j > job' => merged[j] = {}
      BY <2>1, <2>3, NextJob
    <2>6. main' # "dropped" => merged[job'] = {}
      BY <2>1, <2>3, NextJob
    <2> QED
      BY <2>1, <2>4, <2>5, <2>6 DEF OnTheWay
  <1>9. CASE SkipAnalysis
    <2>1. /\ job < scen.jobs /\ job' = job + 1 /\ main' = "next" /\ worker'.step = "run"
          /\ merged' = [merged EXCEPT ![job] = {}]
      BY <1>9, WorkerPlace DEF Analysis
    <2>2. /\ merged'[job] = {}
          /\ \A j \in Jobs : j # job => merged'[j] = merged[j]
          /\ merged' = [j \in Jobs |-> merged'[j]]
      BY <1>0, <2>1 DEF OnTheWay
    <2>3. \A j \in Jobs : j > job => merged'[j] = {}
      BY <2>2, NextJob DEF OnTheWay
    <2>4. AnalysisReachesStore'
      <3> SUFFICES ASSUME NEW j \in Jobs, j < job' PROVE \A s \in merged'[j] : j \in store'[s].jobs
        BY <2>1 DEF AnalysisReachesStore
      <3>1. j < job \/ j = job
        BY <2>1, NextJob
      <3>2. j < job => j # job
        BY NextJob
      <3> QED
        BY <1>0, <2>2, <3>1, <3>2
    <2>5. \A j \in Jobs : j > job' => merged'[j] = {}
      BY <2>1, <2>3, NextJob
    <2>6. merged'[job'] = {}
      BY <2>1, <2>3, NextJob
    <2> QED
      BY <2>1, <2>2, <2>4, <2>5, <2>6 DEF OnTheWay
  <1> QED
    BY <1>2, <1>3, <1>4, <1>5, <1>6, <1>7, <1>8, <1>9, Cases DEF Analysis

\* worker.rs, analyze_job with events.rs, write_analysis and ingest_analysis: what an analysis on
\* disk raises is in the list once the worker has gone on, whatever users decide meanwhile.
THEOREM AnalysesReachTheList == Spec => []AnalysisReachesStore
  <1> DEFINE Inv == HandTypes /\ Holding /\ Lists /\ InPlace /\ MergedTypes /\ OnTheWay
  <1>1. Init => Inv
    <2>1. Init => Lists /\ MergedTypes
      BY EmptyIsList DEF Init, Lists, MergedTypes
    <2> QED
      BY <2>1, HandInit, PlaceInit, OnTheWayInit
  <1>2. Inv /\ [Next]_vars => Inv'
    BY HoldingNext, ListsNext, PlaceNext, MergedTypesNext, OnTheWayNext
  <1>3. Inv => AnalysisReachesStore
    BY DEF OnTheWay
  <1> QED
    BY <1>1, <1>2, <1>3, PTL DEF Spec

-----------------------------------------------------------------------------
(* Merging two copies of a log. *)

\* A finite set in a strict total order: each element's place is one more than the number of those
\* before it, and no place is left out.
LEMMA Places ==
  ASSUME NEW K, IsFiniteSet(K), NEW lt \in SUBSET (K \X K),
         \A i \in K : <<i, i>> \notin lt,
         \A i, j \in K : i = j \/ <<i, j>> \in lt \/ <<j, i>> \in lt,
         \A i, j, k \in K : <<i, j>> \in lt /\ <<j, k>> \in lt => <<i, k>> \in lt
  PROVE  [i \in K |-> Cardinality({j \in K : <<j, i>> \in lt}) + 1] \in Bijection(K, 1..Cardinality(K))
  <1> DEFINE Before(i) == {j \in K : <<j, i>> \in lt}
             n == Cardinality(K)
             place == [i \in K |-> Cardinality(Before(i)) + 1]
  <1>1. n \in Nat
    BY FS_CardinalityType
  <1>2. ASSUME NEW i \in K
        PROVE  IsFiniteSet(Before(i)) /\ Cardinality(Before(i)) \in Nat /\ Cardinality(Before(i)) < n
    <2>1. Before(i) \in SUBSET K /\ i \notin Before(i)
      OBVIOUS
    <2>2. /\ IsFiniteSet(Before(i)) /\ Cardinality(Before(i)) <= n
          /\ n = Cardinality(Before(i)) => K = Before(i)
      BY <2>1, FS_Subset
    <2>3. Cardinality(Before(i)) \in Nat
      BY <2>2, FS_CardinalityType
    <2> HIDE DEF Before, n
    <2> QED
      BY <1>1, <2>1, <2>2, <2>3
  <1>3. ASSUME NEW i \in K, NEW j \in K, <<i, j>> \in lt
        PROVE  Cardinality(Before(i)) # Cardinality(Before(j))
    <2>1. Before(i) \in SUBSET Before(j) /\ i \in Before(j) /\ i \notin Before(i)
      BY <1>3
    <2> HIDE DEF Before
    <2>2. Cardinality(Before(j)) = Cardinality(Before(i)) => Before(j) = Before(i)
      BY <1>2, <2>1, FS_Subset
    <2> QED
      BY <2>1, <2>2
  <1>4. place \in Injection(K, 1..n)
    <2> HIDE DEF Before, n
    <2>1. \A i \in K : place[i] \in 1..n
      BY <1>1, <1>2
    <2>2. ASSUME NEW i \in K, NEW j \in K, place[i] = place[j] PROVE i = j
      <3>1. Cardinality(Before(i)) = Cardinality(Before(j))
        BY <1>2, <2>2
      <3> QED
        BY <1>3, <3>1
    <2> QED
      BY <2>1, <2>2 DEF Injection, IsInjective
  <1>5. IsFiniteSet(1..n) /\ Cardinality(1..n) = n
    BY <1>1, FS_Interval
  <1> HIDE DEF place
  <1>6. place \in Surjection(K, 1..n)
    BY <1>4, <1>5, FS_Injection
  <1> QED
    BY <1>4, <1>6 DEF Bijection, place

\* A bijection takes as many elements into a set as the set has.
LEMMA Preimage ==
  ASSUME NEW S, NEW T, NEW f \in Bijection(S, T), NEW U \in SUBSET T, IsFiniteSet(U),
         NEW V, V = {x \in S : f[x] \in U}
  PROVE  IsFiniteSet(V) /\ Cardinality(V) = Cardinality(U)
  <1> DEFINE g == [x \in V |-> f[x]]
  <1>1. g \in Injection(V, U)
    BY DEF Bijection, Injection, IsInjective
  <1>2. g \in Surjection(V, U)
    BY DEF Bijection, Surjection
  <1> HIDE DEF g
  <1> QED
    BY <1>1, <1>2, FS_Injection

LEMMA Occurrences ==
  ASSUME NEW S, NEW l \in Seq(S), NEW e
  PROVE  /\ IsFiniteSet({i \in DOMAIN l : l[i] = e})
         /\ Count(l, e) = Cardinality({i \in DOMAIN l : l[i] = e}) /\ Count(l, e) \in Nat
  <1>1. IsFiniteSet(1..Len(l)) /\ DOMAIN l = 1..Len(l)
    BY FS_Interval
  <1>2. IsFiniteSet({i \in DOMAIN l : l[i] = e})
    BY <1>1, FS_Subset
  <1> QED
    BY <1>2, FS_CardinalityType DEF Count

\* How many occurrences of an event in a log come after its first c.
LEMMA LateOccurrences ==
  ASSUME NEW S, NEW l \in Seq(S), NEW e, NEW c \in Nat,
         NEW late, late = {i \in DOMAIN l : l[i] = e /\ Count(SubSeq(l, 1, i), e) > c}
  PROVE  /\ IsFiniteSet(late)
         /\ Cardinality(late) = IF Count(l, e) > c THEN Count(l, e) - c ELSE 0
  <1> DEFINE all == {i \in DOMAIN l : l[i] = e}
             lt == {p \in all \X all : p[1] < p[2]}
             m == Cardinality(all)
             place == [i \in all |-> Cardinality({j \in all : <<j, i>> \in lt}) + 1]
  <1>1. IsFiniteSet(all) /\ m = Count(l, e) /\ m \in Nat /\ all \subseteq 1..Len(l)
    <2>1. IsFiniteSet(all) /\ Count(l, e) = m /\ Count(l, e) \in Nat
      BY Zenon, Occurrences
    <2> QED
      BY <2>1
  <1>2. place \in Bijection(all, 1..m)
    <2>1. /\ lt \in SUBSET (all \X all)
          /\ \A i, j \in all : <<i, j>> \in lt <=> i < j
      OBVIOUS
    <2>2. all \subseteq Int
      OBVIOUS
    <2> HIDE DEF lt, all
    <2>3. \A i \in all : <<i, i>> \notin lt
      BY <2>1, <2>2
    <2>4. \A i, j \in all : i = j \/ <<i, j>> \in lt \/ <<j, i>> \in lt
      <3> SUFFICES ASSUME NEW i \in all, NEW j \in all PROVE i = j \/ i < j \/ j < i
        BY <2>1
      <3> QED
        BY <2>2
    <2>5. \A i, j, k \in all : <<i, j>> \in lt /\ <<j, k>> \in lt => <<i, k>> \in lt
      BY <2>1, <2>2
    <2> QED
      BY <1>1, <2>1, <2>3, <2>4, <2>5, Places
  <1>3. ASSUME NEW i \in all PROVE Count(SubSeq(l, 1, i), e) = place[i]
    <2> DEFINE before == {j \in all : <<j, i>> \in lt}
               upTo == {j \in DOMAIN SubSeq(l, 1, i) : SubSeq(l, 1, i)[j] = e}
    <2>1. i \in 1..Len(l)
      OBVIOUS
    <2>2. DOMAIN SubSeq(l, 1, i) = 1..i /\ \A j \in 1..i : SubSeq(l, 1, i)[j] = l[j]
      BY <2>1
    <2>3. upTo = {j \in 1..i : l[j] = e}
      BY <2>2
    <2>4. before = {j \in 1..(i - 1) : l[j] = e}
      BY <2>1
    <2>5. upTo = before \cup {i} /\ i \notin before
      BY <2>1, <2>3, <2>4
    <2>6. IsFiniteSet(before)
      BY <1>1, FS_Subset
    <2> HIDE DEF before, upTo
    <2>7. Cardinality(upTo) = Cardinality(before) + 1
      BY <2>5, <2>6, FS_AddElement
    <2> QED
      BY <2>7 DEF Count, before, upTo
  <1>4. late = {i \in all : place[i] \in (c + 1)..m}
    <2>1. \A i \in all : place[i] \in 1..m
      BY <1>2 DEF Bijection, Injection, IsInjective
    <2> HIDE DEF place
    <2>2. \A i \in all : Count(SubSeq(l, 1, i), e) > c <=> place[i] \in (c + 1)..m
      BY <1>1, <1>3, <2>1
    <2> QED
      BY <2>2
  <1> HIDE DEF place, m, all
  <1> DEFINE places == 1..m
             latePlaces == (c + 1)..m
  <1>5. /\ IsFiniteSet(latePlaces) /\ latePlaces \in SUBSET places
        /\ Cardinality(latePlaces) = IF m > c THEN m - c ELSE 0
    <2>1. c + 1 \in Int /\ m \in Int
      BY <1>1
    <2>2. /\ IsFiniteSet((c + 1)..m)
          /\ Cardinality((c + 1)..m) = IF c + 1 > m THEN 0 ELSE m - (c + 1) + 1
      BY <2>1, FS_Interval
    <2> QED
      BY <1>1, <2>2
  <1>6. place \in Bijection(all, places) /\ late = {i \in all : place[i] \in latePlaces}
    BY <1>2, <1>4
  <1> HIDE DEF places, latePlaces
  <1>7. IsFiniteSet(late) /\ Cardinality(late) = Cardinality(latePlaces)
    BY <1>5, <1>6, Preimage
  <1> QED
    BY <1>1, <1>5, <1>7

LEMMA IsBijection ==
  ASSUME NEW S, NEW T, NEW f \in Bijection(S, T)
  PROVE  /\ f \in [S -> T] /\ \A x, y \in S : f[x] = f[y] => x = y
         /\ \A z \in T : \E x \in S : f[x] = z
  BY DEF Bijection, Injection, IsInjective, Surjection

\* Indexes in the order of their times, those of one time in their own order.
LEMMA TimesPlace ==
  ASSUME NEW K \in SUBSET Int, IsFiniteSet(K), NEW both, \A i \in K : both[i].ts \in Nat
  PROVE  [i \in K |-> Cardinality({j \in K : both[j].ts < both[i].ts \/ (both[j].ts = both[i].ts /\ j < i)}) + 1]
           \in Bijection(K, 1..Cardinality(K))
  <1> DEFINE Before(i, j) == both[i].ts < both[j].ts \/ (both[i].ts = both[j].ts /\ i < j)
             lt == {p \in K \X K : Before(p[1], p[2])}
  <1>1. lt \in SUBSET (K \X K) /\ \A i, j \in K : <<i, j>> \in lt <=> Before(i, j)
    OBVIOUS
  <1>2. \A i \in K : {j \in K : Before(j, i)} = {j \in K : <<j, i>> \in lt}
    BY <1>1
  <1> HIDE DEF lt
  <1>3. \A i \in K : <<i, i>> \notin lt
    BY <1>1
  <1>4. \A i, j \in K : i = j \/ <<i, j>> \in lt \/ <<j, i>> \in lt
    <2> SUFFICES ASSUME NEW i \in K, NEW j \in K PROVE i = j \/ Before(i, j) \/ Before(j, i)
      BY <1>1
    <2> DEFINE a == both[i].ts
               b == both[j].ts
    <2>1. a \in Nat /\ b \in Nat /\ i \in Int /\ j \in Int
      OBVIOUS
    <2> HIDE DEF a, b
    <2>2. i = j \/ (a < b \/ (a = b /\ i < j)) \/ (b < a \/ (b = a /\ j < i))
      BY <2>1
    <2> QED
      BY <2>2 DEF a, b
  <1>5. \A i, j, k \in K : <<i, j>> \in lt /\ <<j, k>> \in lt => <<i, k>> \in lt
    <2> SUFFICES ASSUME NEW i \in K, NEW j \in K, NEW k \in K, Before(i, j), Before(j, k) PROVE Before(i, k)
      BY <1>1
    <2> DEFINE a == both[i].ts
               b == both[j].ts
               c == both[k].ts
    <2>1. a \in Nat /\ b \in Nat /\ c \in Nat /\ i \in Int /\ j \in Int /\ k \in Int
      OBVIOUS
    <2>2. (a < b \/ (a = b /\ i < j)) /\ (b < c \/ (b = c /\ j < k))
      OBVIOUS
    <2> HIDE DEF a, b, c
    <2>3. a < c \/ (a = c /\ i < k)
      BY <2>1, <2>2
    <2> QED
      BY <2>3 DEF a, c
  <1>6. [i \in K |-> Cardinality({j \in K : <<j, i>> \in lt}) + 1] \in Bijection(K, 1..Cardinality(K))
    BY <1>1, <1>3, <1>4, <1>5, Places
  <1> QED
    BY <1>2, <1>6

\* The sequence that has at each place the element that belongs there has each value as often.
LEMMA SequencedCount ==
  ASSUME NEW K, NEW T, IsFiniteSet(T), NEW place \in Bijection(K, T), NEW both, NEW e,
         NEW log, DOMAIN log = T, \A i \in K : log[place[i]] = both[i],
         NEW from, from = {i \in K : both[i] = e}
  PROVE  Count(log, e) = Cardinality(from)
  <1> DEFINE there == {k \in DOMAIN log : log[k] = e}
  <1>1. place \in [K -> T] /\ \A i, j \in K : place[i] = place[j] => i = j
    BY IsBijection
  <1>2. ASSUME NEW i \in K PROVE place[i] \in DOMAIN log /\ log[place[i]] = both[i]
    BY <1>1
  <1>3. there \in SUBSET T
    OBVIOUS
  <1>5. IsFiniteSet(there)
    <2> HIDE DEF there
    <2> QED
      BY <1>3, FS_Subset
  <1>6. from = {i \in K : place[i] \in there}
    BY <1>2
  <1>7. Count(log, e) = Cardinality(there)
    BY DEF Count
  <1> HIDE DEF there
  <1>8. Cardinality(from) = Cardinality(there)
    BY <1>3, <1>5, <1>6, Preimage
  <1> QED
    BY <1>7, <1>8

LEMMA Put ==
  ASSUME NEW S, NEW r \in Seq(S), NEW l \in Seq(S)
  PROVE  /\ r \o l \in Seq(S) /\ DOMAIN (r \o l) = 1..(Len(r) + Len(l))
         /\ \A i \in 1..Len(r) : (r \o l)[i] = r[i]
         /\ \A i \in DOMAIN (r \o l) : i > Len(r) => i - Len(r) \in DOMAIN l /\ (r \o l)[i] = l[i - Len(r)]
         /\ \A i \in DOMAIN l : i + Len(r) \in DOMAIN (r \o l)
  OBVIOUS

\* A set that is moved by r keeps its size.
LEMMA Shifted ==
  ASSUME NEW late \in SUBSET Int, IsFiniteSet(late), NEW r \in Int, NEW new \in SUBSET Int,
         \A i \in new : i - r \in late, \A j \in late : j + r \in new
  PROVE  IsFiniteSet(new) /\ Cardinality(new) = Cardinality(late)
  <1> DEFINE g == [i \in new |-> i - r]
  <1>1. g \in Injection(new, late)
    <2>1. \A i, j \in new : i - r = j - r => i = j
      OBVIOUS
    <2> QED
      BY <2>1 DEF Injection, IsInjective
  <1>2. g \in Surjection(new, late)
    <2>1. \A j \in late : j + r \in new /\ (j + r) - r = j
      OBVIOUS
    <2> QED
      BY <2>1 DEF Surjection
  <1> HIDE DEF g
  <1> QED
    BY <1>1, <1>2, FS_Injection

\* events.rs, merge_event_sources: "keeping each distinct event as many times as the file that has
\* it most often".
THEOREM MergeIsUnion ==
  ASSUME NEW remote \in Seq(Event), NEW local \in Seq(Event), NEW e \in Event
  PROVE  Count(Merge(remote, local), e) =
           IF Count(local, e) > Count(remote, e) THEN Count(local, e) ELSE Count(remote, e)
  <1> DEFINE both == remote \o local
             r == Len(remote)
             kept == {i \in DOMAIN both : i > r =>
                        Count(SubSeq(local, 1, i - r), both[i]) > Count(remote, both[i])}
             Before(i, j) == both[i].ts < both[j].ts \/ (both[i].ts = both[j].ts /\ i < j)
             place == [i \in kept |-> Cardinality({j \in kept : Before(j, i)}) + 1]
             n == Cardinality(kept)
             log == [k \in 1..n |-> both[CHOOSE i \in kept : place[i] = k]]
             c == Count(remote, e)
             old == {i \in DOMAIN remote : remote[i] = e}
             new == {i \in DOMAIN both : i > r /\ both[i] = e /\ Count(SubSeq(local, 1, i - r), e) > c}
             from == {i \in kept : both[i] = e}
  <1>1. Merge(remote, local) = log
    BY DEF Merge
  <1>2. /\ both \in Seq(Event) /\ r \in Nat /\ DOMAIN both = 1..(r + Len(local)) /\ Len(local) \in Nat
        /\ \A i \in 1..r : both[i] = remote[i]
        /\ DOMAIN remote = 1..r
    BY Put
  <1>3. kept \in SUBSET (DOMAIN both)
    OBVIOUS
  <1>4. IsFiniteSet(kept) /\ n \in Nat
    <2>1. IsFiniteSet(DOMAIN both)
      BY <1>2, FS_Interval
    <2> HIDE DEF kept, both
    <2> QED
      BY <1>3, <2>1, FS_Subset, FS_CardinalityType
  <1>5. kept \in SUBSET Int /\ \A i \in kept : both[i].ts \in Nat
    <2> HIDE DEF both, kept, r
    <2>1. \A i \in kept : i \in Int /\ both[i] \in Event
      BY <1>2, <1>3
    <2> QED
      BY <2>1 DEF Event
  <1>6. place \in Bijection(kept, 1..n)
    <2> HIDE DEF both, kept, r
    <2> QED
      BY <1>4, <1>5, TimesPlace
  <1>7. Count(log, e) = Cardinality(from)
    <2> DEFINE places == 1..n
    <2>1. from = {i \in kept : both[i] = e} /\ place \in Bijection(kept, places) /\ DOMAIN log = places
      BY <1>6
    <2> HIDE DEF both, kept, r, place, from, n
    <2>2. IsFiniteSet(places)
      BY <1>4, FS_Interval
    <2> HIDE DEF places
    <2>3. ASSUME NEW i \in kept PROVE log[place[i]] = both[i]
      <3>1. place[i] \in places /\ \A j \in kept : place[j] = place[i] => j = i
        BY <2>1, IsBijection
      <3>2. (CHOOSE j \in kept : place[j] = place[i]) = i
        BY <3>1
      <3> QED
        BY <3>1, <3>2 DEF places
    <2> HIDE DEF log
    <2> QED
      BY <2>1, <2>2, <2>3, SequencedCount
  <1>8. from = old \cup new /\ old \cap new = {}
    <2>1. \A i \in DOMAIN both :
            i \in kept <=> (i > r => Count(SubSeq(local, 1, i - r), both[i]) > Count(remote, both[i]))
      OBVIOUS
    <2>2. \A i \in DOMAIN both : i > r <=> i \notin 1..r
      <3> HIDE DEF both, r
      <3> QED
        BY <1>2
    <2>3. 1..r \subseteq DOMAIN both
      <3> HIDE DEF both, r
      <3> QED
        BY <1>2
    <2> HIDE DEF both, r, kept
    <2> QED
      BY <1>2, <1>3, <2>1, <2>2, <2>3
  <1>9. IsFiniteSet(old) /\ Cardinality(old) = c /\ c \in Nat /\ Count(local, e) \in Nat
    BY Occurrences
  <1>10. IsFiniteSet(new) /\ Cardinality(new) = IF Count(local, e) > c THEN Count(local, e) - c ELSE 0
    <2> DEFINE late == {i \in DOMAIN local : local[i] = e /\ Count(SubSeq(local, 1, i), e) > c}
    <2>1. late = {i \in DOMAIN local : local[i] = e /\ Count(SubSeq(local, 1, i), e) > c}
      OBVIOUS
    <2>2. late \in SUBSET Int /\ new \in SUBSET Int /\ r \in Int
      OBVIOUS
    <2>3. \A i \in new : i - r \in late
      <3> SUFFICES ASSUME NEW i \in DOMAIN both, i > r, both[i] = e, Count(SubSeq(local, 1, i - r), e) > c
                   PROVE  i - r \in late
        OBVIOUS
      <3>1. i - r \in DOMAIN local /\ local[i - r] = e
        OBVIOUS
      <3> QED
        BY <3>1
    <2>4. \A j \in late : j + r \in new
      <3> SUFFICES ASSUME NEW j \in DOMAIN local, local[j] = e, Count(SubSeq(local, 1, j), e) > c
                   PROVE  j + r \in new
        OBVIOUS
      <3>1. j + r \in DOMAIN both /\ j + r > r /\ both[j + r] = e /\ (j + r) - r = j
        OBVIOUS
      <3> QED
        BY <3>1
    <2> HIDE DEF c, r, both, new, late
    <2>5. IsFiniteSet(late) /\ Cardinality(late) = IF Count(local, e) > c THEN Count(local, e) - c ELSE 0
      BY <1>9, <2>1, LateOccurrences
    <2> QED
      BY <2>2, <2>3, <2>4, <2>5, Shifted
  <1> HIDE DEF log, kept, both, old, new, c, from
  <1>11. Cardinality(old \cup new) = c + Cardinality(new)
    <2>1. Cardinality(old \cup new) = Cardinality(old) + Cardinality(new) - Cardinality(old \cap new)
      BY <1>9, <1>10, FS_Union
    <2>2. Cardinality(old \cap new) = 0
      BY <1>8, FS_EmptySet
    <2>3. Cardinality(new) \in Nat
      BY <1>10, FS_CardinalityType
    <2> QED
      BY <1>9, <2>1, <2>2, <2>3
  <1>12. Count(Merge(remote, local), e) = IF Count(local, e) > c THEN Count(local, e) ELSE c
    BY <1>1, <1>7, <1>8, <1>9, <1>10, <1>11
  <1> QED
    BY <1>12 DEF c

-----------------------------------------------------------------------------
(* The record of a run. *)

\* What threads, logs and clock are.
RecordTypes ==
  /\ stage \in 0..Stages /\ now \in Nat
  /\ at \in [Threads -> [step : {"idle", "append", "post"}, event : Event]]
  /\ file \in [Jobs -> Seq(Event)] /\ served \in [Jobs -> Seq(Event)] /\ emitted \in [Jobs -> Seq(Event)]
  /\ cut \in [Jobs -> BOOLEAN] /\ torn \in [Jobs -> Seq(Event)]
  /\ done \in [Jobs -> 0..Stages]

\* A stage joins its threads, and a run that is over has none.
Settled ==
  /\ main # "work" => \A t \in Threads \ {Main} : at[t].step = "idle"
  /\ main \notin Running => \A t \in Threads : at[t].step = "idle"

Posting(e) == {t \in Threads : at[t].step = "post" /\ at[t].event = e}

\* An event is at the server as often as it was emitted and is not about to be posted, at most,
\* and in the workspace as often as it was emitted, but for what went into the rest of a cut line.
Accounted ==
  /\ \A e \in Event : \A P \in SUBSET Posting(e) :
       IsFiniteSet(P) => Count(served[job], e) + Cardinality(P) <= Count(emitted[Ws], e)
  /\ \A j \in Jobs : j > job => served[j] = << >>
  /\ \A w \in Jobs, e \in Event : Count(file[w], e) + Count(torn[w], e) = Count(emitted[w], e)
  /\ \A w \in Jobs : torn[w] = << >> => file[w] = emitted[w]

LEMMA WsType == InPlace => Ws \in Jobs /\ scen.stages \in 0..Stages /\ job \in Jobs
  BY ScenariosAssumption DEF InPlace, ScenarioType, Ws

LEMMA NoEventType == NotEmitting \in [step : {"idle", "append", "post"}, event : Event]
  BY BoundsAssumption DEF NotEmitting, NoEvent, Event, Kinds, NoStage

LEMMA Created ==
  ASSUME RecordTypes, NEW t \in Threads, NEW kind \in Kinds, NEW label \in 0..Stages,
         NEW times \in {SoonOrLater, Later}, Create(t, kind, label, times)
  PROVE  /\ now' \in Nat /\ at' \in [Threads -> [step : {"idle", "append", "post"}, event : Event]]
         /\ \A u \in Threads : u # t => at'[u] = at[u]
         /\ at[t].step = "idle" /\ at'[t].step = "append"
  <1>1. PICK ts \in times :
          /\ now' = ts
          /\ at' = [at EXCEPT ![t] = [step |-> "append", event |-> [ts |-> ts, kind |-> kind, stage |-> label]]]
    BY DEF Create
  <1>2. ts \in Nat
    <2>1. now \in Nat /\ now + 1 \in Nat
      BY DEF RecordTypes
    <2>2. ts \in {now, now + 1}
      BY Zenon DEF SoonOrLater, Later
    <2> QED
      BY <2>1, <2>2
  <1>3. [step |-> "append", event |-> [ts |-> ts, kind |-> kind, stage |-> label]]
          \in [step : {"idle", "append", "post"}, event : Event]
    BY <1>2 DEF Event
  <1> QED
    BY <1>1, <1>2, <1>3 DEF RecordTypes, Create

LEMMA MainIsThread == Main \in Threads /\ Helper \subseteq Threads
  BY DEF Threads

\* A step that creates at most one event: it touches no log.
Creating == EndPrevious \/ OpenStage \/ Fail \/ CloseFailed \/ CloseLast \/ \E t \in Helper : Note(t)

LEMMA CreatingTypes ==
  ASSUME RecordTypes, Settled, InPlace, Creating
  PROVE  /\ RecordTypes' /\ Settled' /\ UNCHANGED <<scen, job, file, served, emitted, cut, torn>>
         /\ \A e : Posting(e)' \subseteq Posting(e)
  <1> USE MainIsThread, WsType DEF Kinds
  <1>1. UNCHANGED <<scen, job, file, served, emitted, cut, torn, done>>
    BY DEF Creating, EndPrevious, OpenStage, Fail, CloseFailed, CloseLast, Note
  <1>2. stage' \in 0..Stages
    BY BoundsAssumption DEF Creating, EndPrevious, OpenStage, Fail, CloseFailed, CloseLast, Note, NoStage,
       RecordTypes, StagesLeft, NextStage
  <1>3. ASSUME NEW t \in Threads, NEW kind \in Kinds, NEW label \in 0..Stages,
               NEW times \in {SoonOrLater, Later}, Create(t, kind, label, times),
               t = Main \/ main' = "work", main' \in Running, main' # "work" => main # "work" \/ Quiet
        PROVE  RecordTypes' /\ Settled' /\ \A e : Posting(e)' \subseteq Posting(e)
    <2>1. /\ now' \in Nat /\ at' \in [Threads -> [step : {"idle", "append", "post"}, event : Event]]
          /\ \A u \in Threads : u # t => at'[u] = at[u]
          /\ at[t].step = "idle" /\ at'[t].step = "append"
      BY <1>3, Created
    <2>2. Settled'
      BY <1>3, <2>1 DEF Settled, Quiet
    <2> QED
      BY <1>1, <1>2, <2>1, <2>2 DEF RecordTypes, Posting
  <1>4. ASSUME UNCHANGED <<at, now>>, main' \in Running, main # "work"
        PROVE  RecordTypes' /\ Settled' /\ \A e : Posting(e)' \subseteq Posting(e)
    BY <1>1, <1>2, <1>4 DEF RecordTypes, Settled, Posting, Running
  <1>5. stage \in 0..Stages
    BY DEF RecordTypes
  <1>6. CASE EndPrevious
    BY <1>3, <1>5, <1>6 DEF EndPrevious, MainStep, Running
  <1>7. CASE OpenStage
    <2>1. NextStage \in 0..Stages
      BY <1>2, <1>7 DEF OpenStage
    <2> QED
      BY <1>3, <1>7, <2>1 DEF OpenStage, MainStep, Running
  <1>8. CASE Fail
    BY <1>3, <1>5, <1>8 DEF Fail, MainStep, Running
  <1>9. CASE CloseFailed
    BY <1>3, <1>4, <1>5, <1>9 DEF CloseFailed, MainStep, Running
  <1>10. CASE CloseLast
    BY <1>3, <1>4, <1>5, <1>10 DEF CloseLast, MainStep, Running
  <1>11. ASSUME NEW t \in Helper, Note(t)
         PROVE  RecordTypes' /\ Settled' /\ \A e : Posting(e)' \subseteq Posting(e)
    <2>1. main' = "work" /\ \E kind \in {"note", "error"} : Create(t, kind, stage, SoonOrLater)
      BY <1>11 DEF Note
    <2> QED
      BY <1>3, <1>5, <2>1 DEF Running
  <1> QED
    BY <1>1, <1>6, <1>7, <1>8, <1>9, <1>10, <1>11 DEF Creating

\* A step that leaves every thread and log as it is.
Still == UNCHANGED <<scen, job, at, file, served, emitted, cut, torn>>

LEMMA StillTypes ==
  ASSUME RecordTypes, Settled, InPlace, Checkpoint \/ Exit \/ Relaunch \/ GiveUp
  PROVE  RecordTypes' /\ Settled' /\ Still
  <1> USE DEF Still
  <1>1. CASE Checkpoint
    BY <1>1, WsType, MainIsThread DEF Checkpoint, MainStep, RecordTypes, Settled, Quiet, Running
  <1>2. CASE Exit
    BY <1>2 DEF Exit, MainStep, RecordTypes, Settled, Running, logvars
  <1>3. CASE Relaunch
    BY <1>3, BoundsAssumption DEF Relaunch, RecordTypes, Settled, Running, NoStage
  <1>4. CASE GiveUp
    BY <1>4 DEF GiveUp, RecordTypes, Settled, Running, logvars
  <1> QED
    BY <1>1, <1>2, <1>3, <1>4

LEMMA DieTypes ==
  ASSUME RecordTypes, InPlace, Crash \/ Cancel
  PROVE  /\ RecordTypes' /\ Settled' /\ UNCHANGED <<scen, job, file, served, torn, emitted>>
         /\ \A e : Posting(e)' = {}
  <1>1. /\ at' = [t \in Threads |-> NotEmitting] /\ stage' = stage
        /\ UNCHANGED <<scen, job, file, served, done, now, torn, emitted>>
        /\ \E tear \in BOOLEAN : cut' = [cut EXCEPT ![Ws] = @ \/ tear]
    BY DEF Crash, Cancel, Die
  <1>2. cut' \in [Jobs -> BOOLEAN]
    BY <1>1, WsType DEF RecordTypes
  <1>3. RecordTypes'
    BY <1>1, <1>2, NoEventType DEF RecordTypes
  <1> QED
    BY <1>1, <1>3 DEF Settled, Posting, NotEmitting

LEMMA EmitTypes ==
  ASSUME RecordTypes, Settled, InPlace, NEW t \in Threads, AppendLine(t) \/ PostSkipped(t) \/ Post(t)
  PROVE  RecordTypes' /\ Settled'
  <1>1. UNCHANGED <<stage, now, done, main>>
    BY DEF AppendLine, PostSkipped, Post
  <1>2. /\ at[t].step # "idle" /\ at' \in [Threads -> [step : {"idle", "append", "post"}, event : Event]]
        /\ \A u \in Threads : u # t => at'[u] = at[u]
    <2>1. /\ at[t].step # "idle"
          /\ at' = [at EXCEPT ![t].step = "post"] \/ at' = [at EXCEPT ![t] = NotEmitting]
      BY DEF AppendLine, PostSkipped, Post
    <2>2. CASE at' = [at EXCEPT ![t].step = "post"]
      BY <2>1, <2>2 DEF RecordTypes
    <2>3. CASE at' = [at EXCEPT ![t] = NotEmitting]
      BY <2>1, <2>3, NoEventType DEF RecordTypes
    <2> QED
      BY <2>1, <2>2, <2>3
  <1>3. at[t].event \in Event
    BY DEF RecordTypes
  <1>4. /\ file' \in [Jobs -> Seq(Event)] /\ emitted' \in [Jobs -> Seq(Event)]
        /\ served' \in [Jobs -> Seq(Event)] /\ torn' \in [Jobs -> Seq(Event)] /\ cut' \in [Jobs -> BOOLEAN]
    <2>1. CASE AppendLine(t)
      BY <1>3, <2>1, WsType DEF AppendLine, RecordTypes
    <2>2. CASE PostSkipped(t) \/ Post(t)
      <3>1. served' = served \/ served' = [served EXCEPT ![job] = Append(@, at[t].event)]
        BY <2>2 DEF PostSkipped, Post, Arrives
      <3>2. UNCHANGED <<file, emitted, cut, torn>>
        BY <2>2 DEF PostSkipped, Post
      <3>3. CASE served' = [served EXCEPT ![job] = Append(@, at[t].event)]
        <4>1. Append(served[job], at[t].event) \in Seq(Event)
          BY <1>3, WsType DEF RecordTypes
        <4> QED
          BY <3>2, <3>3, <4>1 DEF RecordTypes
      <3> QED
        BY <3>1, <3>2, <3>3 DEF RecordTypes
    <2> QED
      BY <2>1, <2>2
  <1> QED
    BY <1>1, <1>2, <1>4 DEF RecordTypes, Settled

-----------------------------------------------------------------------------
LEMMA CountAppend ==
  ASSUME NEW S, NEW l \in Seq(S), NEW v \in S, NEW e
  PROVE  Count(Append(l, v), e) = IF v = e THEN Count(l, e) + 1 ELSE Count(l, e)
  <1> DEFINE old == {i \in DOMAIN l : l[i] = e}
             new == {i \in DOMAIN Append(l, v) : Append(l, v)[i] = e}
             n == Len(l) + 1
  <1>1. Count(l, e) = Cardinality(old) /\ IsFiniteSet(old) /\ Count(Append(l, v), e) = Cardinality(new)
    BY Zenon, Occurrences DEF Count
  <1>2. n \notin old /\ new = IF v = e THEN old \cup {n} ELSE old
    <2>1. /\ Len(l) \in Nat /\ DOMAIN l = 1..Len(l) /\ DOMAIN Append(l, v) = DOMAIN l \cup {n} /\ n \notin DOMAIN l
          /\ Append(l, v)[n] = v /\ \A i \in DOMAIN l : Append(l, v)[i] = l[i]
      OBVIOUS
    <2> HIDE DEF n
    <2> QED
      BY <2>1
  <1> HIDE DEF old, new, n
  <1> QED
    BY <1>1, <1>2, FS_AddElement

LEMMA CountPrefix ==
  ASSUME NEW S, NEW l \in Seq(S), NEW n \in 0..Len(l), NEW e
  PROVE  SubSeq(l, 1, n) \in Seq(S) /\ Count(SubSeq(l, 1, n), e) <= Count(l, e)
  <1> DEFINE old == {i \in DOMAIN l : l[i] = e}
             new == {i \in DOMAIN SubSeq(l, 1, n) : SubSeq(l, 1, n)[i] = e}
  <1>1. Count(l, e) = Cardinality(old) /\ IsFiniteSet(old) /\ Count(SubSeq(l, 1, n), e) = Cardinality(new)
    BY Zenon, Occurrences DEF Count
  <1>2. new \subseteq old
    <2>1. DOMAIN SubSeq(l, 1, n) = 1..n /\ \A i \in 1..n : SubSeq(l, 1, n)[i] = l[i] /\ i \in DOMAIN l
      OBVIOUS
    <2> QED
      BY <2>1
  <1>3. SubSeq(l, 1, n) \in Seq(S)
    OBVIOUS
  <1> HIDE DEF old, new
  <1> QED
    BY <1>1, <1>2, <1>3, FS_Subset

LEMMA CountEmpty == \A e : Count(<< >>, e) = 0
  <1>1. \A e : {i \in DOMAIN << >> : << >>[i] = e} = {}
    OBVIOUS
  <1> QED
    BY <1>1, FS_EmptySet DEF Count

-----------------------------------------------------------------------------
LEMMA Fewer ==
  ASSUME InPlace, Accounted, UNCHANGED <<scen, job, file, served, torn, emitted>>,
         \A e : Posting(e)' \subseteq Posting(e)
  PROVE  Accounted'
  BY DEF Accounted, Ws

LEMMA AppendAccounted ==
  ASSUME RecordTypes, InPlace, Accounted, NEW t \in Threads, AppendLine(t)
  PROVE  Accounted'
  <1> DEFINE v == at[t].event
  <1>1. /\ at[t].step = "append" /\ v \in Event /\ UNCHANGED <<scen, job, served>>
        /\ Ws \in Jobs /\ job \in Jobs
    BY WsType DEF AppendLine, RecordTypes
  <1>2. /\ \A u \in Threads : u # t => at'[u] = at[u]
        /\ \A u \in Threads : at'[u].event = at[u].event
    BY DEF AppendLine, RecordTypes
  <1>3. /\ emitted[Ws] \in Seq(Event) /\ emitted'[Ws] = Append(emitted[Ws], v)
        /\ \A w \in Jobs : w # Ws => emitted'[w] = emitted[w]
    BY <1>1 DEF AppendLine, RecordTypes
  <1>4. /\ file[Ws] \in Seq(Event) /\ file'[Ws] = IF cut[Ws] THEN file[Ws] ELSE Append(file[Ws], v)
        /\ \A w \in Jobs : w # Ws => file'[w] = file[w]
    BY <1>1 DEF AppendLine, RecordTypes
  <1>5. /\ torn[Ws] \in Seq(Event) /\ torn'[Ws] = IF cut[Ws] THEN Append(torn[Ws], v) ELSE torn[Ws]
        /\ \A w \in Jobs : w # Ws => torn'[w] = torn[w]
    BY <1>1 DEF AppendLine, RecordTypes
  <1>6. Append(torn[Ws], v) # << >>
    BY <1>1, <1>5
  <1> HIDE DEF v
  <1>7. \A w \in Jobs : torn'[w] = << >> => file'[w] = emitted'[w]
    BY <1>1, <1>3, <1>4, <1>5, <1>6 DEF Accounted
  <1>8. /\ \A e : Count(emitted'[Ws], e) = IF v = e THEN Count(emitted[Ws], e) + 1 ELSE Count(emitted[Ws], e)
        /\ \A e : Count(Append(file[Ws], v), e) = IF v = e THEN Count(file[Ws], e) + 1 ELSE Count(file[Ws], e)
        /\ \A e : Count(Append(torn[Ws], v), e) = IF v = e THEN Count(torn[Ws], e) + 1 ELSE Count(torn[Ws], e)
    BY <1>1, <1>3, <1>4, <1>5, CountAppend
  <1>9. ASSUME NEW w \in Jobs, NEW e \in Event
        PROVE  /\ Count(file[w], e) \in Nat /\ Count(torn[w], e) \in Nat
               /\ Count(emitted[w], e) \in Nat /\ Count(served[w], e) \in Nat
    <2>1. file[w] \in Seq(Event) /\ torn[w] \in Seq(Event) /\ emitted[w] \in Seq(Event) /\ served[w] \in Seq(Event)
      BY DEF RecordTypes
    <2> QED
      BY Zenon, <2>1, Occurrences
  <1>10. ASSUME NEW w \in Jobs, NEW e \in Event
         PROVE  Count(file'[w], e) + Count(torn'[w], e) = Count(emitted'[w], e)
    <2>1. Count(file[w], e) + Count(torn[w], e) = Count(emitted[w], e)
      BY DEF Accounted
    <2>2. CASE w # Ws
      BY <1>3, <1>4, <1>5, <2>1, <2>2
    <2>3. CASE w = Ws
      <3>1. \/ Count(file'[w], e) = Count(file[w], e) /\ Count(torn'[w], e) = Count(Append(torn[Ws], v), e)
            \/ Count(file'[w], e) = Count(Append(file[Ws], v), e) /\ Count(torn'[w], e) = Count(torn[w], e)
        BY <1>4, <1>5, <2>3
      <3> QED
        BY <1>8, <1>9, <2>1, <2>3, <3>1
    <2> QED
      BY <2>2, <2>3
  <1>11. ASSUME NEW e \in Event, NEW P \in SUBSET Posting(e)', IsFiniteSet(P)
         PROVE  Count(served[job], e) + Cardinality(P) <= Count(emitted'[Ws], e)
    <2>1. P \ {t} \in SUBSET Posting(e) /\ (t \in P => v = e)
      <3>1. P \in SUBSET {u \in Threads : at'[u].step = "post" /\ at'[u].event = e}
        BY DEF Posting
      <3> QED
        BY <1>2, <3>1 DEF Posting, v
    <2>2. IsFiniteSet(P \ {t}) /\ Cardinality(P \ {t}) = IF t \in P THEN Cardinality(P) - 1 ELSE Cardinality(P)
      BY <1>11, FS_RemoveElement
    <2>3. Cardinality(P) \in Nat
      BY <1>11, FS_CardinalityType
    <2>4. Count(served[job], e) + Cardinality(P \ {t}) <= Count(emitted[Ws], e)
      BY <2>1, <2>2 DEF Accounted
    <2> QED
      BY <1>1, <1>8, <1>9, <2>1, <2>2, <2>3, <2>4
  <1>12. Ws' = Ws
    BY <1>1 DEF Ws
  <1> QED
    BY <1>1, <1>7, <1>10, <1>11, <1>12 DEF Accounted

LEMMA PostAccounted ==
  ASSUME RecordTypes, InPlace, Accounted, NEW t \in Threads, PostSkipped(t) \/ Post(t)
  PROVE  Accounted'
  <1> DEFINE v == at[t].event
  <1>1. /\ at[t].step = "post" /\ v \in Event /\ UNCHANGED <<scen, job, file, emitted, cut, torn>>
        /\ Ws \in Jobs /\ job \in Jobs /\ job \in Nat
    BY WsType, NextJob DEF PostSkipped, Post, RecordTypes
  <1>2. at' = [at EXCEPT ![t] = NotEmitting]
    BY DEF PostSkipped, Post
  <1>3. \A e : Posting(e)' \subseteq Posting(e) \ {t}
    BY <1>2 DEF Posting, RecordTypes, NotEmitting
  <1>4. CASE served' = served
    BY <1>1, <1>3, <1>4, Fewer
  <1>5. CASE served' = [served EXCEPT ![job] = Append(@, v)]
    <2>1. /\ served[job] \in Seq(Event) /\ served'[job] = Append(served[job], v)
          /\ \A j \in Jobs : j # job => served'[j] = served[j]
      BY <1>1, <1>5 DEF RecordTypes
    <2>2. t \in Posting(v)
      BY <1>1 DEF Posting
    <2> HIDE DEF v
    <2>3. ASSUME NEW e \in Event
          PROVE /\ Count(served[job], e) \in Nat /\ Count(emitted[Ws], e) \in Nat
                /\ Count(served'[job], e) = IF v = e THEN Count(served[job], e) + 1 ELSE Count(served[job], e)
      <3>1. emitted[Ws] \in Seq(Event)
        BY <1>1 DEF RecordTypes
      <3>2. Count(served[job], e) \in Nat /\ Count(emitted[Ws], e) \in Nat
        BY Zenon, <2>1, <3>1, Occurrences
      <3> QED
        BY <1>1, <2>1, <3>2, CountAppend
    <2>4. ASSUME NEW e \in Event, NEW P \in SUBSET Posting(e)', IsFiniteSet(P)
          PROVE  Count(served'[job], e) + Cardinality(P) <= Count(emitted[Ws], e)
      <3>1. P \in SUBSET Posting(e) /\ t \notin P
        BY <1>3
      <3>2. Cardinality(P) \in Nat
        BY <2>4, FS_CardinalityType
      <3>3. CASE v # e
        BY <2>3, <2>4, <3>1, <3>3 DEF Accounted
      <3>4. CASE v = e
        <4>1. P \cup {t} \in SUBSET Posting(e)
          BY <2>2, <3>1, <3>4
        <4>2. IsFiniteSet(P \cup {t}) /\ Cardinality(P \cup {t}) = Cardinality(P) + 1
          BY <2>4, <3>1, FS_AddElement
        <4>3. Count(served[job], e) + Cardinality(P \cup {t}) <= Count(emitted[Ws], e)
          BY <4>1, <4>2 DEF Accounted
        <4> QED
          BY <2>3, <3>2, <3>4, <4>2, <4>3
      <3> QED
        BY <3>3, <3>4
    <2>5. \A j \in Jobs : j > job => served'[j] = << >>
      <3>1. \A j \in Jobs : j > job => j # job
        BY NextJob
      <3> QED
        BY <2>1, <3>1 DEF Accounted
    <2>6. Ws' = Ws
      BY <1>1 DEF Ws
    <2> QED
      BY <1>1, <2>4, <2>5, <2>6 DEF Accounted
  <1> QED
    BY <1>4, <1>5 DEF PostSkipped, Post, Arrives

LEMMA NextJobAccounted ==
  ASSUME RecordTypes, Settled, InPlace, Accounted, ToNextJob, job < scen.jobs, main \notin Running
  PROVE  RecordTypes' /\ Settled' /\ Accounted'
  <1>1. /\ UNCHANGED <<scen, at, file, cut, served, paused, done, now, torn, emitted>>
        /\ job' = job + 1 /\ main' = "next" /\ stage' = NoStage
    BY DEF ToNextJob
  <1>2. RecordTypes'
    BY <1>1, BoundsAssumption DEF RecordTypes, NoStage
  <1>3. Settled'
    BY <1>1 DEF Settled, Running
  <1>4. \A e : Posting(e)' = {}
    BY <1>1 DEF Settled, Posting
  <1>5. job + 1 \in Jobs /\ job + 1 > job /\ \A j \in Jobs : j > job + 1 => j > job
    BY NextJob
  <1>6. served[job + 1] = << >> /\ \A j \in Jobs : j > job + 1 => served[j] = << >>
    BY <1>5 DEF Accounted
  <1>7. ASSUME NEW e \in Event, NEW P \in SUBSET Posting(e)'
        PROVE  Count(served'[job'], e) + Cardinality(P) <= Count(emitted'[Ws'], e)
    <2>1. P = {}
      BY <1>4
    <2>2. Ws' \in Jobs
      BY <1>1, <1>5, ScenariosAssumption DEF InPlace, ScenarioType, Ws
    <2>3. PICK w \in Jobs : w = Ws'
      BY <2>2
    <2>4. emitted[w] \in Seq(Event)
      BY DEF RecordTypes
    <2>5. Count(emitted[w], e) \in Nat
      BY Zenon, <2>4, Occurrences
    <2>6. Count(served'[job'], e) = 0 /\ Cardinality(P) = 0
      BY <1>1, <1>6, <2>1, CountEmpty, FS_EmptySet
    <2> QED
      BY <1>1, <2>3, <2>5, <2>6
  <1>8. Accounted'
    BY <1>1, <1>6, <1>7 DEF Accounted
  <1> QED
    BY <1>2, <1>3, <1>8

Record == RecordTypes /\ Settled /\ Accounted

LEMMA RecordInit == Init => Record
  <1> SUFFICES ASSUME Init PROVE Record
    OBVIOUS
  <1>1. RecordTypes
    <2>1. << >> \in Seq(Event) /\ 0 \in 0..Stages /\ NoStage \in 0..Stages
      BY BoundsAssumption DEF NoStage
    <2> QED
      BY <2>1, NoEventType DEF Init, EventsInit, RecordTypes
  <1>2. Settled
    BY DEF Init, EventsInit, Settled, NotEmitting
  <1>3. ASSUME NEW e \in Event, NEW P \in SUBSET Posting(e)
        PROVE  Count(served[job], e) + Cardinality(P) <= Count(emitted[Ws], e)
    <2>1. P = {}
      BY DEF Init, EventsInit, Posting, NotEmitting
    <2>2. job \in Jobs /\ Ws \in Jobs
      BY PlaceInit, WsType
    <2>3. served[job] = << >> /\ emitted[Ws] = << >>
      BY <2>2 DEF Init, EventsInit
    <2> QED
      BY <2>1, <2>3, CountEmpty, FS_EmptySet
  <1>4. \A w \in Jobs : torn[w] = << >> /\ file[w] = << >> /\ emitted[w] = << >> /\ served[w] = << >>
    BY DEF Init, EventsInit
  <1>5. Accounted
    BY <1>3, <1>4, CountEmpty DEF Accounted
  <1> QED
    BY <1>1, <1>2, <1>5 DEF Record

LEMMA OrchestrateRecord ==
  ASSUME InPlace, Record, Orchestrate
  PROVE  Record'
  <1> USE DEF Record
  <1>1. CASE Creating
    BY <1>1, CreatingTypes, Fewer
  <1>2. CASE Checkpoint \/ Exit \/ Relaunch \/ GiveUp
    <2>1. RecordTypes' /\ Settled' /\ Still
      BY <1>2, StillTypes
    <2>2. \A e : Posting(e)' \subseteq Posting(e)
      BY <2>1 DEF Still, Posting
    <2> QED
      BY <2>1, <2>2, Fewer DEF Still
  <1>3. CASE Crash \/ Cancel
    BY <1>3, DieTypes, Fewer
  <1>4. ASSUME NEW t \in Threads, AppendLine(t) \/ PostSkipped(t) \/ Post(t) PROVE Record'
    BY <1>4, EmitTypes, AppendAccounted, PostAccounted
  <1> QED
    BY <1>1, <1>2, <1>3, <1>4 DEF Orchestrate, Creating

LEMMA SameRecord ==
  ASSUME InPlace, Record, UNCHANGED logvars, job' = job, main' = main \/ (main \notin Running /\ main' \notin Running)
  PROVE  Record'
  <1>1. RecordTypes' /\ Settled' /\ \A e : Posting(e)' \subseteq Posting(e)
    BY DEF Record, logvars, RecordTypes, Settled, Posting, Running
  <1> QED
    BY <1>1, Fewer DEF Record, logvars

LEMMA RecordNext == HandTypes /\ InPlace /\ Record /\ [Next]_vars => Record'
  <1> SUFFICES ASSUME HandTypes, InPlace, Record, [Next]_vars PROVE Record'
    OBVIOUS
  <1>1. CASE Orchestrate /\ UNCHANGED <<worker, svars>>
    BY <1>1, OrchestrateRecord
  <1>2. CASE UNCHANGED evars
    BY <1>2, SameRecord DEF evars
  <1>3. CASE Save
    <2>1. main \in Ended
      BY <1>3 DEF Save, InPlace
    <2>2. CASE job < scen.jobs
      BY <1>3, <2>1, <2>2, NextJobAccounted DEF Save, Record, Ended, Running
    <2>3. CASE ~(job < scen.jobs)
      BY <1>3, <2>1, <2>3, SameRecord DEF Save, Ended, Running
    <2> QED
      BY <2>2, <2>3
  <1>4. CASE SkipAnalysis
    BY <1>4, NextJobAccounted DEF SkipAnalysis, Record, Running
  <1>5. CASE StartAnalysis \/ Analyse \/ WriteAnalysis \/ TakeLock \/ Load
    BY <1>2, <1>5 DEF StartAnalysis, Analyse, WriteAnalysis, TakeLock, Load
  <1>6. ASSUME NEW u \in User, UserStep(u) PROVE Record'
    BY <1>2, <1>6, UserHand
  <1>7. CASE UNCHANGED vars
    BY <1>2, <1>7 DEF vars
  <1> QED
    BY <1>1, <1>3, <1>4, <1>5, <1>6, <1>7, Cases DEF Analysis

LEMMA RecordIsKept == InPlace /\ Record => NothingLostOrDoubled
  <1> SUFFICES ASSUME InPlace, Record, NEW n \in 0..Len(served[job]), NEW i \in DOMAIN emitted[Ws]
               PROVE  LET log == Merge(SubSeq(served[job], 1, n), file[Ws])
                          e == emitted[Ws][i]
                      IN  /\ Count(log, e) <= Count(emitted[Ws], e)
                          /\ Count(log, e) + Count(torn[Ws], e) >= Count(emitted[Ws], e)
    BY DEF NothingLostOrDoubled
  <1> DEFINE remote == SubSeq(served[job], 1, n)
             local == file[Ws]
             lost == torn[Ws]
             all == emitted[Ws]
             e == all[i]
  <1>1. Ws \in Jobs /\ job \in Jobs
    BY WsType
  <1>2. served[job] \in Seq(Event) /\ local \in Seq(Event) /\ lost \in Seq(Event) /\ all \in Seq(Event)
    BY <1>1 DEF Record, RecordTypes
  <1>3. e \in Event
    BY <1>2
  <1>4. remote \in Seq(Event) /\ Count(remote, e) <= Count(served[job], e)
    BY <1>2, CountPrefix
  <1>5. Count(served[job], e) <= Count(all, e) /\ Count(local, e) + Count(lost, e) = Count(all, e)
    <2>1. {} \in SUBSET Posting(e) /\ IsFiniteSet({}) /\ Cardinality({}) = 0
      BY FS_EmptySet
    <2>2. Count(served[job], e) + 0 <= Count(all, e)
      BY <1>3, <2>1 DEF Record, Accounted
    <2>3. Count(served[job], e) \in Nat
      BY Zenon, <1>2, Occurrences
    <2> QED
      BY <1>1, <1>3, <2>2, <2>3 DEF Record, Accounted
  <1>6. /\ Count(remote, e) \in Nat /\ Count(served[job], e) \in Nat
        /\ Count(local, e) \in Nat /\ Count(lost, e) \in Nat /\ Count(all, e) \in Nat
    BY Zenon, <1>2, <1>4, Occurrences
  <1>7. Count(Merge(remote, local), e) = IF Count(local, e) > Count(remote, e) THEN Count(local, e) ELSE Count(remote, e)
    BY <1>2, <1>3, <1>4, MergeIsUnion
  <1> HIDE DEF remote, local, lost, all, e
  <1>8. /\ Count(Merge(remote, local), e) <= Count(all, e)
        /\ Count(Merge(remote, local), e) + Count(lost, e) >= Count(all, e)
    BY <1>4, <1>5, <1>6, <1>7
  <1> QED
    BY <1>8 DEF remote, local, lost, all, e

\* observer.rs, emit with events.rs, merge_event_sources: whatever posts fail, arrive late or are
\* left out and whenever a run is killed, readers see
\* every event as often as it was emitted, but for those that went into the rest of a cut line.
THEOREM RecordIsComplete == Spec => []NothingLostOrDoubled
  <1> DEFINE Inv == HandTypes /\ Holding /\ InPlace /\ Record
  <1>1. Init => Inv
    BY HandInit, PlaceInit, RecordInit
  <1>2. Inv /\ [Next]_vars => Inv'
    BY HoldingNext, PlaceNext, RecordNext
  <1>3. Inv => NothingLostOrDoubled
    BY RecordIsKept
  <1> QED
    BY <1>1, <1>2, <1>3, PTL DEF Spec

\* Of two indexes, the one with the earlier time has the lower place.
LEMMA EarlierPlace ==
  ASSUME NEW K \in SUBSET Int, IsFiniteSet(K), NEW both, \A i \in K : both[i].ts \in Nat,
         NEW i \in K, NEW k \in K, both[i].ts < both[k].ts
  PROVE  Cardinality({j \in K : both[j].ts < both[i].ts \/ (both[j].ts = both[i].ts /\ j < i)})
           < Cardinality({j \in K : both[j].ts < both[k].ts \/ (both[j].ts = both[k].ts /\ j < k)})
  <1> DEFINE Before(m) == {j \in K : both[j].ts < both[m].ts \/ (both[j].ts = both[m].ts /\ j < m)}
  <1>1. Before(i) \in SUBSET Before(k)
    <2> SUFFICES ASSUME NEW j \in K, both[j].ts < both[i].ts \/ both[j].ts = both[i].ts
                 PROVE  both[j].ts < both[k].ts
      OBVIOUS
    <2> DEFINE a == both[j].ts
               b == both[i].ts
               c == both[k].ts
    <2>1. a \in Nat /\ b \in Nat /\ c \in Nat /\ (a < b \/ a = b) /\ b < c
      OBVIOUS
    <2> HIDE DEF a, b, c
    <2>2. a < c
      BY <2>1
    <2> QED
      BY <2>2 DEF a, c
  <1>2. i \in Before(k) /\ i \notin Before(i)
    <2> DEFINE b == both[i].ts
    <2>1. b \in Nat /\ i \in Int
      OBVIOUS
    <2> HIDE DEF b
    <2>2. ~(b < b) /\ ~(i < i)
      BY <2>1
    <2> QED
      BY <2>2 DEF b
  <1>3. Before(k) \in SUBSET K
    OBVIOUS
  <1> HIDE DEF Before
  <1>4. IsFiniteSet(Before(k)) /\ IsFiniteSet(Before(i)) /\ Cardinality(Before(i)) <= Cardinality(Before(k))
        /\ (Cardinality(Before(i)) = Cardinality(Before(k)) => Before(i) = Before(k))
    <2>1. IsFiniteSet(Before(k))
      BY <1>3, FS_Subset
    <2> QED
      BY <1>1, <2>1, FS_Subset
  <1>5. Cardinality(Before(i)) \in Nat /\ Cardinality(Before(k)) \in Nat
    BY <1>4, FS_CardinalityType
  <1>6. Cardinality(Before(i)) < Cardinality(Before(k))
    BY <1>1, <1>2, <1>4, <1>5
  <1> QED
    BY <1>6 DEF Before

LEMMA MergeInOrder ==
  ASSUME NEW remote \in Seq(Event), NEW local \in Seq(Event)
  PROVE  /\ Merge(remote, local) \in Seq(Event)
         /\ \A i, j \in DOMAIN Merge(remote, local) :
              i < j => Merge(remote, local)[i].ts <= Merge(remote, local)[j].ts
  <1> DEFINE both == remote \o local
             r == Len(remote)
             kept == {i \in DOMAIN both : i > r =>
                        Count(SubSeq(local, 1, i - r), both[i]) > Count(remote, both[i])}
             Before(i, j) == both[i].ts < both[j].ts \/ (both[i].ts = both[j].ts /\ i < j)
             place == [i \in kept |-> Cardinality({j \in kept : Before(j, i)}) + 1]
             n == Cardinality(kept)
             at0(k) == CHOOSE i \in kept : place[i] = k
             log == [k \in 1..n |-> both[at0(k)]]
  <1>1. Merge(remote, local) = log
    BY DEF Merge
  <1>2. /\ both \in Seq(Event) /\ r \in Nat /\ DOMAIN both = 1..(r + Len(local)) /\ Len(local) \in Nat
    BY Put
  <1>3. kept \in SUBSET (DOMAIN both)
    OBVIOUS
  <1>4. IsFiniteSet(kept) /\ n \in Nat
    <2>1. IsFiniteSet(DOMAIN both)
      BY <1>2, FS_Interval
    <2> HIDE DEF kept, both
    <2> QED
      BY <1>3, <2>1, FS_Subset, FS_CardinalityType
  <1>5. kept \in SUBSET Int /\ \A i \in kept : both[i] \in Event /\ both[i].ts \in Nat
    <2> HIDE DEF both, kept, r
    <2>1. \A i \in kept : i \in Int /\ both[i] \in Event
      BY <1>2, <1>3
    <2> QED
      BY <2>1 DEF Event
  <1>6. place \in Bijection(kept, 1..n)
    <2> HIDE DEF both, kept, r
    <2> QED
      BY <1>4, <1>5, TimesPlace
  <1>7. \A i, j \in kept : both[i].ts < both[j].ts => place[i] < place[j]
    <2> HIDE DEF both, kept, r
    <2> SUFFICES ASSUME NEW i \in kept, NEW j \in kept, both[i].ts < both[j].ts PROVE place[i] < place[j]
      OBVIOUS
    <2>1. Cardinality({k \in kept : Before(k, i)}) < Cardinality({k \in kept : Before(k, j)})
      BY <1>4, <1>5, EarlierPlace
    <2>2. IsFiniteSet({k \in kept : Before(k, i)}) /\ IsFiniteSet({k \in kept : Before(k, j)})
      BY <1>4, FS_Subset
    <2>3. Cardinality({k \in kept : Before(k, i)}) \in Nat /\ Cardinality({k \in kept : Before(k, j)}) \in Nat
      BY <2>2, FS_CardinalityType
    <2> QED
      BY <2>1, <2>3
  <1> HIDE DEF both, r, kept, place, n
  <1>8. \A k \in 1..n : at0(k) \in kept /\ place[at0(k)] = k
    <2>1. \A k \in 1..n : \E i \in kept : place[i] = k
      BY <1>6 DEF Bijection, Surjection
    <2> QED
      BY <2>1
  <1> HIDE DEF at0
  <1>9. log \in Seq(Event)
    <2>1. \A k \in 1..n : both[at0(k)] \in Event
      BY <1>5, <1>8
    <2> QED
      BY <1>4, <2>1
  <1>10. ASSUME NEW i \in 1..n, NEW j \in 1..n, i < j PROVE log[i].ts <= log[j].ts
    <2>1. at0(i) \in kept /\ at0(j) \in kept /\ place[at0(i)] = i /\ place[at0(j)] = j
      BY <1>8
    <2> DEFINE a == both[at0(i)].ts
               b == both[at0(j)].ts
    <2>2. a \in Nat /\ b \in Nat
      BY <1>5, <2>1
    <2>3. b < a => j < i
      BY <1>7, <2>1
    <2>4. log[i].ts = a /\ log[j].ts = b
      OBVIOUS
    <2> HIDE DEF a, b, log
    <2>5. a <= b
      BY <1>4, <1>10, <2>2, <2>3
    <2> QED
      BY <2>4, <2>5
  <1> QED
    BY <1>1, <1>9, <1>10

-----------------------------------------------------------------------------
(* What a run that was never killed tells. *)

\* The events of the job's workspace, those included that a thread is about to append.
Told == {emitted[Ws][i] : i \in DOMAIN emitted[Ws]} \cup {at[t].event : t \in {u \in Threads : at[u].step = "append"}}

StageEnds == {"end", "failed_end"}
Upward == {"next", "open", "work"}

\* A stage starts once.
StartsOnce ==
  /\ \A i, j \in DOMAIN emitted[Ws] :
       /\ emitted[Ws][i].kind = "start" /\ emitted[Ws][j].kind = "start"
       /\ emitted[Ws][i].stage = emitted[Ws][j].stage
       => i = j
  /\ \A t \in Threads : at[t].step = "append" /\ at[t].event.kind = "start" =>
       /\ t = Main
       /\ \A i \in DOMAIN emitted[Ws] : emitted[Ws][i].kind = "start" => emitted[Ws][i].stage # at[t].event.stage

\* The stages that have started and ended are those with a checkpoint and the open one.
StagesTold ==
  /\ main = "work" => stage = done[Ws] + 1
  /\ main \in {"open", "exit_ok", "succeeded"} => stage = NoStage
  /\ main = "next" => IF stage = NoStage THEN Told = {} ELSE stage = done[Ws] /\ \A e \in Told : e.ts < now
  /\ main \in Upward => \A e \in Told :
       /\ e.kind = "start" => e.stage # NoStage /\ (e.stage <= done[Ws] \/ e.stage = stage)
       /\ e.kind \in StageEnds => e.stage <= done[Ws]
  /\ stage # NoStage => \A e \in Told : e.kind \in StageEnds => e.stage # stage
  /\ main \in Upward \cup {"exit_ok", "succeeded"} => \A e \in Told : e.kind = "start" =>
       \/ main \in Upward /\ e.stage = stage
       \/ \E f \in Told : f.kind = "end" /\ f.stage = e.stage /\ f.ts > e.ts

\* That the run succeeded is what was told last.
EndTold == main \in {"exit_ok", "succeeded"} =>
  Told = {} \/ \E f \in Told : f.kind = "end" /\ \A e \in Told : e.ts < f.ts \/ e = f

Story ==
  /\ \A e \in Told : e.ts <= now
  /\ torn[Ws] = << >> /\ (main \in Running => ~cut[Ws])
  /\ StartsOnce /\ StagesTold /\ EndTold

\* That the run failed is what was told last, but for the end of the stage it failed in: a
\* stage opens, and a run is launched, after all that was told before.
FailureTold ==
  /\ \A e \in Told : e.ts <= now
  /\ main = "next" => \A e \in Told : e.ts < now
  /\ main = "close" => \E f \in Told : f.kind = "error" /\ \A e \in Told : e.ts < f.ts \/ e = f
  /\ main \in {"exit_failed", "failed"} =>
       \E f \in Told : f.kind = "error" /\ \A e \in Told : e.ts < f.ts \/ e = f \/ e.kind = "failed_end"

\* A workspace that no job has had yet has nothing in it.
Untouched == \A w \in Jobs :
  (\A j \in Jobs : j <= job => scen.ws[j] # w) =>
    emitted[w] = << >> /\ done[w] = 0 /\ torn[w] = << >> /\ ~cut[w]

NeverKilled == OwnWorkspace /\ kills = 0 /\ main # "dropped"

LEMMA ToldEvents ==
  ASSUME RecordTypes, InPlace
  PROVE  /\ \A e \in Told : e \in Event /\ e.ts \in Nat /\ e.stage \in Nat
         /\ done[Ws] \in Nat /\ now \in Nat /\ stage \in Nat /\ Ws \in Jobs
  <1>1. Ws \in Jobs /\ emitted[Ws] \in Seq(Event)
    BY WsType DEF RecordTypes
  <1>2. \A e \in Told : e \in Event
    BY <1>1 DEF Told, RecordTypes
  <1>3. \A e \in Event : e.ts \in Nat /\ e.stage \in Nat
    BY BoundsAssumption DEF Event
  <1> QED
    BY <1>1, <1>2, <1>3, BoundsAssumption DEF RecordTypes

LEMMA ToldSame ==
  ASSUME UNCHANGED <<scen, job, at, emitted>>
  PROVE  Told' = Told /\ (StartsOnce => StartsOnce')
  BY DEF Told, StartsOnce, Ws

LEMMA ToldEmit ==
  ASSUME RecordTypes, InPlace, NEW t \in Threads, AppendLine(t) \/ PostSkipped(t) \/ Post(t)
  PROVE  Told' = Told /\ (StartsOnce => StartsOnce')
  <1> DEFINE es == emitted[Ws]
             v == at[t].event
  <1>1. Ws \in Jobs /\ Ws' = Ws /\ v \in Event /\ es \in Seq(Event)
    BY WsType DEF AppendLine, PostSkipped, Post, Ws, RecordTypes
  <1>2. CASE AppendLine(t)
    <2>1. /\ at[t].step = "append" /\ at'[t].step = "post"
          /\ \A u \in Threads : u # t => at'[u] = at[u]
          /\ emitted'[Ws'] = Append(es, v)
      BY <1>1, <1>2 DEF AppendLine, RecordTypes
    <2> DEFINE n == Len(es) + 1
               new == emitted'[Ws']
    <2>2. /\ DOMAIN new = DOMAIN es \cup {n} /\ n \notin DOMAIN es /\ new[n] = v
          /\ \A i \in DOMAIN es : new[i] = es[i]
      BY <1>1, <2>1
    <2> DEFINE Pend == {u \in Threads : at[u].step = "append"}
    <2>3. {u \in Threads : at'[u].step = "append"} = Pend \ {t} /\ t \in Pend
      BY <2>1
    <2>4. Told' = {new[i] : i \in DOMAIN new} \cup {at'[u].event : u \in Pend \ {t}}
      BY <2>3 DEF Told
    <2>5. Told = {es[i] : i \in DOMAIN es} \cup {at[u].event : u \in Pend}
      BY DEF Told
    <2> HIDE DEF es, new, n, Pend, v
    <2>6. {new[i] : i \in DOMAIN new} = {es[i] : i \in DOMAIN es} \cup {v}
      BY <2>2
    <2>7. {at[u].event : u \in Pend} = {at'[u].event : u \in Pend \ {t}} \cup {v}
      <3>1. \A u \in Pend \ {t} : at'[u] = at[u]
        BY <2>1 DEF Pend
      <3> QED
        BY <2>3, <3>1 DEF v
    <2>8. Told' = Told
      BY <2>4, <2>5, <2>6, <2>7
    <2>9. ASSUME StartsOnce PROVE StartsOnce'
      <3>1. ASSUME NEW i \in DOMAIN new, NEW j \in DOMAIN new, new[i].kind = "start", new[j].kind = "start",
                   new[i].stage = new[j].stage
            PROVE  i = j
        BY <2>1, <2>2, <2>9, <3>1 DEF StartsOnce, v, es
      <3>2. ASSUME NEW u \in Threads, at'[u].step = "append", at'[u].event.kind = "start"
            PROVE  u = Main /\ \A i \in DOMAIN new : new[i].kind = "start" => new[i].stage # at'[u].event.stage
        <4>1. u # t /\ at'[u] = at[u]
          BY <2>1, <3>2
        <4>2. u = Main /\ \A i \in DOMAIN es : es[i].kind = "start" => es[i].stage # at[u].event.stage
          BY <2>9, <3>2, <4>1 DEF StartsOnce, es
        <4>3. v.kind # "start"
          BY <2>1, <2>9, <4>1, <4>2 DEF StartsOnce, v
        <4> QED
          BY <2>2, <4>1, <4>2, <4>3
      <3> QED
        BY <3>1, <3>2 DEF StartsOnce, new
    <2> QED
      BY <2>8, <2>9
  <1>3. CASE PostSkipped(t) \/ Post(t)
    <2>1. UNCHANGED <<scen, job, emitted>> /\ at' = [at EXCEPT ![t] = NotEmitting] /\ at[t].step = "post"
      BY <1>3 DEF PostSkipped, Post
    <2>2. \A u \in Threads : at'[u].step = "append" => u # t /\ at'[u] = at[u]
      BY <2>1 DEF RecordTypes, NotEmitting
    <2>3. {u \in Threads : at'[u].step = "append"} = {u \in Threads : at[u].step = "append"}
      BY <2>1, <2>2 DEF RecordTypes
    <2>4. Told' = Told
      BY <2>1, <2>2, <2>3, <1>1 DEF Told, Ws
    <2>5. StartsOnce => StartsOnce'
      BY <2>1, <2>2, <1>1 DEF StartsOnce
    <2> QED
      BY <2>4, <2>5
  <1> QED
    BY <1>2, <1>3

LEMMA ToldCreate ==
  ASSUME RecordTypes, InPlace, UNCHANGED <<scen, job, emitted>>,
         NEW t \in Threads, NEW kind \in Kinds, NEW label \in 0..Stages,
         NEW times \in {SoonOrLater, Later}, Create(t, kind, label, times)
  PROVE  /\ Told' = Told \cup {[ts |-> now', kind |-> kind, stage |-> label]}
         /\ now' \in {now, now + 1} /\ (times = Later => now' = now + 1)
         /\ StartsOnce /\ (kind = "start" => t = Main /\ \A e \in Told : e.kind = "start" => e.stage # label)
            => StartsOnce'
  <1>1. PICK ts \in times :
          /\ now' = ts
          /\ at' = [at EXCEPT ![t] = [step |-> "append", event |-> [ts |-> ts, kind |-> kind, stage |-> label]]]
    BY DEF Create
  <1> DEFINE v == [ts |-> ts, kind |-> kind, stage |-> label]
             Pend == {u \in Threads : at[u].step = "append"}
  <1>2. /\ at'[t] = [step |-> "append", event |-> v] /\ at[t].step = "idle"
        /\ \A u \in Threads : u # t => at'[u] = at[u]
    BY <1>1 DEF RecordTypes, Create
  <1>3. Ws' = Ws
    BY DEF Ws
  <1>4. now' \in {now, now + 1} /\ (times = Later => now' = now + 1)
    BY <1>1, Zenon DEF SoonOrLater, Later
  <1>5. {u \in Threads : at'[u].step = "append"} = Pend \cup {t} /\ t \notin Pend
    BY <1>2
  <1>6. Told' = {emitted[Ws][i] : i \in DOMAIN emitted[Ws]} \cup {at'[u].event : u \in Pend \cup {t}}
    BY <1>3, <1>5 DEF Told
  <1>7. Told = {emitted[Ws][i] : i \in DOMAIN emitted[Ws]} \cup {at[u].event : u \in Pend}
    BY DEF Told
  <1>8. {at'[u].event : u \in Pend \cup {t}} = {at[u].event : u \in Pend} \cup {v}
    <2>1. \A u \in Pend : at'[u] = at[u]
      BY <1>2, <1>5
    <2> HIDE DEF Pend, v
    <2> QED
      BY <1>2, <2>1
  <1>9. Told' = Told \cup {v}
    <2> HIDE DEF Pend, v
    <2> QED
      BY <1>6, <1>7, <1>8
  <1>10. ASSUME StartsOnce, kind = "start" => t = Main /\ \A e \in Told : e.kind = "start" => e.stage # label
         PROVE  StartsOnce'
    <2>1. \A i \in DOMAIN emitted[Ws] : emitted[Ws][i] \in Told
      BY DEF Told
    <2>2. v.kind = kind /\ v.stage = label
      OBVIOUS
    <2> HIDE DEF v
    <2>3. ASSUME NEW u \in Threads, at'[u].step = "append", at'[u].event.kind = "start"
          PROVE  /\ u = Main
                 /\ \A i \in DOMAIN emitted[Ws] : emitted[Ws][i].kind = "start" => emitted[Ws][i].stage # at'[u].event.stage
      BY <1>2, <1>10, <2>1, <2>2, <2>3 DEF StartsOnce
    <2> QED
      BY <1>3, <1>10, <2>3 DEF StartsOnce
  <1> QED
    BY <1>1, <1>4, <1>9, <1>10

\* What is told is as it was, and the run is where it was.
LEMMA SameStory ==
  ASSUME Story, Told' = Told, StartsOnce', UNCHANGED <<scen, job, main, stage, done, now>>,
         torn'[Ws] = << >>, main \in Running => ~cut'[Ws]
  PROVE  Story'
  BY DEF Story, StagesTold, EndTold, Ws

\* One more event.
LEMMA CreateStory ==
  ASSUME RecordTypes, Settled, InPlace, Story, Creating, main \in Running
  PROVE  Story'
  <1> USE MainIsThread, WsType DEF Kinds
  <1>1. /\ UNCHANGED <<scen, job, emitted, cut, torn, done>> /\ Ws' = Ws
        /\ \A e \in Told : e.ts \in Nat /\ e.stage \in Nat
        /\ now \in Nat /\ done[Ws] \in Nat /\ stage \in 0..Stages
    BY ToldEvents DEF Creating, EndPrevious, OpenStage, Fail, CloseFailed, CloseLast, Note, RecordTypes, Ws
  <1>2. ASSUME NEW t \in Threads, NEW kind \in Kinds, NEW label \in 0..Stages,
               NEW times \in {SoonOrLater, Later}, Create(t, kind, label, times),
               kind = "start" => t = Main /\ \A e \in Told : e.kind = "start" => e.stage # label
        PROVE  \E v : /\ Told' = Told \cup {v} /\ v.kind = kind /\ v.stage = label /\ v.ts = now'
                      /\ now' \in {now, now + 1} /\ (times = Later => now' = now + 1) /\ StartsOnce'
    <2>1. /\ Told' = Told \cup {[ts |-> now', kind |-> kind, stage |-> label]}
          /\ now' \in {now, now + 1} /\ (times = Later => now' = now + 1) /\ StartsOnce'
      BY <1>1, <1>2, ToldCreate DEF Story
    <2>2. PICK v : v = [ts |-> now', kind |-> kind, stage |-> label]
      OBVIOUS
    <2>3. v.kind = kind /\ v.stage = label /\ v.ts = now'
      BY <2>2
    <2> QED
      BY <2>1, <2>2, <2>3
  <1>3. \A e \in Told : e.ts <= now
    BY DEF Story
  <1>4. torn'[Ws'] = << >> /\ (main' \in Running => ~cut'[Ws'])
    BY <1>1 DEF Story
  <1>5. CASE EndPrevious
    <2>1. /\ main = "next" /\ main' = "open" /\ stage # NoStage /\ stage' = NoStage
          /\ Create(Main, "end", stage, SoonOrLater)
      BY <1>5 DEF EndPrevious, MainStep
    <2>2. PICK v : /\ Told' = Told \cup {v} /\ v.kind = "end" /\ v.stage = stage /\ v.ts = now'
                   /\ now' \in {now, now + 1} /\ StartsOnce'
      BY <1>1, <1>2, <2>1
    <2>3. stage = done[Ws] /\ \A e \in Told : e.ts < now
      BY <2>1 DEF Story, StagesTold
    <2>4. /\ \A e \in Told : (e.kind = "start" => e.stage # NoStage /\ e.stage <= done[Ws])
               /\ (e.kind \in StageEnds => e.stage <= done[Ws])
          /\ \A e \in Told : e.kind = "start" /\ e.stage # stage =>
               \E f \in Told : f.kind = "end" /\ f.stage = e.stage /\ f.ts > e.ts
      BY <1>1, <2>1, <2>3 DEF Story, StagesTold, Upward
    <2>5. v.ts \in Nat /\ v.ts >= now
      BY <1>1, <2>2
    <2>6. StagesTold'
      <3>1. \A e \in Told' : /\ e.kind = "start" => e.stage # NoStage /\ e.stage <= done[Ws]
                             /\ e.kind \in StageEnds => e.stage <= done[Ws]
        BY <1>1, <2>2, <2>3, <2>4
      <3>2. \A e \in Told' : e.kind = "start" =>
              \E f \in Told' : f.kind = "end" /\ f.stage = e.stage /\ f.ts > e.ts
        BY <1>1, <2>2, <2>3, <2>4, <2>5
      <3> QED
        BY <1>1, <2>1, <3>1, <3>2 DEF StagesTold
    <2>7. EndTold'
      BY <2>1 DEF EndTold
    <2>8. \A e \in Told' : e.ts <= now'
      BY <1>1, <1>3, <2>2, <2>5
    <2> QED
      BY <1>4, <2>2, <2>6, <2>7, <2>8 DEF Story
  <1>6. CASE OpenStage
    <2>1. /\ main \in {"next", "open"} /\ main' = "work" /\ stage = NoStage /\ stage' = done[Ws] + 1
          /\ Create(Main, "start", done[Ws] + 1, SoonOrLater) /\ done[Ws] + 1 \in 0..Stages
      <3>1. NextStage \in 0..Stages
        BY <1>1, <1>6, BoundsAssumption DEF OpenStage, StagesLeft, NextStage
      <3> QED
        BY <1>6, <3>1 DEF OpenStage, MainStep, NextStage
    <2>2. \A e \in Told : /\ e.kind = "start" => e.stage # NoStage /\ e.stage <= done[Ws]
                          /\ e.kind \in StageEnds => e.stage <= done[Ws]
      BY <1>1, <2>1 DEF Story, StagesTold, Upward, NoStage
    <2>3. \A e \in Told : e.kind = "start" => e.stage # done[Ws] + 1
      BY <1>1, <2>2
    <2>4. PICK v : /\ Told' = Told \cup {v} /\ v.kind = "start" /\ v.stage = done[Ws] + 1 /\ v.ts = now'
                   /\ now' \in {now, now + 1} /\ StartsOnce'
      BY <1>1, <1>2, <2>1, <2>3
    <2>5. \A e \in Told : e.kind = "start" =>
            e.stage = stage \/ \E f \in Told : f.kind = "end" /\ f.stage = e.stage /\ f.ts > e.ts
      BY <2>1 DEF Story, StagesTold, Upward
    <2>6. StagesTold'
      <3>1. \A e \in Told' : /\ e.kind = "start" => e.stage # NoStage /\ (e.stage <= done[Ws] \/ e.stage = stage')
                             /\ e.kind \in StageEnds => e.stage <= done[Ws] /\ e.stage # stage'
        BY <1>1, <2>1, <2>2, <2>4 DEF StageEnds, NoStage
      <3>2. \A e \in Told : e.kind = "start" => e.stage # stage
        BY <2>1 DEF Story, StagesTold, Upward
      <3> QED
        BY <1>1, <2>1, <2>4, <2>5, <3>1 DEF StagesTold
    <2>7. EndTold'
      BY <2>1 DEF EndTold
    <2>8. \A e \in Told' : e.ts <= now'
      BY <1>1, <1>3, <2>4
    <2> QED
      BY <1>4, <2>4, <2>6, <2>7, <2>8 DEF Story
  <1>7. ASSUME NEW t \in Helper, Note(t) PROVE Story'
    <2>1. PICK kind \in {"note", "error"} : Create(t, kind, stage, SoonOrLater)
      BY <1>7 DEF Note
    <2>2. main = "work" /\ main' = "work" /\ stage' = stage
      BY <1>7 DEF Note
    <2>3. PICK v : /\ Told' = Told \cup {v} /\ v.kind = kind /\ v.stage = stage /\ v.ts = now'
                   /\ now' \in {now, now + 1} /\ StartsOnce'
      BY <1>1, <1>2, <2>1
    <2>4. StagesTold'
      BY <1>1, <2>2, <2>3 DEF Story, StagesTold, StageEnds, Upward
    <2>5. EndTold'
      BY <2>2 DEF EndTold
    <2>6. \A e \in Told' : e.ts <= now'
      BY <1>1, <1>3, <2>3
    <2> QED
      BY <1>4, <2>3, <2>4, <2>5, <2>6 DEF Story
  <1>8. CASE Fail
    <2>1. /\ main \in {"work", "next"} /\ main' = "close" /\ stage' = stage
          /\ \E times \in {SoonOrLater, Later} : Create(Main, "error", stage, times)
      BY <1>8 DEF Fail, MainStep
    <2>2. PICK v : /\ Told' = Told \cup {v} /\ v.kind = "error" /\ v.stage = stage /\ v.ts = now'
                   /\ now' \in {now, now + 1} /\ StartsOnce'
      BY <1>1, <1>2, <2>1
    <2>3. StagesTold'
      BY <1>1, <2>1, <2>2 DEF Story, StagesTold, StageEnds, Upward
    <2>4. EndTold'
      BY <2>1 DEF EndTold
    <2>5. \A e \in Told' : e.ts <= now'
      BY <1>1, <1>3, <2>2
    <2> QED
      BY <1>4, <2>2, <2>3, <2>4, <2>5 DEF Story
  <1>9. CASE CloseFailed
    <2>1. main = "close" /\ main' = "exit_failed" /\ stage' = NoStage
      BY <1>9 DEF CloseFailed, MainStep
    <2>2. StagesTold' /\ EndTold'
      BY <2>1 DEF StagesTold, EndTold, Upward
    <2>3. CASE stage = NoStage
      <3>1. UNCHANGED <<at, now>>
        BY <1>9, <2>3 DEF CloseFailed
      <3>2. Told' = Told /\ StartsOnce'
        BY <1>1, <3>1, ToldSame DEF Story
      <3> QED
        BY <1>3, <1>4, <2>2, <3>1, <3>2 DEF Story
    <2>4. CASE stage # NoStage
      <3>1. Create(Main, "failed_end", stage, SoonOrLater)
        BY <1>9, <2>4 DEF CloseFailed
      <3>2. PICK v : Told' = Told \cup {v} /\ v.ts = now' /\ now' \in {now, now + 1} /\ StartsOnce'
        BY <1>1, <1>2, <3>1
      <3>3. \A e \in Told' : e.ts <= now'
        BY <1>1, <1>3, <3>2
      <3> QED
        BY <1>4, <2>2, <3>2, <3>3 DEF Story
    <2> QED
      BY <2>3, <2>4
  <1>10. CASE CloseLast
    <2>1. main = "next" /\ main' = "exit_ok" /\ stage' = NoStage
      BY <1>10 DEF CloseLast, MainStep
    <2>2. CASE stage = NoStage
      <3>1. UNCHANGED <<at, now>> /\ Told = {}
        BY <1>10, <2>1, <2>2 DEF CloseLast, Story, StagesTold
      <3>2. Told' = {} /\ StartsOnce'
        BY <1>1, <3>1, ToldSame DEF Story
      <3> QED
        BY <1>4, <2>1, <3>2 DEF Story, StagesTold, EndTold, Upward
    <2>3. CASE stage # NoStage
      <3>1. Create(Main, "end", stage, SoonOrLater)
        BY <1>10, <2>3 DEF CloseLast
      <3>2. PICK v : /\ Told' = Told \cup {v} /\ v.kind = "end" /\ v.stage = stage /\ v.ts = now'
                     /\ now' \in {now, now + 1} /\ StartsOnce'
        BY <1>1, <1>2, <3>1
      <3>3. \A e \in Told : e.ts < now
        BY <2>1, <2>3 DEF Story, StagesTold
      <3>4. \A e \in Told : e.ts < v.ts
        BY <1>1, <3>2, <3>3
      <3>5. \A e \in Told : e.kind = "start" /\ e.stage # stage =>
              \E f \in Told : f.kind = "end" /\ f.stage = e.stage /\ f.ts > e.ts
        BY <2>1 DEF Story, StagesTold, Upward
      <3>6. \A e \in Told' : e.kind = "start" =>
              \E f \in Told' : f.kind = "end" /\ f.stage = e.stage /\ f.ts > e.ts
        BY <1>1, <3>2, <3>4, <3>5
      <3>7. StagesTold'
        BY <2>1, <3>6 DEF StagesTold, Upward
      <3>8. EndTold'
        BY <2>1, <3>2, <3>4 DEF EndTold
      <3>9. \A e \in Told' : e.ts <= now'
        BY <1>1, <1>3, <3>2
      <3> QED
        BY <1>4, <3>2, <3>7, <3>8, <3>9 DEF Story
    <2> QED
      BY <2>2, <2>3
  <1> QED
    BY <1>5, <1>6, <1>7, <1>8, <1>9, <1>10 DEF Creating

LEMMA CheckpointStory ==
  ASSUME RecordTypes, Settled, InPlace, Story, Checkpoint
  PROVE  Story'
  <1>1. /\ main = "work" /\ main' = "next" /\ UNCHANGED <<scen, job, stage, at, cut, torn, emitted>> /\ Ws' = Ws
        /\ now' = now + 1 /\ done'[Ws] = stage
    BY WsType DEF Checkpoint, MainStep, RecordTypes, Ws
  <1>2. Told' = Told /\ StartsOnce'
    BY <1>1, ToldSame DEF Story
  <1>3. \A e \in Told : e.ts \in Nat /\ e.stage \in Nat /\ e.ts <= now
    BY ToldEvents DEF Story
  <1>4. stage = done[Ws] + 1 /\ now \in Nat /\ done[Ws] \in Nat /\ NoStage = 0
    BY <1>1, ToldEvents DEF Story, StagesTold, NoStage
  <1>5. \A e \in Told : /\ e.kind = "start" => e.stage # NoStage /\ (e.stage <= done[Ws] \/ e.stage = stage)
                        /\ e.kind \in StageEnds => e.stage <= done[Ws] /\ e.stage # stage
    BY <1>1, <1>4 DEF Story, StagesTold, Upward
  <1>6. \A e \in Told : /\ e.kind = "start" => e.stage # NoStage /\ e.stage <= stage
                        /\ e.kind \in StageEnds => e.stage <= stage /\ e.stage # stage
    BY <1>3, <1>4, <1>5
  <1>7. \A e \in Told : e.kind = "start" /\ e.stage # stage =>
          \E f \in Told : f.kind = "end" /\ f.stage = e.stage /\ f.ts > e.ts
    BY <1>1 DEF Story, StagesTold, Upward
  <1>8. \A e \in Told : e.ts < now'
    BY <1>1, <1>3, <1>4
  <1>9. StagesTold'
    BY <1>1, <1>2, <1>4, <1>6, <1>7, <1>8 DEF StagesTold
  <1>10. \A e \in Told : e.ts <= now'
    BY <1>3, <1>8, <1>1, <1>4
  <1> QED
    BY <1>1, <1>2, <1>9, <1>10 DEF Story, EndTold, Running

LEMMA ExitStory ==
  ASSUME RecordTypes, Settled, InPlace, Story, Exit
  PROVE  Story'
  <1>1. /\ UNCHANGED <<scen, job, stage, at, cut, torn, emitted, done, now>> /\ Ws' = Ws
        /\ \/ main = "exit_ok" /\ main' = "succeeded"
           \/ main = "exit_failed" /\ main' = "failed"
    BY DEF Exit, MainStep, logvars, Ws
  <1>2. Told' = Told /\ StartsOnce'
    BY <1>1, ToldSame DEF Story
  <1> QED
    BY <1>1, <1>2 DEF Story, StagesTold, EndTold, Running, Upward

LEMMA CancelStory ==
  ASSUME RecordTypes, Settled, InPlace, Story, Cancel
  PROVE  Story'
  <1>1. /\ UNCHANGED <<scen, job, stage, torn, emitted, done, now>> /\ Ws' = Ws /\ main' = "cancelled"
        /\ at' = [t \in Threads |-> NotEmitting]
    BY DEF Cancel, Die, Ws
  <1>2. Told' \subseteq Told
    BY <1>1 DEF Told, NotEmitting
  <1>3. StartsOnce'
    BY <1>1 DEF Story, StartsOnce, NotEmitting
  <1>4. StagesTold'
    BY <1>1, <1>2 DEF Story, StagesTold, Upward
  <1> QED
    BY <1>1, <1>2, <1>3, <1>4 DEF Story, EndTold, Running

\* A job with a workspace of its own begins with nothing told.
LEMMA NextJobStory ==
  ASSUME RecordTypes, Settled, InPlace, Untouched, ToNextJob, job < scen.jobs, main \notin Running
  PROVE  (OwnWorkspace' => Story' /\ FailureTold') /\ Untouched'
  <1>1. /\ UNCHANGED <<scen, at, done, now, cut, torn, emitted>>
        /\ job' = job + 1 /\ main' = "next" /\ stage' = NoStage
    BY DEF ToNextJob
  <1>2. /\ job \in Jobs /\ job + 1 \in Jobs /\ \A j \in Jobs : j <= job => j <= job + 1 /\ j # job + 1
        /\ scen.ws[job + 1] \in Jobs
    BY NextJob, ScenariosAssumption DEF InPlace, ScenarioType
  <1>3. Untouched'
    BY <1>1, <1>2 DEF Untouched
  <1>4. ASSUME OwnWorkspace' PROVE Story' /\ FailureTold'
    <2>1. PICK w \in Jobs : w = Ws' /\ w = scen.ws[job + 1]
      BY <1>1, <1>2 DEF Ws
    <2>2. \A j \in Jobs : j <= job => scen.ws[j] # w
      BY <1>1, <1>2, <1>4, <2>1 DEF OwnWorkspace, Ws
    <2>3. emitted[w] = << >> /\ torn[w] = << >> /\ ~cut[w]
      BY <2>2 DEF Untouched
    <2>4. {t \in Threads : at[t].step = "append"} = {}
      BY DEF Settled
    <2>5. Told' = {}
      BY <1>1, <2>1, <2>3, <2>4 DEF Told
    <2>6. StartsOnce'
      BY <1>1, <2>1, <2>3, <2>4 DEF StartsOnce
    <2> QED
      BY <1>1, <2>1, <2>3, <2>5, <2>6 DEF Story, FailureTold, StagesTold, EndTold, NoStage
  <1> QED
    BY <1>3, <1>4

\* Only the workspace of the worker's job changes.
LEMMA StillUntouched ==
  ASSUME InPlace, RecordTypes, Untouched, UNCHANGED <<scen, job>>,
         \A w \in Jobs : w # Ws => /\ emitted'[w] = emitted[w] /\ done'[w] = done[w]
                                  /\ torn'[w] = torn[w] /\ cut'[w] = cut[w]
  PROVE  Untouched'
  <1>1. job \in Jobs /\ job <= job
    BY NextJob DEF InPlace
  <1> QED
    BY <1>1 DEF Untouched, Ws

\* What is known of a run that was never killed, and what the worker's next job finds.
Unkilled ==
  /\ kills \in Nat /\ (main = "down" => kills # 0)
  /\ Untouched
  /\ NeverKilled => Story

LEMMA UnkilledInit == Init => Unkilled
  <1> SUFFICES ASSUME Init PROVE Unkilled
    OBVIOUS
  <1>1. Ws \in Jobs
    BY PlaceInit, WsType
  <1>2. /\ Told = {} /\ StartsOnce /\ main = "next" /\ stage = NoStage /\ torn[Ws] = << >> /\ ~cut[Ws] /\ kills = 0
    BY <1>1 DEF Init, EventsInit, Told, StartsOnce, NotEmitting
  <1>3. Untouched
    BY DEF Init, EventsInit, Untouched
  <1>4. Story
    BY <1>2 DEF Story, StagesTold, EndTold
  <1> QED
    BY <1>2, <1>3, <1>4 DEF Unkilled

LEMMA OrchestrateUnkilled ==
  ASSUME InPlace, Record, Unkilled, Orchestrate
  PROVE  Unkilled'
  <1> USE DEF Record, Unkilled
  <1>1. UNCHANGED <<scen, job>> /\ (OwnWorkspace' => OwnWorkspace)
    BY OrchestrateFrame DEF OwnWorkspace, Ws
  <1>2. CASE Creating
    <2>1. UNCHANGED <<emitted, cut, torn, done, kills>> /\ main \in Running /\ main' # "down"
      BY <1>2 DEF Creating, EndPrevious, OpenStage, Fail, CloseFailed, CloseLast, Note, MainStep, Running
    <2> QED
      BY <1>1, <1>2, <2>1, CreateStory, StillUntouched DEF NeverKilled, Running
  <1>3. CASE Checkpoint
    <2>1. /\ UNCHANGED <<emitted, cut, torn, kills>> /\ done' = [done EXCEPT ![Ws] = stage] /\ main = "work" /\ main' = "next"
      BY <1>3 DEF Checkpoint, MainStep
    <2>2. Untouched'
      BY <1>1, <2>1, StillUntouched DEF RecordTypes
    <2> QED
      BY <1>1, <1>3, <2>1, <2>2, CheckpointStory DEF NeverKilled
  <1>4. CASE Exit
    <2>1. UNCHANGED <<emitted, cut, torn, done, kills>> /\ main # "dropped" /\ main' # "down"
      BY <1>4 DEF Exit, MainStep, logvars
    <2> QED
      BY <1>1, <1>4, <2>1, ExitStory, StillUntouched DEF NeverKilled
  <1>5. CASE Crash \/ Cancel
    <2>1. UNCHANGED <<emitted, torn, done>> /\ main # "dropped"
          /\ \E tear \in BOOLEAN : cut' = [cut EXCEPT ![Ws] = @ \/ tear]
      BY <1>5 DEF Crash, Cancel, Die, Running
    <2>2. Untouched'
      BY <1>1, <2>1, StillUntouched DEF RecordTypes
    <2>3. CASE Crash
      BY <2>2, <2>3 DEF Crash, NeverKilled
    <2>4. CASE Cancel
      BY <1>1, <2>1, <2>2, <2>4, CancelStory DEF Cancel, Die, NeverKilled
    <2> QED
      BY <1>5, <2>3, <2>4
  <1>6. CASE Relaunch \/ GiveUp
    <2>1. UNCHANGED <<emitted, cut, torn, done, kills>> /\ main = "down" /\ main' # "down"
      BY <1>6 DEF Relaunch, GiveUp, logvars
    <2> QED
      BY <1>1, <2>1, StillUntouched DEF NeverKilled
  <1>7. ASSUME NEW t \in Threads, AppendLine(t) \/ PostSkipped(t) \/ Post(t) PROVE Unkilled'
    <2>1. UNCHANGED <<stage, done, now, kills, main>> /\ at[t].step # "idle"
      BY <1>7 DEF AppendLine, PostSkipped, Post
    <2>2. \A w \in Jobs : w # Ws => emitted'[w] = emitted[w] /\ torn'[w] = torn[w] /\ cut'[w] = cut[w]
      BY <1>7 DEF AppendLine, PostSkipped, Post, RecordTypes
    <2>3. Untouched'
      BY <1>1, <2>1, <2>2, StillUntouched
    <2>4. ~cut[Ws] => torn'[Ws] = torn[Ws] /\ ~cut'[Ws]
      BY <1>7, WsType DEF AppendLine, PostSkipped, Post, RecordTypes
    <2>5. main \in Running
      BY <2>1 DEF Settled
    <2>6. Story => Story'
      BY <1>1, <1>7, <2>1, <2>4, <2>5, ToldEmit, SameStory DEF Story
    <2> QED
      BY <1>1, <2>1, <2>3, <2>6 DEF NeverKilled
  <1> QED
    BY <1>2, <1>3, <1>4, <1>5, <1>6, <1>7 DEF Orchestrate, Creating

LEMMA SameUnkilled ==
  ASSUME InPlace, Record, Unkilled, UNCHANGED <<logvars, job, kills>>, main' = main \/ main' = "dropped"
  PROVE  Unkilled'
  <1>1. UNCHANGED <<scen, job, emitted, done, cut, torn, at, now, stage, kills>>
    BY DEF logvars
  <1>2. Untouched'
    BY <1>1, StillUntouched DEF Record, Unkilled
  <1>3. ASSUME NeverKilled' PROVE Story'
    <2>1. main' = main /\ NeverKilled
      BY <1>1, <1>3 DEF NeverKilled, OwnWorkspace, Ws
    <2>2. Told' = Told /\ StartsOnce'
      BY <1>1, <2>1, ToldSame DEF Unkilled, Story
    <2> QED
      BY <1>1, <2>1, <2>2, SameStory DEF Unkilled, Story
  <1> QED
    BY <1>1, <1>2, <1>3 DEF Unkilled

LEMMA UnkilledNext == HandTypes /\ InPlace /\ Record /\ Unkilled /\ [Next]_vars => Unkilled'
  <1> SUFFICES ASSUME HandTypes, InPlace, Record, Unkilled, [Next]_vars PROVE Unkilled'
    OBVIOUS
  <1>1. CASE Orchestrate /\ UNCHANGED <<worker, svars>>
    BY <1>1, OrchestrateUnkilled
  <1>2. CASE UNCHANGED evars
    BY <1>2, SameUnkilled DEF evars
  <1>3. ASSUME ToNextJob, job < scen.jobs, main \notin Running PROVE Unkilled'
    <2>1. (OwnWorkspace' => Story') /\ Untouched'
      BY <1>3, NextJobStory DEF Record, Unkilled
    <2> QED
      BY <1>3, <2>1 DEF ToNextJob, Unkilled, NeverKilled
  <1>4. CASE Save
    <2>1. main \in Ended
      BY <1>4 DEF Save, InPlace
    <2> QED
      BY <1>3, <1>4, <2>1, SameUnkilled DEF Save, Ended, Running
  <1>5. CASE SkipAnalysis
    BY <1>3, <1>5 DEF SkipAnalysis, Running
  <1>6. CASE StartAnalysis \/ Analyse \/ WriteAnalysis \/ TakeLock \/ Load
    BY <1>2, <1>6 DEF StartAnalysis, Analyse, WriteAnalysis, TakeLock, Load
  <1>7. ASSUME NEW u \in User, UserStep(u) PROVE Unkilled'
    BY <1>2, <1>7, UserHand
  <1>8. CASE UNCHANGED vars
    BY <1>2, <1>8 DEF vars
  <1> QED
    BY <1>1, <1>4, <1>5, <1>6, <1>7, <1>8, Cases DEF Analysis

-----------------------------------------------------------------------------
(* How a run fails, killed and launched again or not. *)

LEMMA CreateFailure ==
  ASSUME RecordTypes, InPlace, FailureTold, Creating
  PROVE  FailureTold'
  <1> USE MainIsThread DEF Kinds
  <1>1. /\ UNCHANGED <<scen, job, emitted>>
        /\ \A e \in Told : e.ts \in Nat /\ e.ts <= now
        /\ now \in Nat /\ stage \in 0..Stages
    BY ToldEvents DEF FailureTold, Creating, EndPrevious, OpenStage, Fail, CloseFailed, CloseLast, Note, RecordTypes
  <1>2. ASSUME NEW t \in Threads, NEW kind \in Kinds, NEW label \in 0..Stages,
               NEW times \in {SoonOrLater, Later}, Create(t, kind, label, times)
        PROVE  \E v : /\ Told' = Told \cup {v} /\ v.kind = kind /\ v.ts = now'
                      /\ now' \in {now, now + 1} /\ (times = Later => now' = now + 1)
                      /\ \A e \in Told' : e.ts <= now'
    <2>1. PICK v : v = [ts |-> now', kind |-> kind, stage |-> label]
      OBVIOUS
    <2>2. /\ Told' = Told \cup {v} /\ v.kind = kind /\ v.ts = now'
          /\ now' \in {now, now + 1} /\ (times = Later => now' = now + 1)
      BY <1>1, <1>2, <2>1, ToldCreate
    <2>3. \A e \in Told' : e.ts <= now'
      BY <1>1, <2>2
    <2> QED
      BY <2>2, <2>3
  <1>3. ASSUME NEW t \in Threads, NEW kind \in Kinds, NEW label \in 0..Stages, Create(t, kind, label, SoonOrLater),
               main' \notin {"next", "close", "exit_failed", "failed"}
        PROVE  FailureTold'
    <2>1. \A e \in Told' : e.ts <= now'
      BY <1>2, <1>3
    <2> QED
      BY <1>3, <2>1 DEF FailureTold
  <1>4. CASE EndPrevious
    BY <1>1, <1>3, <1>4 DEF EndPrevious, MainStep
  <1>5. CASE OpenStage
    <2>1. Create(Main, "start", NextStage, SoonOrLater) /\ main' = "work"
      BY <1>5 DEF OpenStage, MainStep
    <2>2. NextStage \in 0..Stages
      BY <1>5, WsType, BoundsAssumption DEF OpenStage, StagesLeft, NextStage, RecordTypes
    <2> QED
      BY <1>3, <2>1, <2>2
  <1>6. ASSUME NEW t \in Helper, Note(t) PROVE FailureTold'
    <2>1. PICK kind \in {"note", "error"} : Create(t, kind, stage, SoonOrLater)
      BY <1>6 DEF Note
    <2> QED
      BY <1>1, <1>3, <1>6, <2>1 DEF Note
  <1>7. CASE Fail
    <2>1. /\ main' = "close"
          /\ \/ main = "work" /\ Create(Main, "error", stage, Later)
             \/ main = "next" /\ Create(Main, "error", stage, SoonOrLater)
      BY <1>7 DEF Fail, MainStep
    <2>2. PICK v : /\ Told' = Told \cup {v} /\ v.kind = "error" /\ v.ts = now'
                   /\ now' \in {now, now + 1} /\ (main = "work" => now' = now + 1)
                   /\ \A e \in Told' : e.ts <= now'
      BY <1>1, <1>2, <2>1
    <2>3. \A e \in Told : e.ts < now'
      BY <1>1, <2>1, <2>2 DEF FailureTold
    <2> QED
      BY <2>1, <2>2, <2>3 DEF FailureTold
  <1>8. CASE CloseFailed
    <2>1. main = "close" /\ main' = "exit_failed"
      BY <1>8 DEF CloseFailed, MainStep
    <2>2. PICK f \in Told : f.kind = "error" /\ \A e \in Told : e.ts < f.ts \/ e = f
      BY <2>1 DEF FailureTold
    <2>3. CASE stage = NoStage
      <3>1. UNCHANGED <<at, now>>
        BY <1>8, <2>3 DEF CloseFailed
      <3>2. Told' = Told
        BY <1>1, <3>1, ToldSame
      <3> QED
        BY <1>1, <2>1, <2>2, <3>1, <3>2 DEF FailureTold
    <2>4. CASE stage # NoStage
      <3>1. Create(Main, "failed_end", stage, SoonOrLater)
        BY <1>8, <2>4 DEF CloseFailed
      <3>2. PICK v : Told' = Told \cup {v} /\ v.kind = "failed_end" /\ \A e \in Told' : e.ts <= now'
        BY <1>1, <1>2, <3>1
      <3> QED
        BY <2>1, <2>2, <3>2 DEF FailureTold
    <2> QED
      BY <2>3, <2>4
  <1>9. CASE CloseLast
    <2>1. main' = "exit_ok"
      BY <1>9 DEF CloseLast, MainStep
    <2>2. CASE stage = NoStage
      <3>1. UNCHANGED <<at, now>>
        BY <1>9, <2>2 DEF CloseLast
      <3>2. Told' = Told
        BY <1>1, <3>1, ToldSame
      <3> QED
        BY <1>1, <2>1, <3>1, <3>2 DEF FailureTold
    <2>3. CASE stage # NoStage
      BY <1>1, <1>3, <1>9, <2>1, <2>3 DEF CloseLast
    <2> QED
      BY <2>2, <2>3
  <1> QED
    BY <1>4, <1>5, <1>6, <1>7, <1>8, <1>9 DEF Creating

LEMMA OrchestrateFailure ==
  ASSUME InPlace, Record, FailureTold, Orchestrate
  PROVE  FailureTold'
  <1> USE DEF Record
  <1>1. (\A e \in Told : e.ts \in Nat /\ e.ts <= now) /\ now \in Nat
    BY ToldEvents DEF FailureTold
  <1>2. CASE Creating
    BY <1>2, CreateFailure
  <1>3. CASE Checkpoint \/ Relaunch
    <2>1. UNCHANGED <<scen, job, at, emitted>> /\ main' = "next" /\ now' = now + 1
      BY <1>3 DEF Checkpoint, Relaunch, MainStep
    <2>2. Told' = Told
      BY <2>1, ToldSame
    <2> QED
      BY <1>1, <2>1, <2>2 DEF FailureTold
  <1>4. CASE Exit \/ GiveUp
    <2>1. /\ UNCHANGED <<scen, job, at, emitted, now>> /\ main' \in {"succeeded", "failed", "dropped"}
          /\ main' = "failed" => main = "exit_failed"
      BY <1>4 DEF Exit, GiveUp, MainStep, logvars
    <2>2. Told' = Told
      BY <2>1, ToldSame
    <2> QED
      BY <2>1, <2>2 DEF FailureTold
  <1>5. CASE Crash \/ Cancel
    <2>1. /\ UNCHANGED <<scen, job, emitted, now>> /\ main' \in {"down", "cancelled"}
          /\ at' = [t \in Threads |-> NotEmitting]
      BY <1>5 DEF Crash, Cancel, Die
    <2>2. Told' \subseteq Told
      BY <2>1 DEF Told, NotEmitting, Ws
    <2> QED
      BY <2>1, <2>2 DEF FailureTold
  <1>6. ASSUME NEW t \in Threads, AppendLine(t) \/ PostSkipped(t) \/ Post(t) PROVE FailureTold'
    <2>1. UNCHANGED <<now, main>>
      BY <1>6 DEF AppendLine, PostSkipped, Post
    <2>2. Told' = Told
      BY <1>6, ToldEmit
    <2> QED
      BY <2>1, <2>2 DEF FailureTold
  <1> QED
    BY <1>2, <1>3, <1>4, <1>5, <1>6 DEF Orchestrate, Creating

FailureKnown == OwnWorkspace => FailureTold

LEMMA FailureInit == Init => FailureKnown
  <1> SUFFICES ASSUME Init PROVE FailureTold
    BY DEF FailureKnown
  <1>1. Ws \in Jobs
    BY PlaceInit, WsType
  <1>2. Told = {} /\ main = "next"
    BY <1>1 DEF Init, EventsInit, Told, NotEmitting
  <1> QED
    BY <1>2 DEF FailureTold

LEMMA SameFailure ==
  ASSUME FailureKnown, UNCHANGED <<logvars, job>>, main' = main \/ main' = "dropped"
  PROVE  FailureKnown'
  <1>1. UNCHANGED <<scen, job, emitted, at, now>>
    BY DEF logvars
  <1>2. Told' = Told /\ (OwnWorkspace' => OwnWorkspace)
    BY <1>1, ToldSame DEF OwnWorkspace, Ws
  <1> QED
    BY <1>1, <1>2 DEF FailureKnown, FailureTold

LEMMA FailureNext == HandTypes /\ InPlace /\ Record /\ Unkilled /\ FailureKnown /\ [Next]_vars => FailureKnown'
  <1> SUFFICES ASSUME HandTypes, InPlace, Record, Unkilled, FailureKnown, [Next]_vars PROVE FailureKnown'
    OBVIOUS
  <1>1. CASE Orchestrate /\ UNCHANGED <<worker, svars>>
    <2>1. OwnWorkspace' => OwnWorkspace
      BY <1>1, OrchestrateFrame DEF OwnWorkspace, Ws
    <2> QED
      BY <1>1, <2>1, OrchestrateFailure DEF FailureKnown
  <1>2. CASE UNCHANGED evars
    BY <1>2, SameFailure DEF evars
  <1>3. ASSUME ToNextJob, job < scen.jobs, main \notin Running PROVE FailureKnown'
    BY <1>3, NextJobStory DEF Record, Unkilled, FailureKnown
  <1>4. CASE Save
    <2>1. main \in Ended
      BY <1>4 DEF Save, InPlace
    <2> QED
      BY <1>3, <1>4, <2>1, SameFailure DEF Save, Ended, Running
  <1>5. CASE SkipAnalysis
    BY <1>3, <1>5 DEF SkipAnalysis, Running
  <1>6. CASE StartAnalysis \/ Analyse \/ WriteAnalysis \/ TakeLock \/ Load
    BY <1>2, <1>6 DEF StartAnalysis, Analyse, WriteAnalysis, TakeLock, Load
  <1>7. ASSUME NEW u \in User, UserStep(u) PROVE FailureKnown'
    BY <1>2, <1>7, UserHand
  <1>8. CASE UNCHANGED vars
    BY <1>2, <1>8 DEF vars
  <1> QED
    BY <1>1, <1>4, <1>5, <1>6, <1>7, <1>8, Cases DEF Analysis

-----------------------------------------------------------------------------
(* What readers make of it. *)

\* What a reader sees is what was told, each event as often, in the order of time.
LEMMA SeenIsTold ==
  ASSUME InPlace, Record, torn[Ws] = << >>, \A t \in Threads : at[t].step = "idle",
         NEW log, log = AllEvents(job)
  PROVE  /\ log \in Seq(Event)
         /\ \A i, j \in DOMAIN log : i < j => log[i].ts <= log[j].ts
         /\ \A i \in DOMAIN log : log[i] \in Told
         /\ \A e \in Told : \E i \in DOMAIN log : log[i] = e
         /\ \A e \in Event : Count(log, e) = Count(emitted[Ws], e)
  <1>1. Ws \in Jobs /\ job \in Jobs
    BY WsType
  <1>2. served[job] \in Seq(Event) /\ file[Ws] \in Seq(Event) /\ emitted[Ws] \in Seq(Event)
    BY <1>1 DEF Record, RecordTypes
  <1>3. log = Merge(served[job], file[Ws])
    BY DEF AllEvents, Ws
  <1>4. log \in Seq(Event) /\ \A i, j \in DOMAIN log : i < j => log[i].ts <= log[j].ts
    BY <1>2, <1>3, MergeInOrder
  <1>5. ASSUME NEW e \in Event PROVE Count(log, e) = Count(emitted[Ws], e)
    <2>1. Count(served[job], e) <= Count(emitted[Ws], e) /\ file[Ws] = emitted[Ws]
      <3>1. {} \in SUBSET Posting(e) /\ IsFiniteSet({}) /\ Cardinality({}) = 0
        BY FS_EmptySet
      <3>2. Count(served[job], e) + 0 <= Count(emitted[Ws], e)
        BY <3>1 DEF Record, Accounted
      <3>3. Count(served[job], e) \in Nat
        BY Zenon, <1>2, Occurrences
      <3> QED
        BY <1>1, <3>2, <3>3 DEF Record, Accounted
    <2>2. Count(served[job], e) \in Nat /\ Count(emitted[Ws], e) \in Nat
      BY Zenon, <1>2, Occurrences
    <2>3. Count(log, e) =
            IF Count(file[Ws], e) > Count(served[job], e) THEN Count(file[Ws], e) ELSE Count(served[job], e)
      BY <1>2, <1>3, MergeIsUnion
    <2> QED
      BY <2>1, <2>2, <2>3
  <1>6. ASSUME NEW l \in Seq(Event), NEW e PROVE Count(l, e) > 0 <=> \E i \in DOMAIN l : l[i] = e
    <2> DEFINE S == {i \in DOMAIN l : l[i] = e}
    <2>1. IsFiniteSet(S) /\ Count(l, e) = Cardinality(S) /\ Count(l, e) \in Nat
      BY Zenon, Occurrences
    <2>2. S = {} <=> ~ \E i \in DOMAIN l : l[i] = e
      OBVIOUS
    <2> HIDE DEF S
    <2>3. S = {} <=> Cardinality(S) = 0
      BY <2>1, FS_EmptySet
    <2> QED
      BY <2>1, <2>2, <2>3
  <1>7. Told = {emitted[Ws][i] : i \in DOMAIN emitted[Ws]}
    BY DEF Told
  <1>8. \A i \in DOMAIN log : log[i] \in Told
    <2> SUFFICES ASSUME NEW i \in DOMAIN log PROVE log[i] \in Told
      OBVIOUS
    <2>1. log[i] \in Event
      BY <1>4
    <2>2. Count(log, log[i]) > 0
      BY <1>4, <1>6
    <2> QED
      BY <1>2, <1>5, <1>6, <1>7, <2>1, <2>2
  <1>9. \A e \in Told : \E i \in DOMAIN log : log[i] = e
    <2> SUFFICES ASSUME NEW e \in Told PROVE \E i \in DOMAIN log : log[i] = e
      OBVIOUS
    <2>1. e \in Event /\ \E i \in DOMAIN emitted[Ws] : emitted[Ws][i] = e
      BY <1>2, <1>7
    <2> QED
      BY <1>2, <1>4, <1>5, <1>6, <2>1
  <1> QED
    BY <1>4, <1>5, <1>8, <1>9

\* An event that is told once is seen once.
LEMMA SeenOnce ==
  ASSUME NEW es \in Seq(Event), NEW log \in Seq(Event), NEW k \in DOMAIN es,
         \A i \in DOMAIN es : es[i] = es[k] => i = k, Count(log, es[k]) = Count(es, es[k])
  PROVE  \A i, j \in DOMAIN log : log[i] = es[k] /\ log[j] = es[k] => i = j
  <1> DEFINE e == es[k]
             S == {i \in DOMAIN es : es[i] = e}
             T == {i \in DOMAIN log : log[i] = e}
  <1>1. S = {k}
    OBVIOUS
  <1>2. Cardinality(S) = 1
    BY <1>1, FS_Singleton
  <1>3. IsFiniteSet(T) /\ Cardinality(T) = 1
    <2>1. IsFiniteSet(T) /\ Count(log, e) = Cardinality(T)
      BY Zenon, Occurrences
    <2>2. Count(es, e) = Cardinality(S)
      BY DEF Count
    <2> QED
      BY <1>2, <2>1, <2>2
  <1>4. \E x : T = {x}
    <2> HIDE DEF T
    <2> QED
      BY <1>3, FS_Singleton
  <1> QED
    BY <1>4

LEMMA Times ==
  ASSUME NEW l \in Seq(Event), NEW i \in DOMAIN l
  PROVE  l[i].ts \in Nat
  <1>1. l[i] \in Event
    OBVIOUS
  <1> QED
    BY <1>1 DEF Event

\* What is told last is seen last.
LEMMA SeenLast ==
  ASSUME NEW log \in Seq(Event), log # << >>, \A i, j \in DOMAIN log : i < j => log[i].ts <= log[j].ts,
         NEW p \in DOMAIN log
  PROVE  Len(log) \in DOMAIN log /\ log[p].ts <= log[Len(log)].ts
  <1>1. Len(log) \in DOMAIN log /\ p \in Nat /\ (p < Len(log) \/ p = Len(log))
    OBVIOUS
  <1>2. log[p].ts \in Nat
    BY Times
  <1> QED
    BY <1>1, <1>2

LEMMA CancelFacts ==
  ASSUME RecordTypes, stage # NoStage, \A e \in Told : e.kind \in StageEnds => e.stage # stage,
         NEW log \in Seq(Event), \A i \in DOMAIN log : log[i] \in Told,
         NEW i \in DOMAIN log, log[i].kind = "start", log[i].stage = stage
  PROVE  stage \in Unfinished(log)
  <1> DEFINE Starts == {k \in i..Len(log) : log[k].stage = stage /\ log[k].kind \in {"start"}}
             Over == {k \in i..Len(log) : log[k].stage = stage /\ log[k].kind \in {"end", "failed_end"}}
  <1>1. i..Len(log) \subseteq DOMAIN log /\ i \in i..Len(log)
    OBVIOUS
  <1>2. i \in Starts /\ Over = {}
    BY <1>1 DEF StageEnds
  <1>3. IsFiniteSet(Starts)
    <2>1. IsFiniteSet(i..Len(log))
      BY FS_Interval
    <2> QED
      BY <2>1, FS_Subset
  <1>4. Cardinality(Starts) > Cardinality(Over)
    <2> HIDE DEF Starts, Over
    <2>1. Cardinality(Over) = 0 /\ Cardinality(Starts) \in Nat /\ Cardinality(Starts) # 0
      BY <1>2, <1>3, FS_EmptySet, FS_CardinalityType
    <2> QED
      BY <2>1
  <1>5. stage \in 0..Stages
    BY DEF RecordTypes
  <1> QED
    BY <1>4, <1>5 DEF Unfinished

LEMMA FailedFacts ==
  ASSUME NEW log \in Seq(Event), log # << >>, \A i, j \in DOMAIN log : i < j => log[i].ts <= log[j].ts,
         \A i \in DOMAIN log : log[i] \in Told, \A e \in Told : \E i \in DOMAIN log : log[i] = e,
         NEW f \in Told, f.kind = "error", \A e \in Told : e.ts < f.ts \/ e = f \/ e.kind = "failed_end"
  PROVE  Outcome(log) = "failed"
  <1>1. PICK p \in DOMAIN log : log[p] = f
    OBVIOUS
  <1>2. Len(log) \in DOMAIN log /\ f.ts <= log[Len(log)].ts
    BY <1>1, SeenLast
  <1>3. log[Len(log)] \in Told /\ log[Len(log)].ts \in Nat /\ f.ts \in Nat
    BY <1>1, <1>2, Times
  <1> DEFINE last == log[Len(log)]
             a == last.ts
             b == f.ts
  <1>4. ~(a < b)
    <2>1. a \in Nat /\ b \in Nat /\ b <= a
      BY <1>2, <1>3
    <2> HIDE DEF a, b
    <2> QED
      BY <2>1
  <1>5. last = f \/ last.kind = "failed_end"
    BY <1>3, <1>4
  <1>6. \A k \in DOMAIN log : k <= Len(log)
    OBVIOUS
  <1>7. CASE last = f
    BY <1>7 DEF Outcome
  <1>8. CASE last.kind = "failed_end"
    BY <1>2, <1>6, <1>8 DEF Outcome
  <1> QED
    BY <1>5, <1>7, <1>8

LEMMA SucceededFacts ==
  ASSUME NEW log \in Seq(Event), log # << >>, \A i, j \in DOMAIN log : i < j => log[i].ts <= log[j].ts,
         \A i \in DOMAIN log : log[i] \in Told, \A e \in Told : \E i \in DOMAIN log : log[i] = e,
         \A i, j \in DOMAIN log : /\ log[i].kind = "start" /\ log[j].kind = "start"
                                  /\ log[i].stage = log[j].stage
                                  => i = j,
         NEW f \in Told, f.kind = "end", \A e \in Told : e.ts < f.ts \/ e = f,
         \A e \in Told : e.kind = "start" =>
           \E g \in Told : g.kind = "end" /\ g.stage = e.stage /\ g.ts > e.ts
  PROVE  Outcome(log) = "succeeded" /\ Unfinished(log) = {}
  <1>1. PICK p \in DOMAIN log : log[p] = f
    OBVIOUS
  <1>2. Len(log) \in DOMAIN log /\ f.ts <= log[Len(log)].ts
    BY <1>1, SeenLast
  <1>3. log[Len(log)] = f
    <2> DEFINE a == log[Len(log)].ts
               b == f.ts
    <2>1. log[Len(log)] \in Told /\ a \in Nat /\ b \in Nat /\ b <= a
      BY <1>1, <1>2, Times
    <2>2. a < b \/ log[Len(log)] = f
      BY <2>1
    <2> HIDE DEF a, b
    <2> QED
      BY <2>1, <2>2
  <1>4. Unfinished(log) = {}
    <2> SUFFICES ASSUME NEW s \in 0..Stages, NEW i \in DOMAIN log
                 PROVE  ~(Cardinality({k \in i..Len(log) : log[k].stage = s /\ log[k].kind \in {"start"}})
                          > Cardinality({k \in i..Len(log) : log[k].stage = s /\ log[k].kind \in {"end", "failed_end"}}))
      BY DEF Unfinished
    <2> DEFINE Starts == {k \in i..Len(log) : log[k].stage = s /\ log[k].kind \in {"start"}}
               Over == {k \in i..Len(log) : log[k].stage = s /\ log[k].kind \in {"end", "failed_end"}}
    <2>1. i..Len(log) \subseteq DOMAIN log /\ \A k \in i..Len(log), m \in DOMAIN log : k < m => m \in i..Len(log)
      OBVIOUS
    <2>2. IsFiniteSet(Over)
      <3>1. IsFiniteSet(i..Len(log))
        BY FS_Interval
      <3> QED
        BY <3>1, FS_Subset
    <2>3. CASE Starts = {}
      <3> HIDE DEF Starts, Over
      <3>1. Cardinality(Starts) = 0 /\ Cardinality(Over) \in Nat
        BY <2>2, <2>3, FS_EmptySet, FS_CardinalityType
      <3>2. ~(Cardinality(Starts) > Cardinality(Over))
        BY <3>1
      <3> QED
        BY <3>2 DEF Starts, Over
    <2>4. CASE Starts # {}
      <3>1. PICK k \in Starts : TRUE
        BY <2>4
      <3>2. k \in DOMAIN log /\ log[k].kind = "start" /\ log[k].stage = s /\ k \in i..Len(log)
        BY <2>1
      <3>3. Starts = {k}
        BY <2>1, <3>1, <3>2
      <3>4. PICK g \in Told : g.kind = "end" /\ g.stage = s /\ g.ts > log[k].ts
        BY <3>2
      <3>5. PICK m \in DOMAIN log : log[m] = g
        OBVIOUS
      <3>6. k < m
        <4> DEFINE a == log[k].ts
                   b == log[m].ts
        <4>1. a \in Nat /\ b \in Nat /\ b > a /\ k \in Nat /\ m \in Nat
          BY <3>2, <3>4, <3>5, Times
        <4>2. m < k => b <= a
          BY <3>2
        <4>3. m = k => b = a
          OBVIOUS
        <4> HIDE DEF a, b
        <4> QED
          BY <4>1, <4>2, <4>3
      <3>7. m \in Over
        BY <2>1, <3>2, <3>4, <3>5, <3>6
      <3> HIDE DEF Starts, Over
      <3>8. Cardinality(Starts) = 1 /\ Cardinality(Over) \in Nat /\ Cardinality(Over) # 0
        BY <2>2, <3>3, <3>7, FS_EmptySet, FS_Singleton, FS_CardinalityType
      <3>9. ~(Cardinality(Starts) > Cardinality(Over))
        BY <3>8
      <3> QED
        BY <3>9 DEF Starts, Over
    <2> QED
      BY <2>3, <2>4
  <1>5. ASSUME NEW i \in DOMAIN log, log[i].kind = "failed_end",
               \A k \in {m \in DOMAIN log : log[m].kind \in {"end", "failed_end"}} : k <= i
        PROVE  FALSE
    <2>1. Len(log) <= i
      BY <1>2, <1>3, <1>5
    <2>2. i = Len(log)
      BY <2>1
    <2> QED
      BY <1>3, <1>5, <2>2
  <1>6. Outcome(log) = "succeeded"
    BY <1>3, <1>4, <1>5 DEF Outcome
  <1> QED
    BY <1>4, <1>6

LEMMA FactsHold == InPlace /\ Record /\ Unkilled /\ FailureKnown => FactsAreExact
  <1> SUFFICES ASSUME InPlace, Record, Unkilled, OwnWorkspace, FailureTold, NEW log, log = AllEvents(job), log # << >>
               PROVE  /\ main = "failed" /\ torn[Ws] = << >> => Outcome(log) = "failed"
                      /\ main = "succeeded" /\ kills = 0 => Outcome(log) = "succeeded" /\ Unfinished(log) = {}
                      /\ /\ main = "cancelled" /\ kills = 0
                         /\ stage # NoStage
                         /\ \E i \in DOMAIN log : log[i].kind = "start" /\ log[i].stage = stage
                         => stage \in Unfinished(log)
    BY DEF FactsAreExact, FailureKnown
  <1> SUFFICES ASSUME \/ main = "failed" /\ torn[Ws] = << >>
                      \/ main \in {"succeeded", "cancelled"} /\ kills = 0
               PROVE  /\ main = "failed" => Outcome(log) = "failed"
                      /\ main = "succeeded" => Outcome(log) = "succeeded" /\ Unfinished(log) = {}
                      /\ /\ main = "cancelled"
                         /\ stage # NoStage
                         /\ \E i \in DOMAIN log : log[i].kind = "start" /\ log[i].stage = stage
                         => stage \in Unfinished(log)
    OBVIOUS
  <1>1. main \in {"succeeded", "cancelled"} => Story
    BY DEF Unkilled, NeverKilled
  <1>2. torn[Ws] = << >>
    BY <1>1 DEF Story
  <1>3. \A t \in Threads : at[t].step = "idle"
    BY DEF Record, Settled, Running
  <1>4. /\ log \in Seq(Event)
        /\ \A i, j \in DOMAIN log : i < j => log[i].ts <= log[j].ts
        /\ \A i \in DOMAIN log : log[i] \in Told
        /\ \A e \in Told : \E i \in DOMAIN log : log[i] = e
        /\ \A e \in Event : Count(log, e) = Count(emitted[Ws], e)
    BY <1>2, <1>3, SeenIsTold
  <1>5. CASE main = "cancelled"
    <2>1. RecordTypes
      BY DEF Record
    <2>2. stage # NoStage => \A e \in Told : e.kind \in StageEnds => e.stage # stage
      BY <1>1, <1>5 DEF Story, StagesTold
    <2> QED
      BY <1>4, <1>5, <2>1, <2>2, CancelFacts
  <1>6. CASE main = "failed"
    <2>1. PICK f \in Told : f.kind = "error" /\ \A e \in Told : e.ts < f.ts \/ e = f \/ e.kind = "failed_end"
      BY <1>6 DEF FailureTold
    <2> QED
      BY <1>4, <1>6, <2>1, FailedFacts
  <1>7. CASE main = "succeeded"
    <2> DEFINE es == emitted[Ws]
    <2>1. es \in Seq(Event)
      BY WsType DEF Record, RecordTypes
    <2>2. Told = {es[i] : i \in DOMAIN es}
      BY <1>3 DEF Told
    <2>3. \A i, j \in DOMAIN es : es[i].kind = "start" /\ es[j].kind = "start" /\ es[i].stage = es[j].stage => i = j
      BY <1>1, <1>7 DEF Story, StartsOnce
    <2>4. 1 \in DOMAIN log
      BY <1>4
    <2>5. PICK f \in Told : f.kind = "end" /\ \A e \in Told : e.ts < f.ts \/ e = f
      BY <1>1, <1>4, <1>7, <2>4 DEF Story, EndTold
    <2>6. \A e \in Told : e.kind = "start" =>
            \E g \in Told : g.kind = "end" /\ g.stage = e.stage /\ g.ts > e.ts
      BY <1>1, <1>7 DEF Story, StagesTold, Upward
    <2> HIDE DEF es
    <2>7. ASSUME NEW i \in DOMAIN log, NEW j \in DOMAIN log,
                 log[i].kind = "start", log[j].kind = "start", log[i].stage = log[j].stage
          PROVE  i = j
      <3>1. PICK k \in DOMAIN es : es[k] = log[i]
        BY <1>4, <2>2
      <3>2. PICK m \in DOMAIN es : es[m] = log[j]
        BY <1>4, <2>2
      <3>3. m = k
        BY <2>3, <2>7, <3>1, <3>2
      <3>4. \A x \in DOMAIN es : es[x] = es[k] => x = k
        BY <2>3, <2>7, <3>1
      <3>5. Count(log, es[k]) = Count(es, es[k])
        BY <1>4, <2>1 DEF es
      <3> QED
        <4>1. log \in Seq(Event)
          BY <1>4
        <4>2. \A x, y \in DOMAIN log : log[x] = es[k] /\ log[y] = es[k] => x = y
          BY <2>1, <3>4, <3>5, <4>1, SeenOnce
        <4> QED
          BY <3>1, <3>2, <3>3, <4>2
    <2>8. Outcome(log) = "succeeded" /\ Unfinished(log) = {}
      BY <1>4, <2>5, <2>6, <2>7, SucceededFacts
    <2> QED
      BY <1>7, <2>8
  <1> QED
    BY <1>5, <1>6, <1>7

\* analysis.rs, compute_facts and infer_outcome with observer.rs, stage and fail: a run that failed
\* is told to have failed, however often it was killed and launched again, as long as no event of
\* it went into a cut line; one that succeeded and was never killed is told so; and one that was
\* cancelled is told to have left its stage open.  Posts may be lost, and the events of one
\* millisecond be in any order.
THEOREM FactsAreTrue == Spec => []FactsAreExact
  <1> DEFINE Inv == HandTypes /\ Holding /\ InPlace /\ Record /\ Unkilled /\ FailureKnown
  <1>1. Init => Inv
    BY HandInit, PlaceInit, RecordInit, UnkilledInit, FailureInit
  <1>2. Inv /\ [Next]_vars => Inv'
    BY HoldingNext, PlaceNext, RecordNext, UnkilledNext, FailureNext
  <1>3. Inv => FactsAreExact
    BY FactsHold
  <1> QED
    BY <1>1, <1>2, <1>3, PTL DEF Spec

-----------------------------------------------------------------------------
(* Types. *)

\* Nothing was told later than now.
ClockAhead ==
  /\ \A t \in Threads : at[t].event.ts <= now
  /\ \A w \in Jobs : \A i \in DOMAIN emitted[w] : emitted[w][i].ts <= now

\* The lists that clients have in hand are lists of requests.
HandsHoldRequests ==
  /\ main \in MainStates /\ paused \in BOOLEAN /\ notes \in Nat /\ kills \in 0..scen.kills
  /\ ClockAhead
  /\ worker.step \in WorkerSteps
  /\ worker.incoming \in [Slug -> Request] /\ worker.copy \in [Slug -> Request]
  /\ \A u \in User : user[u].copy \in [Slug -> Request] /\ user[u].status \in Statuses
  /\ analyses \in [Jobs -> {"none", "succeeded", "failed"}]
  /\ store \in [Slug -> Request]
  /\ lock \in Clients \cup {Nobody}

LEMMA NoRequestType == NoRequest \in Request /\ Empty \in [Slug -> Request]
  BY DEF NoRequest, Request, Empty, Priorities, Statuses

LEMMA MergedType ==
  ASSUME NEW r \in [Slug -> Request], NEW i \in [Slug -> Request]
  PROVE  Merged(r, i) \in [Slug -> Request]
  <1>1. PICK m : m = Merged(r, i)
    OBVIOUS
  <1>2. ASSUME NEW s \in Slug PROVE m[s] \in Request
    <2>1. r[s] \in Request /\ i[s] \in Request
      OBVIOUS
    <2>2. CASE ~Stored(i, s) \/ ~Stored(r, s)
      BY <1>1, <2>1, <2>2 DEF Merged, Stored
    <2>3. CASE Stored(i, s) /\ Stored(r, s)
      <3>1. PICK p : p = IF i[s].jobs \subseteq r[s].jobs THEN r[s].priority ELSE Raise(r[s].priority)
        OBVIOUS
      <3>2. m[s] = [r[s] EXCEPT !.priority = p, !.jobs = @ \cup i[s].jobs, !.evidence = @ \cup i[s].evidence]
        BY <1>1, <2>3, <3>1 DEF Merged
      <3>3. p \in Priorities
        <4>1. r[s].priority \in {1, 2, 3}
          BY <2>1 DEF Request, Priorities
        <4> QED
          BY <3>1, <4>1 DEF Raise, Priorities
      <3> QED
        BY <2>1, <3>2, <3>3 DEF Request
    <2> QED
      BY <2>2, <2>3
  <1>3. m = [s \in Slug |-> m[s]]
    BY <1>1 DEF Merged
  <1> QED
    BY <1>1, <1>2, <1>3

LEMMA DecidedType ==
  ASSUME NEW r \in [Slug -> Request], NEW s, NEW status \in Statuses
  PROVE  Decided(r, s, status) \in [Slug -> Request]
  <1>1. \A t \in Slug : [r[t] EXCEPT !.status = status] \in Request
    BY DEF Request
  <1> QED
    BY <1>1 DEF Decided

LEMMA HandsInit == Init => HandsHoldRequests
  <1> SUFFICES ASSUME Init PROVE HandsHoldRequests
    OBVIOUS
  <1>1. PICK first : first = CHOOSE s \in Slug : TRUE
    OBVIOUS
  <1>2. user = [u \in User |-> [step |-> "idle", slug |-> first, status |-> "open", copy |-> Empty]]
    BY <1>1, Zenon DEF Init
  <1>3. worker = [step |-> "run", incoming |-> Empty, copy |-> Empty] /\ store = Empty /\ lock = Nobody
        /\ analyses = [j \in Jobs |-> "none"]
    BY DEF Init
  <1>4. /\ scen \in Scenarios /\ main = "next" /\ paused = FALSE /\ notes = 0 /\ kills = 0 /\ now = 0
        /\ at = [t \in Threads |-> NotEmitting] /\ emitted = [w \in Jobs |-> << >>]
    BY DEF Init, EventsInit
  <1>5. scen.kills \in Nat
    BY <1>4, ScenariosAssumption DEF ScenarioType
  <1>6. ClockAhead
    BY <1>4 DEF ClockAhead, NotEmitting, NoEvent
  <1>7. main \in MainStates /\ paused \in BOOLEAN /\ notes \in Nat /\ kills \in 0..scen.kills
    <2>1. main \in MainStates
      BY <1>4 DEF MainStates
    <2>2. kills \in 0..scen.kills
      <3>1. kills = 0
        BY <1>4
      <3> QED
        BY <1>5, <3>1
    <2> QED
      BY <1>4, <2>1, <2>2
  <1>8. \A u \in User : user[u].copy \in [Slug -> Request] /\ user[u].status \in Statuses
    BY <1>2, NoRequestType DEF Statuses
  <1>9. analyses \in [Jobs -> {"none", "succeeded", "failed"}] /\ lock \in Clients \cup {Nobody}
    BY <1>3
  <1> QED
    BY <1>3, <1>6, <1>7, <1>8, <1>9, NoRequestType DEF HandsHoldRequests, WorkerSteps

\* The steps of a run.
LEMMA OrchestrateHands ==
  ASSUME InPlace, Record, HandsHoldRequests, Orchestrate, UNCHANGED <<worker, svars>>
  PROVE  HandsHoldRequests'
  <1> USE DEF Record
  <1>0. /\ UNCHANGED <<scen, worker, user, analyses, store, lock>>
        /\ now \in Nat /\ scen.kills \in Nat
        /\ \A t \in Threads : at[t].event.ts \in Nat
        /\ \A w \in Jobs : emitted[w] \in Seq(Event)
    <2>1. scen.kills \in Nat
      BY ScenariosAssumption DEF InPlace, ScenarioType
    <2>2. \A e \in Event : e.ts \in Nat
      BY DEF Event
    <2> QED
      BY <2>1, <2>2, OrchestrateFrame DEF svars, RecordTypes
  <1>1. main' \in MainStates
    BY DEF HandsHoldRequests, Orchestrate, AppendLine, PostSkipped, Post, Note, EndPrevious, OpenStage, Checkpoint,
       Fail, CloseFailed, CloseLast, Exit, Crash, Cancel, Relaunch, GiveUp, Die, MainStep, MainStates
  <1>2. paused' \in BOOLEAN
    BY Zenon DEF HandsHoldRequests, Orchestrate, AppendLine, PostSkipped, Post, Note, EndPrevious, OpenStage, Checkpoint,
       Fail, CloseFailed, CloseLast, Exit, Crash, Cancel, Relaunch, GiveUp, Die, logvars
  <1>3. notes' \in Nat
    <2>1. notes' = notes \/ notes' = notes + 1
      BY Zenon DEF Orchestrate, AppendLine, PostSkipped, Post, Note, EndPrevious, OpenStage, Checkpoint,
         Fail, CloseFailed, CloseLast, Exit, Crash, Cancel, Relaunch, GiveUp, Die, logvars
    <2> QED
      BY <2>1 DEF HandsHoldRequests
  <1>4. kills' \in 0..scen.kills
    <2>1. kills' = kills \/ (kills < scen.kills /\ kills' = kills + 1)
      BY Zenon DEF Orchestrate, AppendLine, PostSkipped, Post, Note, EndPrevious, OpenStage, Checkpoint,
         Fail, CloseFailed, CloseLast, Exit, Crash, Cancel, Relaunch, GiveUp, Die, logvars
    <2> QED
      BY <1>0, <2>1 DEF HandsHoldRequests
  <1>5. ClockAhead'
    <2>1. ASSUME now' \in Nat, now' >= now, UNCHANGED emitted
          PROVE  \A w \in Jobs : \A i \in DOMAIN emitted'[w] : emitted'[w][i].ts <= now'
      <3> SUFFICES ASSUME NEW w \in Jobs, NEW i \in DOMAIN emitted[w] PROVE emitted[w][i].ts <= now'
        BY <2>1
      <3>1. emitted[w][i].ts \in Nat /\ emitted[w][i].ts <= now
        BY <1>0, Times DEF HandsHoldRequests, ClockAhead
      <3> QED
        BY <1>0, <2>1, <3>1
    <2>2. ASSUME NEW t \in Threads, NEW kind, NEW label, NEW times \in {SoonOrLater, Later},
                 Create(t, kind, label, times), UNCHANGED emitted
          PROVE  ClockAhead'
      <3>1. PICK ts \in times :
              /\ now' = ts
              /\ at' = [at EXCEPT ![t] = [step |-> "append", event |-> [ts |-> ts, kind |-> kind, stage |-> label]]]
        BY <2>2 DEF Create
      <3>2. ts \in {now, now + 1}
        BY Zenon DEF SoonOrLater, Later
      <3>3. now' \in Nat /\ now' >= now
        BY <1>0, <3>1, <3>2
      <3>4. \A u \in Threads : at'[u].event.ts = now' \/ at'[u] = at[u]
        BY <3>1 DEF RecordTypes
      <3> QED
        BY <1>0, <2>1, <2>2, <3>3, <3>4 DEF HandsHoldRequests, ClockAhead
    <2>3. ASSUME UNCHANGED <<at, now, emitted>> PROVE ClockAhead'
      BY <2>3 DEF HandsHoldRequests, ClockAhead
    <2>4. CASE Creating
      <3>1. UNCHANGED emitted
        BY <2>4 DEF Creating, EndPrevious, OpenStage, Fail, CloseFailed, CloseLast, Note
      <3>2. Main \in Threads /\ Helper \subseteq Threads
        BY MainIsThread
      <3>3. ASSUME NEW t \in Helper, Note(t) PROVE ClockAhead'
        BY <2>2, <3>1, <3>2, <3>3 DEF Note
      <3>4. CASE EndPrevious \/ OpenStage \/ Fail
        BY <2>2, <3>1, <3>2, <3>4 DEF EndPrevious, OpenStage, Fail
      <3>5. CASE CloseFailed \/ CloseLast
        BY <2>2, <2>3, <3>1, <3>2, <3>5 DEF CloseFailed, CloseLast
      <3> QED
        BY <2>4, <3>3, <3>4, <3>5 DEF Creating
    <2>5. CASE Checkpoint \/ Relaunch
      <3>1. now' = now + 1 /\ UNCHANGED <<at, emitted>>
        BY <2>5 DEF Checkpoint, Relaunch
      <3> QED
        BY <1>0, <2>1, <3>1 DEF HandsHoldRequests, ClockAhead
    <2>6. CASE Exit \/ GiveUp
      BY <2>3, <2>6 DEF Exit, GiveUp, logvars
    <2>7. CASE Crash \/ Cancel
      <3>1. UNCHANGED <<now, emitted>> /\ at' = [t \in Threads |-> NotEmitting]
        BY <2>7 DEF Crash, Cancel, Die
      <3>2. \A t \in Threads : at'[t].event.ts = 0
        BY <3>1 DEF NotEmitting, NoEvent
      <3> QED
        BY <1>0, <2>1, <3>1, <3>2 DEF ClockAhead
    <2>8. ASSUME NEW t \in Threads, PostSkipped(t) \/ Post(t) PROVE ClockAhead'
      <3>1. UNCHANGED <<now, emitted>> /\ at' = [at EXCEPT ![t] = NotEmitting]
        BY <2>8 DEF PostSkipped, Post
      <3>2. \A u \in Threads : at'[u].event.ts = 0 \/ at'[u] = at[u]
        BY <3>1 DEF NotEmitting, NoEvent, RecordTypes
      <3> QED
        BY <1>0, <2>1, <3>1, <3>2 DEF HandsHoldRequests, ClockAhead
    <2>9. ASSUME NEW t \in Threads, AppendLine(t) PROVE ClockAhead'
      <3>1. now' = now /\ \A u \in Threads : at'[u].event = at[u].event
        BY <2>9 DEF AppendLine, RecordTypes
      <3>2. Ws \in Jobs
        BY WsType
      <3>3. /\ \A w \in Jobs : w # Ws => emitted'[w] = emitted[w]
            /\ emitted'[Ws] = Append(emitted[Ws], at[t].event)
        BY <2>9, <3>2 DEF AppendLine, RecordTypes
      <3>4. \A i \in DOMAIN emitted'[Ws] : emitted'[Ws][i] = at[t].event
                                           \/ (i \in DOMAIN emitted[Ws] /\ emitted'[Ws][i] = emitted[Ws][i])
        BY <1>0, <3>2, <3>3
      <3> QED
        BY <3>1, <3>2, <3>3, <3>4 DEF HandsHoldRequests, ClockAhead
    <2> QED
      BY <2>4, <2>5, <2>6, <2>7, <2>8, <2>9 DEF Orchestrate, Creating
  <1> QED
    BY <1>0, <1>1, <1>2, <1>3, <1>4, <1>5 DEF HandsHoldRequests

\* The worker turns to the next job, or stops.
LEMMA TurnHands ==
  ASSUME Record, InPlace, ClockAhead, ToNextJob \/ (main' = "dropped" /\ UNCHANGED <<logvars, job, kills>>),
         paused \in BOOLEAN, notes \in Nat, kills \in 0..scen.kills
  PROVE  /\ main' \in MainStates /\ paused' \in BOOLEAN /\ notes' \in Nat /\ kills' \in 0..scen'.kills
         /\ ClockAhead'
  <1>1. scen.kills \in Nat
    BY ScenariosAssumption DEF InPlace, ScenarioType
  <1>2. UNCHANGED <<scen, at, now, emitted, paused>>
    BY DEF ToNextJob, logvars
  <1>3. main' \in {"next", "dropped"}
    BY DEF ToNextJob
  <1>4. (notes' = 0 /\ kills' = 0) \/ (notes' = notes /\ kills' = kills)
    BY DEF ToNextJob, logvars
  <1>5. main' \in MainStates
    BY <1>3 DEF MainStates
  <1>6. ClockAhead'
    BY <1>2 DEF ClockAhead
  <1>7. notes' \in Nat /\ kills' \in 0..scen'.kills
    BY <1>1, <1>2, <1>4
  <1> QED
    BY <1>2, <1>5, <1>6, <1>7

\* What the analyst raises is requests.
LEMMA AnalysedType ==
  ASSUME HandTypes, InPlace, Record, Analyse
  PROVE  worker'.incoming \in [Slug -> Request]
  <1>1. \A i \in DOMAIN AllEvents(job) : AllEvents(job)[i] \in Event
    <2>1. served[job] \in Seq(Event) /\ file[scen.ws[job]] \in Seq(Event)
      BY WsType DEF Record, RecordTypes, Ws
    <2>2. AllEvents(job) \in Seq(Event)
      BY <2>1, MergeInOrder DEF AllEvents
    <2> QED
      BY <2>2
  <1>2. PICK S \in SUBSET scen.raise, priority \in Priorities,
             cites \in [Slug -> {AllEvents(job)[i] : i \in DOMAIN AllEvents(job)} \cup {Invented}] :
             worker' = [worker EXCEPT !.step = "write",
               !.incoming = [s \in Slug |->
                  LET evidence == Valid(AllEvents(job), {cites[s]})
                  IN  IF s \in S /\ evidence # {}
                      THEN [jobs |-> {job}, evidence |-> evidence,
                            priority |-> priority, status |-> "open"]
                      ELSE NoRequest]]
    BY DEF Analyse
  <1>3. PICK raised : raised = [s \in Slug |->
                  LET evidence == Valid(AllEvents(job), {cites[s]})
                  IN  IF s \in S /\ evidence # {}
                      THEN [jobs |-> {job}, evidence |-> evidence,
                            priority |-> priority, status |-> "open"]
                      ELSE NoRequest]
    OBVIOUS
  <1>4. worker'.incoming = raised
    BY <1>2, <1>3 DEF HandTypes
  <1>5. ASSUME NEW s \in Slug PROVE raised[s] \in Request
    <2>1. Valid(AllEvents(job), {cites[s]}) \subseteq Event
      BY <1>1 DEF Valid
    <2>2. [jobs |-> {job}, evidence |-> Valid(AllEvents(job), {cites[s]}), priority |-> priority, status |-> "open"] \in Request
      BY <2>1 DEF Request, Statuses, InPlace
    <2>3. raised[s] = IF s \in S /\ Valid(AllEvents(job), {cites[s]}) # {}
                      THEN [jobs |-> {job}, evidence |-> Valid(AllEvents(job), {cites[s]}),
                            priority |-> priority, status |-> "open"]
                      ELSE NoRequest
      BY <1>3
    <2> QED
      BY <2>2, <2>3, NoRequestType
  <1> QED
    BY <1>3, <1>4, <1>5

LEMMA AnalysisHands ==
  ASSUME HandTypes, Holding, InPlace, Record, HandsHoldRequests, Analysis
  PROVE  HandsHoldRequests'
  <1> USE DEF HandsHoldRequests
  <1>0. UNCHANGED user
    BY WorkerHand
  <1>1. ASSUME UNCHANGED evars
        PROVE  /\ main' \in MainStates /\ paused' \in BOOLEAN /\ notes' \in Nat /\ kills' \in 0..scen'.kills
               /\ ClockAhead'
    BY <1>1 DEF evars, logvars, ClockAhead
  <1>2. Worker \in Clients
    BY DEF Clients
  <1>3. CASE StartAnalysis
    <2>1. UNCHANGED <<evars, svars>> /\ worker'.step = "analyse"
          /\ worker'.incoming = worker.incoming /\ worker'.copy = worker.copy
      BY <1>3 DEF StartAnalysis, HandTypes
    <2> QED
      BY <1>0, <1>1, <2>1 DEF svars, WorkerSteps
  <1>4. CASE Analyse
    <2>1. UNCHANGED <<evars, svars>> /\ worker'.step = "write" /\ worker'.copy = worker.copy
      BY <1>4 DEF Analyse, HandTypes
    <2>2. worker'.incoming \in [Slug -> Request]
      BY <1>4, AnalysedType
    <2> QED
      BY <1>0, <1>1, <2>1, <2>2 DEF svars, WorkerSteps
  <1>5. CASE SkipAnalysis
    <2>1. worker' = Rest /\ ToNextJob /\ UNCHANGED <<analyses, store>>
          /\ lock' = IF lock = Worker THEN Nobody ELSE lock
      BY <1>5 DEF SkipAnalysis
    <2>2. lock' \in Clients \cup {Nobody}
      BY <2>1
    <2>3. worker'.step \in WorkerSteps /\ worker'.incoming = Empty /\ worker'.copy = Empty
      BY <2>1 DEF Rest, WorkerSteps
    <2>4. /\ main' \in MainStates /\ paused' \in BOOLEAN /\ notes' \in Nat /\ kills' \in 0..scen'.kills
          /\ ClockAhead'
      BY <2>1, TurnHands
    <2> QED
      BY <1>0, <2>1, <2>2, <2>3, <2>4, NoRequestType
  <1>6. CASE WriteAnalysis
    <2>1. /\ UNCHANGED <<evars, store, lock>> /\ worker'.step = "lock"
          /\ worker'.incoming = worker.incoming /\ worker'.copy = worker.copy
      BY <1>6 DEF WriteAnalysis, HandTypes
    <2>2. PICK o : o = Outcome(AllEvents(job))
      OBVIOUS
    <2>3. o \in {"succeeded", "failed"}
      BY <2>2, Zenon DEF Outcome
    <2>4. analyses' = [analyses EXCEPT ![job] = o]
      BY <1>6, <2>2 DEF WriteAnalysis
    <2> QED
      BY <1>0, <1>1, <2>1, <2>3, <2>4 DEF WorkerSteps
  <1>7. CASE TakeLock
    <2>1. /\ UNCHANGED <<evars, store, analyses>> /\ worker'.step = "load" /\ lock' = Worker
          /\ worker'.incoming = worker.incoming /\ worker'.copy = worker.copy
      BY <1>7 DEF TakeLock, HandTypes
    <2> QED
      BY <1>0, <1>1, <1>2, <2>1 DEF WorkerSteps
  <1>8. CASE Load
    <2>1. /\ UNCHANGED <<evars, svars>> /\ worker'.step = "save"
          /\ worker'.incoming = worker.incoming /\ worker'.copy = store
      BY <1>8 DEF Load, HandTypes
    <2> QED
      BY <1>0, <1>1, <2>1 DEF svars, WorkerSteps
  <1>9. CASE Save
    <2>1. /\ store' = Merged(worker.copy, worker.incoming) /\ lock' = Nobody /\ UNCHANGED analyses
          /\ ToNextJob \/ (main' = "dropped" /\ UNCHANGED <<logvars, job, kills>>)
      BY <1>9 DEF Save
    <2>2. worker'.step = "run" /\ worker'.incoming = worker.incoming /\ worker'.copy = Empty
      BY <1>9 DEF Save, HandTypes
    <2>3. store' \in [Slug -> Request]
      BY <2>1, MergedType
    <2>4. /\ main' \in MainStates /\ paused' \in BOOLEAN /\ notes' \in Nat /\ kills' \in 0..scen'.kills
          /\ ClockAhead'
      BY <2>1, TurnHands
    <2> QED
      BY <1>0, <2>1, <2>2, <2>3, <2>4, NoRequestType DEF WorkerSteps
  <1> QED
    BY <1>3, <1>4, <1>5, <1>6, <1>7, <1>8, <1>9 DEF Analysis

LEMMA UserHands ==
  ASSUME HandTypes, HandsHoldRequests, NEW u \in User, UserStep(u)
  PROVE  HandsHoldRequests'
  <1> USE DEF HandsHoldRequests
  <1>1. UNCHANGED <<evars, worker, analyses>>
    BY UserHand
  <1>2. /\ main' \in MainStates /\ paused' \in BOOLEAN /\ notes' \in Nat /\ kills' \in 0..scen'.kills
        /\ ClockAhead'
    BY <1>1 DEF evars, logvars, ClockAhead
  <1>3. u \in Clients
    BY DEF Clients
  <1>4. /\ user = [v \in User |-> user[v]]
        /\ user[u] = [step |-> user[u].step, slug |-> user[u].slug, status |-> user[u].status, copy |-> user[u].copy]
    BY DEF HandTypes
  <1>5. CASE Ask(u)
    <2>1. UNCHANGED <<store, lock>>
      BY <1>5 DEF Ask
    <2>2. PICK s \in Slug, status \in Statuses :
            user' = [user EXCEPT ![u] = [@ EXCEPT !.step = "lock", !.slug = s, !.status = status]]
      BY <1>5 DEF Ask
    <2>3. user'[u].copy = user[u].copy /\ user'[u].status = status /\ \A v \in User \ {u} : user'[v] = user[v]
      BY <1>4, <2>2
    <2> QED
      BY <1>1, <1>2, <2>1, <2>3
  <1>6. CASE UserLoads(u)
    <2>1. store' = store /\ lock' \in {lock, u}
      BY <1>6 DEF UserLoads
    <2>2. user'[u].copy \in {user[u].copy, store} /\ user'[u].status = user[u].status
          /\ \A v \in User \ {u} : user'[v] = user[v]
      BY <1>4, <1>6 DEF UserLoads
    <2> QED
      BY <1>1, <1>2, <1>3, <2>1, <2>2
  <1>7. CASE UserSaves(u) \/ UserDies(u)
    <2>1. user'[u].copy = Empty /\ user'[u].status = user[u].status /\ \A v \in User \ {u} : user'[v] = user[v]
      BY <1>4, <1>7 DEF UserSaves, UserDies
    <2>2. lock' = Nobody
      BY <1>7 DEF UserSaves, UserDies
    <2>3. store' = store \/ store' = Decided(user[u].copy, user[u].slug, user[u].status)
      BY <1>7 DEF UserSaves, UserDies
    <2>4. store' \in [Slug -> Request]
      BY <2>3, DecidedType
    <2> QED
      BY <1>1, <1>2, <2>1, <2>2, <2>4, NoRequestType
  <1> QED
    BY <1>5, <1>6, <1>7 DEF UserStep

LEMMA HandsNext == HandTypes /\ Holding /\ InPlace /\ Record /\ HandsHoldRequests /\ [Next]_vars => HandsHoldRequests'
  <1> SUFFICES ASSUME HandTypes, Holding, InPlace, Record, HandsHoldRequests, [Next]_vars PROVE HandsHoldRequests'
    OBVIOUS
  <1>1. CASE UNCHANGED vars
    BY <1>1 DEF HandsHoldRequests, ClockAhead, vars, svars, evars, logvars
  <1>2. CASE Orchestrate /\ UNCHANGED <<worker, svars>>
    BY <1>2, OrchestrateHands
  <1>3. CASE Analysis
    BY <1>3, AnalysisHands
  <1>4. ASSUME NEW u \in User, UserStep(u) PROVE HandsHoldRequests'
    BY <1>4, UserHands
  <1> QED
    BY <1>1, <1>2, <1>3, <1>4, Zenon DEF Next, UserStep

\* Every variable has its type and the clock is not behind an event: the worker and the users have
\* lists of requests in hand, of which merging and deciding make lists of requests.
THEOREM FeatureTypeCorrect == Spec => []TypeOK
  <1> DEFINE Inv == HandTypes /\ Holding /\ InPlace /\ Record /\ HandsHoldRequests
  <1>1. Init => Inv
    BY HandInit, PlaceInit, RecordInit, HandsInit
  <1>2. Inv /\ [Next]_vars => Inv'
    BY HoldingNext, PlaceNext, RecordNext, HandsNext
  <1>3. Inv => TypeOK
    <2> SUFFICES ASSUME Inv PROVE TypeOK
      OBVIOUS
    <2>1. worker \in [step : WorkerSteps, incoming : [Slug -> Request \cup {NoRequest}],
                      copy : [Slug -> Request \cup {NoRequest}]]
      <3>1. worker.incoming \in [Slug -> Request \cup {NoRequest}] /\ worker.copy \in [Slug -> Request \cup {NoRequest}]
        BY DEF HandsHoldRequests
      <3> QED
        BY <3>1 DEF HandsHoldRequests, HandTypes
    <2>2. \A w \in Jobs : \A i \in DOMAIN emitted[w] : emitted[w][i].ts <= now
      BY DEF HandsHoldRequests, ClockAhead
    <2> QED
      BY <2>1, <2>2 DEF TypeOK, HandsHoldRequests, InPlace, Record, RecordTypes
  <1> QED
    BY <1>1, <1>2, <1>3, PTL DEF Spec
=============================================================================
