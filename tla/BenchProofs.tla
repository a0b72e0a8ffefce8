----------------------------- MODULE BenchProofs -----------------------------
(***************************************************************************)
(* What module Bench promises, for every number of repeats, every budget   *)
(* and every set of tasks and crates.                                      *)
(***************************************************************************)
EXTENDS Bench, TLAPS

-----------------------------------------------------------------------------
(* Acceptance: what a verdict says of a crate. *)

Reasons == {"setup", "build", "binary", "cargo_tests", "timeout", "no-crate"}

LEMMA ChecksFindOut ==
  ASSUME NEW task \in Task, LoadOne(task), NEW crate \in Crate
  PROVE  /\ RunChecks(task, crate) # {}
         /\ FailedOf(RunChecks(task, crate)) = {} <=> Accepts(task, crate)
  <1> DEFINE bin == RunBinary(task, crate)
             tests == IF task.cargoTests THEN RunCargoTests(crate) ELSE {}
  <1>1. task.cargoTests \in BOOLEAN /\ crate.builds \in BOOLEAN /\ crate.testsRun \in BOOLEAN
        /\ crate.binary \in BOOLEAN
    BY DEF Task, Crate
  <1>2. (\A o \in bin : o.passed) <=>
          \A check \in task.checks :
            /\ crate.binary
            /\ crate.program[check.name].starts /\ crate.program[check.name].ends
            /\ \A e \in check.expects : e \in crate.program[check.name].meets
    <2>1. CASE task.checks = {}
      BY <2>1 DEF RunBinary
    <2>2. CASE task.checks # {} /\ crate.binary
      <3>1. bin = {RunOneCheck(crate, check) : check \in task.checks}
        BY <2>2 DEF RunBinary
      <3>2. \A check \in task.checks : RunOneCheck(crate, check).passed <=>
              /\ crate.program[check.name].starts /\ crate.program[check.name].ends
              /\ \A e \in check.expects : e \in crate.program[check.name].meets
        BY DEF RunOneCheck
      <3> QED
        BY Zenon, <2>2, <3>1, <3>2
    <2>3. CASE task.checks # {} /\ ~crate.binary
      BY <2>3 DEF RunBinary, Fail
    <2> QED
      BY <1>1, <2>1, <2>2, <2>3
  <1>3. (\A o \in tests : o.passed) <=> (task.cargoTests => crate.testsRun /\ crate.failing = {})
    <2>1. CASE ~task.cargoTests
      BY <2>1
    <2>2. CASE task.cargoTests /\ crate.testsRun /\ crate.failing = {}
      BY <2>2 DEF RunCargoTests, Passed
    <2>3. CASE task.cargoTests /\ crate.testsRun /\ crate.failing # {}
      <3>1. PICK test \in crate.failing : TRUE
        BY <2>3
      <3>2. Fail(test) \in tests /\ ~Fail(test).passed
        BY <2>3, <3>1 DEF RunCargoTests, Fail
      <3> QED
        BY <2>3, <3>2
    <2>4. CASE task.cargoTests /\ ~crate.testsRun
      BY <2>4 DEF RunCargoTests, Fail
    <2> QED
      BY <1>1, <2>1, <2>2, <2>3, <2>4
  <1>4. FailedOf(RunChecks(task, crate)) = {} <=> \A o \in RunChecks(task, crate) : o.passed
    BY DEF FailedOf
  <1>5. bin \cup tests # {}
    <2>1. CASE task.cargoTests
      BY <2>1 DEF RunCargoTests
    <2>2. CASE task.checks # {}
      BY <2>2 DEF RunBinary
    <2> QED
      BY <2>1, <2>2 DEF LoadOne
  <1>6. CASE crate.builds
    BY <1>2, <1>3, <1>4, <1>5, <1>6 DEF RunChecks, Accepts
  <1>7. CASE ~crate.builds
    BY <1>4, <1>7 DEF RunChecks, Accepts, Fail
  <1> QED
    BY <1>1, <1>6, <1>7

LEMMA NamesOfFailures ==
  ASSUME NEW task \in Task, NEW crate \in Crate
  PROVE  FailedOf(RunChecks(task, crate)) \subseteq Checks \cup Tests \cup Reasons
  <1>1. \A o \in RunBinary(task, crate) : o.name \in Checks \cup Reasons
    <2>1. \A check \in task.checks : RunOneCheck(crate, check).name \in Checks
      BY DEF RunOneCheck, Task
    <2> QED
      BY <2>1 DEF RunBinary, Fail, Reasons
  <1>2. \A o \in RunCargoTests(crate) : o.name \in Tests \cup Reasons
    BY DEF RunCargoTests, Passed, Fail, Crate, Reasons
  <1>3. \A o \in RunChecks(task, crate) : o.name \in Checks \cup Tests \cup Reasons
    BY <1>1, <1>2 DEF RunChecks, Fail, Reasons
  <1> QED
    BY <1>3 DEF FailedOf

-----------------------------------------------------------------------------
(* Types. *)

LEMMA NextCases ==
  ASSUME [Next]_vars
  PROVE  \/ SetUp \/ SetUpFails \/ RunDirect \/ Submit
         \/ SeeEnded \/ SeeRunning \/ SeeWaiting \/ StatusFails
         \/ CancelJob \/ SeeStopped \/ SeeNotStopped \/ StopWaiting
         \/ Collect \/ Check \/ Clear
         \/ (Queue \/ UNCHANGED vars) /\ UNCHANGED <<mode, runner>>
  <1>1. ASSUME NEW r \in Run,
               \/ UserCancels(r) \/ Pick(r) \/ Claim(r) \/ Spawn(r)
               \/ SavePid(r) \/ LaunchFails(r) \/ Exit(r) \/ Finish(r)
        PROVE  UNCHANGED <<mode, runner>>
    BY <1>1 DEF UserCancels, Pick, Claim, Spawn, SavePid, LaunchFails, Exit, Finish
  <1>2. WorkerDies \/ WorkerStarts \/ UNCHANGED vars => UNCHANGED <<mode, runner>>
    BY DEF WorkerDies, WorkerStarts, vars
  <1> QED
    BY Zenon, <1>1, <1>2 DEF Next, Runner, Queue

RunnerTypes ==
  /\ mode \in {"direct", "queue"}
  /\ run \in 1..(Repeats + 1) /\ (pc # "done" => run \in 1..Repeats)
  /\ elapsed \in 0..Budget /\ seen \in BOOLEAN
  /\ pc \in {"setup", "submit", "direct", "watch", "cancel", "await", "collect", "check", "clear", "done"}
  /\ errors \in 0..StatusErrors /\ waits \in 0..AwaitPolls
  /\ outcome \in Terminal \cup {"none", "timeout"} /\ timedOut \in BOOLEAN

QueueTypes ==
  /\ dir \subseteq Run /\ job \in [Run -> JobState] /\ cancel \subseteq Run
  /\ worker \in BOOLEAN /\ launching \subseteq Run /\ unsaved \subseteq Run
  /\ orch \subseteq Run /\ strays \subseteq Run /\ crates \subseteq Run
  /\ unwatched \subseteq Run /\ raced \subseteq Run

RecordType == record \in [Run -> [outcome : Terminal \cup {"none", "timeout"}, passed : BOOLEAN]]
VerdictType ==
  verdict \in [passed : BOOLEAN, failed : SUBSET (Checks \cup Tests \cup Reasons), accepted : BOOLEAN]

LEMMA RunnerTypesNext == RunnerTypes /\ QueueTypes /\ [Next]_vars => RunnerTypes'
  <1> SUFFICES ASSUME RunnerTypes, QueueTypes, [Next]_vars PROVE RunnerTypes'
    OBVIOUS
  <1>0. /\ 0 \in 0..Budget /\ 0 \in 0..StatusErrors /\ 0 \in 0..AwaitPolls
        /\ run \in 1..(Repeats + 1) /\ (pc # "done" => run \in 1..Repeats)
        /\ elapsed \in 0..Budget /\ errors \in 0..StatusErrors /\ waits \in 0..AwaitPolls
    BY BenchAssumption DEF RunnerTypes
  <1> USE DEF RunnerTypes, Locals
  <1>1. CASE SetUp
    BY <1>0, <1>1, BenchAssumption DEF SetUp
  <1>2. CASE SetUpFails
    BY <1>0, <1>2, BenchAssumption DEF SetUpFails
  <1>3. CASE RunDirect
    BY <1>0, <1>3 DEF RunDirect, Ended, Forget, Terminal
  <1>4. CASE Submit
    BY <1>0, <1>4, BenchAssumption DEF Submit, NotChecked, Terminal
  <1>5. CASE SeeEnded
    BY <1>0, <1>5 DEF SeeEnded, Ended, Forget
  <1>6. CASE SeeRunning
    BY <1>0, <1>6, BenchAssumption DEF SeeRunning, Sleep
  <1>7. CASE SeeWaiting
    BY <1>0, <1>7, BenchAssumption DEF SeeWaiting, Sleep
  <1>8. CASE StatusFails
    <2>1. /\ UNCHANGED <<mode, run, timedOut>> /\ pc' \in {"watch", "cancel", "collect"} /\ pc = "watch"
          /\ outcome' = outcome \/ outcome' = "failed"
          /\ seen' = seen \/ seen' = FALSE
          /\ waits' = waits \/ waits' = 0
      BY <1>8 DEF StatusFails, Ended, Forget, Sleep
    <2>2. errors' \in 0..StatusErrors /\ elapsed' \in 0..Budget
      BY <1>0, <1>8, BenchAssumption DEF StatusFails, Ended, Forget, Sleep
    <2> QED
      BY <1>0, <2>1, <2>2 DEF Terminal
  <1>9. CASE CancelJob
    BY <1>0, <1>9, BenchAssumption DEF CancelJob
  <1>10. CASE SeeStopped
    BY <1>0, <1>10 DEF SeeStopped, Ended, Forget
  <1>11. CASE SeeNotStopped
    BY <1>0, <1>11, BenchAssumption DEF SeeNotStopped
  <1>12. CASE StopWaiting
    BY <1>0, <1>12 DEF StopWaiting, Ended, Forget
  <1>13. CASE Collect
    BY <1>0, <1>13, BenchAssumption DEF Collect, NotChecked
  <1>14. CASE Check
    BY <1>0, <1>14, BenchAssumption DEF Check
  <1>15. CASE Clear
    <2>1. run' \in 1..(Repeats + 1) /\ (pc' # "done" => run' \in 1..Repeats)
      BY <1>0, <1>15, BenchAssumption DEF Clear
    <2> QED
      BY <1>0, <1>15, <2>1 DEF Clear
  <1>16. CASE UNCHANGED <<mode, runner>>
    BY <1>0, <1>16, BenchAssumption DEF runner
  <1> QED
    BY Zenon, <1>1, <1>2, <1>3, <1>4, <1>5, <1>6, <1>7, <1>8, <1>9, <1>10, <1>11, <1>12, <1>13,
       <1>14, <1>15, <1>16, NextCases

LEMMA QueueTypesNext == RunnerTypes /\ QueueTypes /\ [Next]_vars => QueueTypes'
  <1> SUFFICES ASSUME RunnerTypes, QueueTypes, [Next]_vars PROVE QueueTypes'
    OBVIOUS
  <1>0. pc # "done" => run \in Run
    BY DEF RunnerTypes, Run
  <1> USE DEF QueueTypes, queue, started, history
  <1>1. CASE Runner
    <2>1. CASE SetUp
      BY <1>0, <2>1 DEF SetUp
    <2>2. CASE Submit
      BY <1>0, <2>2 DEF Submit, JobState
    <2>3. CASE SetUpFails \/ SeeEnded \/ SeeRunning \/ SeeWaiting \/ SeeStopped \/ SeeNotStopped
               \/ Collect \/ Check
      BY <2>3 DEF SetUpFails, SeeEnded, SeeRunning, SeeWaiting, SeeStopped, SeeNotStopped, Collect, Check
    <2>4. CASE RunDirect
      BY <1>0, <2>4 DEF RunDirect
    <2>5. CASE StatusFails \/ StopWaiting
      BY <1>0, <2>5 DEF StatusFails, StopWaiting
    <2>6. CASE CancelJob
      BY <1>0, <2>6 DEF CancelJob, RequestCancel
    <2>7. CASE Clear
      BY <2>7 DEF Clear
    <2> QED
      BY Zenon, <1>1, <2>1, <2>2, <2>3, <2>4, <2>5, <2>6, <2>7 DEF Runner
  <1>2. ASSUME NEW r \in Run,
               \/ UserCancels(r) \/ Pick(r) \/ Claim(r) \/ Spawn(r)
               \/ SavePid(r) \/ LaunchFails(r) \/ Exit(r) \/ Finish(r)
        PROVE  QueueTypes'
    <2> USE DEF runner
    <2>1. CASE UserCancels(r)
      BY <2>1 DEF UserCancels, RequestCancel
    <2>2. CASE Pick(r)
      BY <2>2 DEF Pick
    <2>3. CASE Claim(r)
      BY <2>3 DEF Claim, JobState
    <2>4. CASE Spawn(r)
      BY <2>4 DEF Spawn
    <2>5. CASE Exit(r)
      BY <2>5 DEF Exit
    <2>6. CASE Finish(r)
      BY <2>6 DEF Finish, JobState, Terminal
    <2>7. CASE SavePid(r)
      BY <2>7 DEF SavePid
    <2>8. CASE LaunchFails(r)
      BY <2>8 DEF LaunchFails, JobState, Terminal
    <2> QED
      BY <1>2, <2>1, <2>2, <2>3, <2>4, <2>5, <2>6, <2>7, <2>8
  <1>3. CASE WorkerDies
    BY <1>3 DEF WorkerDies, runner
  <1>4. CASE WorkerStarts
    BY <1>4 DEF WorkerStarts, runner, JobState, Terminal
  <1>5. CASE UNCHANGED vars
    BY <1>5 DEF vars, runner
  <1> QED
    BY Zenon, <1>1, <1>2, <1>3, <1>4, <1>5 DEF Next, Queue

LEMMA VerdictTypeNext == VerdictType /\ [Next]_vars => VerdictType'
  <1> SUFFICES ASSUME VerdictType, [Next]_vars PROVE VerdictType'
    OBVIOUS
  <1>1. UNCHANGED verdict \/ verdict' = NoVerdict
        \/ \E reason \in Reasons : verdict' = [verdict EXCEPT !.failed = {reason}]
        \/ Check
    BY NextCases DEF SetUp, SetUpFails, RunDirect, Submit, SeeEnded, SeeRunning, SeeWaiting, StatusFails,
       CancelJob, SeeStopped, SeeNotStopped, StopWaiting, Collect, Clear, NotChecked, runner, records, Reasons
  <1>2. CASE \E reason \in Reasons : verdict' = [verdict EXCEPT !.failed = {reason}]
    BY <1>2 DEF VerdictType
  <1>3. CASE Check
    <2>1. PICK task \in Task, crate \in Crate :
             \E outcomes \in {RunChecks(task, crate), NoCopy} :
               verdict' = [passed |-> outcomes # {} /\ FailedOf(outcomes) = {},
                           failed |-> FailedOf(outcomes), accepted |-> Accepts(task, crate)]
      BY Zenon, <1>3, BenchAssumption DEF Check
    <2>2. PICK outcomes \in {RunChecks(task, crate), NoCopy} :
             verdict' = [passed |-> outcomes # {} /\ FailedOf(outcomes) = {},
                         failed |-> FailedOf(outcomes), accepted |-> Accepts(task, crate)]
      BY Zenon, <2>1
    <2> DEFINE p == outcomes # {} /\ FailedOf(outcomes) = {}
               f == FailedOf(outcomes)
               a == Accepts(task, crate)
    <2>3. f \in SUBSET (Checks \cup Tests \cup Reasons)
      <3>1. FailedOf(NoCopy) \subseteq Reasons
        BY DEF FailedOf, NoCopy, Fail, Reasons
      <3> QED
        BY <3>1, NamesOfFailures
    <2>4. p \in BOOLEAN /\ a \in BOOLEAN
      BY DEF Accepts
    <2>5. verdict' = [passed |-> p, failed |-> f, accepted |-> a]
      BY Zenon, <2>2
    <2> QED
      <3> HIDE DEF p, f, a
      <3> QED
        BY <2>3, <2>4, <2>5 DEF VerdictType
  <1>4. CASE UNCHANGED verdict \/ verdict' = NoVerdict
    <2>1. NoVerdict \in [passed : BOOLEAN, failed : SUBSET (Checks \cup Tests \cup Reasons), accepted : BOOLEAN]
      BY Zenon DEF NoVerdict
    <2> QED
      BY Zenon, <1>4, <2>1 DEF VerdictType
  <1> QED
    BY <1>1, <1>2, <1>3, <1>4

LEMMA RecordTypeNext == RunnerTypes /\ VerdictType /\ RecordType /\ [Next]_vars => RecordType'
  <1> SUFFICES ASSUME RunnerTypes, VerdictType, RecordType, [Next]_vars PROVE RecordType'
    OBVIOUS
  <1> USE DEF RecordType
  <1>1. UNCHANGED record \/ SetUpFails \/ Clear
    BY NextCases DEF SetUp, RunDirect, Submit, SeeEnded, SeeRunning, SeeWaiting, StatusFails,
       CancelJob, SeeStopped, SeeNotStopped, StopWaiting, Collect, Check, runner, records
  <1>2. CASE SetUpFails
    <2>1. record' = [record EXCEPT ![run].outcome = "failed"] /\ run \in Run
      BY <1>2 DEF SetUpFails, RunnerTypes, Run
    <2> QED
      BY <2>1 DEF Terminal
  <1>3. CASE Clear
    <2>1. /\ record' = [record EXCEPT ![run] = [outcome |-> outcome, passed |-> verdict.passed]]
          /\ outcome \in Terminal \cup {"none", "timeout"}
          /\ verdict.passed \in BOOLEAN
      BY <1>3 DEF Clear, RunnerTypes, VerdictType
    <2>2. [outcome |-> outcome, passed |-> verdict.passed]
            \in [outcome : Terminal \cup {"none", "timeout"}, passed : BOOLEAN]
      BY Zenon, <2>1
    <2> QED
      BY <2>1, <2>2
  <1> QED
    BY <1>1, <1>2, <1>3

Types == RunnerTypes /\ QueueTypes /\ VerdictType /\ RecordType

LEMMA TypesInit == Init => Types
  <1> SUFFICES ASSUME Init PROVE Types
    OBVIOUS
  <1>1. RunnerTypes
    <2>1. run = 1 /\ elapsed = 0 /\ errors = 0 /\ waits = 0 /\ pc \in {"setup", "done"}
          /\ (pc # "done" => Repeats # 0)
      BY DEF Init
    <2>2. /\ 1 \in 1..(Repeats + 1) /\ (Repeats # 0 => 1 \in 1..Repeats)
          /\ 0 \in 0..Budget /\ 0 \in 0..StatusErrors /\ 0 \in 0..AwaitPolls
      BY BenchAssumption
    <2> QED
      BY <2>1, <2>2 DEF Init, RunnerTypes
  <1>2. QueueTypes
    BY DEF Init, QueueTypes, JobState
  <1>3. VerdictType
    BY DEF Init, VerdictType, NoVerdict
  <1>4. RecordType
    BY DEF Init, RecordType, Blank
  <1> QED
    BY <1>1, <1>2, <1>3, <1>4 DEF Types

LEMMA TypesNext == Types /\ [Next]_vars => Types'
  BY RunnerTypesNext, QueueTypesNext, VerdictTypeNext, RecordTypeNext DEF Types

\* runner.rs: the watch, the waits and the budget stay within their bounds.
THEOREM TypeCorrect == Spec => []TypeOK
  <1>1. Types => TypeOK
    BY DEF Types, RunnerTypes, QueueTypes, VerdictType, RecordType, TypeOK, Reasons
  <1> QED
    BY TypesInit, TypesNext, <1>1, PTL DEF Spec

-----------------------------------------------------------------------------
(* The verdict. *)

\* A verdict is made once per run, and says of a crate what ChecksFindOut says.
Judged ==
  /\ pc # "clear" => verdict = NoVerdict
  /\ VerdictIsTheCrates

LEMMA JudgedInit == Init => Judged
  BY DEF Init, Judged, VerdictIsTheCrates

LEMMA JudgedNext == Judged /\ [Next]_vars => Judged'
  <1> SUFFICES ASSUME Judged, [Next]_vars PROVE Judged'
    OBVIOUS
  <1> USE DEF Judged, VerdictIsTheCrates
  <1>1. CASE Check
    <2>1. PICK task \in Task, crate \in Crate :
             LoadOne(task) /\ \E outcomes \in {RunChecks(task, crate), NoCopy} :
               verdict' = [passed |-> outcomes # {} /\ FailedOf(outcomes) = {},
                           failed |-> FailedOf(outcomes), accepted |-> Accepts(task, crate)]
      BY Zenon, <1>1, BenchAssumption DEF Check
    <2>2. PICK outcomes \in {RunChecks(task, crate), NoCopy} :
             verdict' = [passed |-> outcomes # {} /\ FailedOf(outcomes) = {},
                         failed |-> FailedOf(outcomes), accepted |-> Accepts(task, crate)]
      BY Zenon, <2>1
    <2>3. outcomes # {} /\ (FailedOf(outcomes) = {} => Accepts(task, crate))
      <3>1. NoCopy # {} /\ FailedOf(NoCopy) # {}
        <4>1. Fail("setup") \in NoCopy /\ ~Fail("setup").passed
          BY DEF NoCopy, Fail
        <4> QED
          BY Zenon, <4>1 DEF FailedOf
      <3> QED
        BY <2>1, <3>1, ChecksFindOut
    <2>4. /\ verdict'.passed <=> (outcomes # {} /\ FailedOf(outcomes) = {})
          /\ verdict'.failed = FailedOf(outcomes)
          /\ verdict'.accepted <=> Accepts(task, crate)
      BY Zenon, <2>2
    <2>5. (verdict'.passed => verdict'.accepted) /\ (~verdict'.passed <=> verdict'.failed # {})
      BY Zenon, <2>3, <2>4
    <2>6. pc' = "clear"
      BY <1>1 DEF Check
    <2> QED
      BY Zenon, <2>5, <2>6
  <1>2. CASE \E reason \in Reasons : NotChecked(reason) /\ verdict = NoVerdict
    <2>1. PICK reason \in Reasons : NotChecked(reason) /\ verdict = NoVerdict
      BY <1>2
    <2>2. verdict' = [passed |-> FALSE, failed |-> {reason}, accepted |-> FALSE] /\ pc' = "clear"
      BY <2>1 DEF NotChecked, NoVerdict
    <2>3. ~verdict'.passed /\ verdict'.failed = {reason}
      BY <2>2
    <2> QED
      BY Zenon, <2>2, <2>3
  <1>3. CASE SetUpFails \/ Clear
    BY <1>3 DEF SetUpFails, Clear
  <1>4. CASE UNCHANGED verdict /\ (pc' = pc \/ (pc # "clear" /\ pc' # "clear"))
    BY <1>4
  <1>5. \/ Check \/ SetUpFails \/ Clear
        \/ \E reason \in Reasons : NotChecked(reason) /\ verdict = NoVerdict
        \/ UNCHANGED verdict /\ (pc' = pc \/ (pc # "clear" /\ pc' # "clear"))
    <2> USE DEF records
    <2>1. SetUp \/ RunDirect => UNCHANGED verdict /\ pc # "clear" /\ pc' # "clear"
      BY DEF SetUp, RunDirect, Ended
    <2>2. Submit => \/ \E reason \in Reasons : NotChecked(reason) /\ verdict = NoVerdict
                    \/ UNCHANGED verdict /\ pc # "clear" /\ pc' # "clear"
      BY DEF Submit, Reasons
    <2>3. SeeEnded \/ SeeRunning \/ SeeWaiting \/ StatusFails =>
            UNCHANGED verdict /\ pc # "clear" /\ pc' # "clear"
      BY DEF SeeEnded, SeeRunning, SeeWaiting, StatusFails, Ended, Sleep
    <2>4. CancelJob \/ SeeStopped \/ SeeNotStopped \/ StopWaiting =>
            UNCHANGED verdict /\ pc # "clear" /\ pc' # "clear"
      BY DEF CancelJob, SeeStopped, SeeNotStopped, StopWaiting, Ended
    <2>5. Collect => \/ \E reason \in Reasons : NotChecked(reason) /\ verdict = NoVerdict
                     \/ UNCHANGED verdict /\ pc # "clear" /\ pc' # "clear"
      BY DEF Collect, Reasons
    <2>6. UNCHANGED <<mode, runner>> => UNCHANGED verdict /\ pc' = pc
      BY DEF runner
    <2> QED
      BY <2>1, <2>2, <2>3, <2>4, <2>5, <2>6, NextCases
  <1> QED
    BY <1>1, <1>2, <1>3, <1>4, <1>5

\* runner.rs and acceptance.rs, run_one and run_checks: a run passes only with a crate that does
\* all its task asks for, whatever the tasks and the crates are.
THEOREM VerdictIsRight == Spec => []VerdictIsTheCrates
  <1>1. Judged => VerdictIsTheCrates
    BY DEF Judged
  <1> QED
    BY JudgedInit, JudgedNext, <1>1, PTL DEF Spec

-----------------------------------------------------------------------------
(* The runner and the queue. *)

\* run_one is at its end.
Over == {"collect", "check", "clear"}
Behind(r) == r < run \/ (r = run /\ pc \in Over)
Ahead(r) == r > run \/ (r = run /\ pc \in {"setup", "submit"})

\* The job can not be started any more, or the runner can not know.
Stopped(r) ==
  \/ r \in unwatched \cup raced
  \/ job[r] \in Terminal \cup {"none"}
  \/ job[r] = "queued" /\ r \in cancel /\ r \notin launching

\* An outcome the record of a job may have.
Fits(r, o) ==
  mode # "direct" /\ o \in Terminal =>
    \/ o = job[r]
    \/ o = "cancelled" /\ r \in cancel
    \/ o = "failed" /\ (r \in unwatched \/ job[r] = "none")

\* Where the runner is, and what it has.
Places ==
  /\ pc = "direct" => mode = "direct"
  /\ pc \notin {"setup", "done"} => run \in dir
  /\ pc = "done" => run \notin Run
  /\ mode = "direct" => /\ pc \notin {"submit", "watch", "cancel", "await"}
                        /\ launching = {} /\ \A r \in Run : job[r] = "none"
                        /\ orch \subseteq {run} /\ (orch # {} => pc = "direct")

\* Only a job that runs has an orchestrator, and a cancelled one is started only in the race.
Launches ==
  /\ ~worker => launching = {}
  /\ \A r \in launching :
       /\ launching = {r} /\ job[r] \in {"queued", "running"} /\ r \notin orch
       /\ job[r] = "queued" /\ r \in cancel => r \in raced
  /\ mode # "direct" => \A r \in orch : job[r] = "running"

\* The runner leaves a run only when its job has stopped.
Jobs == \A r \in Run : (Ahead(r) => job[r] = "none") /\ (Behind(r) => Stopped(r))

Written ==
  \A r \in Run : IF r < run THEN /\ Fits(r, record[r].outcome)
                                 /\ record[r].outcome = "timeout" => ~record[r].passed
                 ELSE record[r].outcome = "none"

Pending ==
  /\ pc \in Over => Fits(run, outcome) /\ (outcome = "timeout" => timedOut)
  /\ pc = "await" => timedOut
  /\ pc = "check" => ~timedOut
  /\ pc = "clear" /\ timedOut => ~verdict.passed

Inv == Types /\ Judged /\ Places /\ Launches /\ Jobs /\ Written /\ Pending

LEMMA InvInit == Init => Inv
  <1> SUFFICES ASSUME Init PROVE Inv
    OBVIOUS
  <1>1. Types /\ Judged
    BY TypesInit, JudgedInit
  <1>2. Places /\ Launches
    BY DEF Init, Places, Launches, Run
  <1>3. Jobs
    BY DEF Init, Jobs, Stopped
  <1>4. Written /\ Pending
    <2>1. run = 1 /\ pc \in {"setup", "done"} /\ \A r \in Run : record[r].outcome = "none" /\ ~(r < run)
      BY DEF Init, Blank, Run
    <2> QED
      BY <2>1 DEF Written, Pending, Over
  <1> QED
    BY <1>1, <1>2, <1>3, <1>4 DEF Inv

\* What the lemmas below need of the types.
LEMMA Facts ==
  ASSUME Types
  PROVE  /\ run \in Nat /\ Run \subseteq Nat /\ (pc # "done" => run \in Run)
         /\ job \in [Run -> JobState] /\ launching \subseteq Run /\ orch \subseteq Run /\ cancel \subseteq Run
         /\ (run = Repeats => run + 1 \notin Run)
         /\ mode \in {"direct", "queue"} /\ worker \in BOOLEAN /\ timedOut \in BOOLEAN
  BY BenchAssumption DEF Types, RunnerTypes, QueueTypes, Run

LEMMA QueueCases ==
  ASSUME Queue
  PROVE  \/ \E r \in Run : UserCancels(r) \/ Pick(r) \/ Claim(r) \/ Spawn(r)
         \/ \E r \in Run : SavePid(r) \/ LaunchFails(r) \/ Exit(r) \/ Finish(r)
         \/ WorkerDies \/ WorkerStarts
  BY Zenon DEF Queue

LEMMA PlacesNext == Inv /\ [Next]_vars => Places'
  <1> SUFFICES ASSUME Inv, [Next]_vars PROVE Places'
    OBVIOUS
  <1>0. Types /\ Places /\ Launches /\ Jobs
    BY DEF Inv
  <1> USE <1>0, Facts DEF Places, queue, started, history
  <1>1. CASE Runner
    <2>1. CASE SetUp
      BY <2>1 DEF SetUp
    <2>2. CASE SetUpFails
      BY <2>2 DEF SetUpFails
    <2>3. CASE RunDirect
      BY <2>3 DEF RunDirect, Ended
    <2>4. CASE Submit
      BY <2>4 DEF Submit, NotChecked
    <2>5. CASE SeeEnded
      BY <2>5 DEF SeeEnded, Ended
    <2>6. CASE SeeRunning
      BY <2>6 DEF SeeRunning, Sleep
    <2>7. CASE SeeWaiting
      BY <2>7 DEF SeeWaiting, Sleep
    <2>8. CASE StatusFails
      BY <2>8 DEF StatusFails, Ended, Sleep
    <2>9. CASE CancelJob
      BY <2>9 DEF CancelJob
    <2>10. CASE SeeStopped
      BY <2>10 DEF SeeStopped, Ended
    <2>11. CASE SeeNotStopped
      BY <2>11 DEF SeeNotStopped
    <2>12. CASE StopWaiting
      BY <2>12 DEF StopWaiting, Ended
    <2>13. CASE Collect
      BY <2>13 DEF Collect, NotChecked
    <2>14. CASE Check
      BY <2>14 DEF Check
    <2>15. CASE Clear
      BY <2>15 DEF Clear
    <2> QED
      BY Zenon, <1>1, <2>1, <2>2, <2>3, <2>4, <2>5, <2>6, <2>7, <2>8, <2>9, <2>10, <2>11, <2>12, <2>13,
         <2>14, <2>15 DEF Runner
  <1>2. CASE Queue
    <2> USE DEF runner
    <2>1. ASSUME NEW r \in Run, UserCancels(r) PROVE Places'
      BY <2>1 DEF UserCancels
    <2>2. ASSUME NEW r \in Run, Pick(r) PROVE Places'
      BY <2>2 DEF Pick
    <2>3. ASSUME NEW r \in Run, Claim(r) PROVE Places'
      BY <2>3 DEF Claim
    <2>4. ASSUME NEW r \in Run, Spawn(r) PROVE Places'
      BY <2>4 DEF Spawn
    <2>5. ASSUME NEW r \in Run, Exit(r) PROVE Places'
      BY <2>5 DEF Exit
    <2>6. ASSUME NEW r \in Run, Finish(r) PROVE Places'
      BY <2>6 DEF Finish
    <2>7. CASE WorkerDies
      BY <2>7 DEF WorkerDies
    <2>8. CASE WorkerStarts
      BY <2>8 DEF WorkerStarts
    <2>9. ASSUME NEW r \in Run, SavePid(r) PROVE Places'
      BY <2>9 DEF SavePid
    <2>10. ASSUME NEW r \in Run, LaunchFails(r) PROVE Places'
      BY <2>10 DEF LaunchFails
    <2> QED
      BY Zenon, <1>2, <2>1, <2>2, <2>3, <2>4, <2>5, <2>6, <2>7, <2>8, <2>9, <2>10,
         QueueCases
  <1>3. CASE UNCHANGED vars
    BY <1>3 DEF vars, runner
  <1> QED
    BY <1>1, <1>2, <1>3 DEF Next

LEMMA LaunchesNext == Inv /\ [Next]_vars => Launches'
  <1> SUFFICES ASSUME Inv, [Next]_vars PROVE Launches'
    OBVIOUS
  <1>0. Types /\ Places /\ Launches /\ Jobs
    BY DEF Inv
  <1> USE <1>0, Facts DEF Launches, queue, started, history
  <1>1. CASE Runner
    <2>1. CASE SetUp \/ RunDirect
      BY <2>1 DEF SetUp, RunDirect, Places
    <2>2. CASE Submit
      BY <2>2 DEF Submit, Jobs, Ahead
    <2>3. CASE CancelJob
      BY <2>3 DEF CancelJob, RequestCancel
    <2>4. CASE UNCHANGED <<mode, worker, launching, orch, job, cancel, raced>>
      BY <2>4
    <2> QED
      BY <1>1, <2>1, <2>2, <2>3, <2>4 DEF Runner, SetUpFails, SeeEnded, SeeRunning, SeeWaiting, StatusFails,
         SeeStopped, SeeNotStopped, StopWaiting, Collect, Check, Clear
  <1>2. CASE Queue
    <2>1. ASSUME NEW r \in Run, UserCancels(r) PROVE Launches'
      BY <2>1 DEF UserCancels, RequestCancel
    <2>2. ASSUME NEW r \in Run, Pick(r) PROVE Launches'
      <3>1. r \notin orch
        BY <2>2 DEF Pick, Places
      <3> QED
        BY <2>2, <3>1 DEF Pick
    <2>3. ASSUME NEW r \in Run, Claim(r) PROVE Launches'
      BY <2>3 DEF Claim
    <2>4. ASSUME NEW r \in Run, Spawn(r) PROVE Launches'
      BY <2>4 DEF Spawn
    <2>5. ASSUME NEW r \in Run, Exit(r) PROVE Launches'
      BY <2>5 DEF Exit
    <2>6. ASSUME NEW r \in Run, Finish(r) PROVE Launches'
      BY <2>6 DEF Finish
    <2>7. CASE WorkerDies
      BY <2>7 DEF WorkerDies
    <2>8. CASE WorkerStarts
      BY <2>8 DEF WorkerStarts
    <2>9. ASSUME NEW r \in Run, SavePid(r) PROVE Launches'
      BY <2>9 DEF SavePid
    <2>10. ASSUME NEW r \in Run, LaunchFails(r) PROVE Launches'
      BY <2>10 DEF LaunchFails
    <2> QED
      BY Zenon, <1>2, <2>1, <2>2, <2>3, <2>4, <2>5, <2>6, <2>7, <2>8, <2>9, <2>10,
         QueueCases
  <1>3. CASE UNCHANGED vars
    BY <1>3 DEF vars
  <1> QED
    BY <1>1, <1>2, <1>3 DEF Next

LEMMA JobsNext == Inv /\ [Next]_vars => Jobs'
  <1> SUFFICES ASSUME Inv, [Next]_vars PROVE Jobs'
    OBVIOUS
  <1>0. Types /\ Places /\ Launches /\ Jobs
    BY DEF Inv
  <1> USE <1>0, Facts DEF Jobs, Ahead, Behind, Over, Stopped, Places, Launches, Terminal, queue, started, history
  <1>1. CASE Runner
    <2>1. CASE SetUp
      BY <2>1 DEF SetUp
    <2>2. CASE SetUpFails
      BY <2>2 DEF SetUpFails
    <2>3. CASE RunDirect
      BY <2>3 DEF RunDirect, Ended
    <2>4. CASE Submit
      BY <2>4 DEF Submit, NotChecked
    <2>5. CASE SeeEnded
      BY <2>5 DEF SeeEnded, Ended, Shown
    <2>6. CASE SeeRunning
      BY <2>6 DEF SeeRunning, Sleep
    <2>7. CASE SeeWaiting
      BY <2>7 DEF SeeWaiting, Sleep
    <2>8. CASE StatusFails
      BY <2>8 DEF StatusFails, Ended, Sleep
    <2>9. CASE CancelJob
      BY <2>9 DEF CancelJob, RequestCancel
    <2>10. CASE SeeStopped
      BY <2>10 DEF SeeStopped, Ended, Shown
    <2>11. CASE SeeNotStopped
      BY <2>11 DEF SeeNotStopped
    <2>12. CASE StopWaiting
      BY <2>12 DEF StopWaiting, Ended
    <2>13. CASE Collect
      BY <2>13 DEF Collect, NotChecked
    <2>14. CASE Check
      BY <2>14 DEF Check
    <2>15. CASE Clear
      BY <2>15 DEF Clear
    <2> QED
      BY Zenon, <1>1, <2>1, <2>2, <2>3, <2>4, <2>5, <2>6, <2>7, <2>8, <2>9, <2>10, <2>11, <2>12,
         <2>13, <2>14, <2>15 DEF Runner
  <1>2. CASE Queue
    <2> USE DEF runner
    <2>1. ASSUME NEW r \in Run, UserCancels(r) PROVE Jobs'
      BY <2>1 DEF UserCancels, RequestCancel, Shown
    <2>2. ASSUME NEW r \in Run, Pick(r) PROVE Jobs'
      BY <2>2 DEF Pick
    <2>3. ASSUME NEW r \in Run, Claim(r) PROVE Jobs'
      BY <2>3 DEF Claim
    <2>4. ASSUME NEW r \in Run, Spawn(r) PROVE Jobs'
      BY <2>4 DEF Spawn
    <2>5. ASSUME NEW r \in Run, Exit(r) PROVE Jobs'
      BY <2>5 DEF Exit
    <2>6. ASSUME NEW r \in Run, Finish(r) PROVE Jobs'
      BY <2>6 DEF Finish
    <2>7. CASE WorkerDies
      BY <2>7 DEF WorkerDies
    <2>8. CASE WorkerStarts
      BY <2>8 DEF WorkerStarts
    <2>9. ASSUME NEW r \in Run, SavePid(r) PROVE Jobs'
      BY <2>9 DEF SavePid
    <2>10. ASSUME NEW r \in Run, LaunchFails(r) PROVE Jobs'
      BY <2>10 DEF LaunchFails
    <2> QED
      BY Zenon, <1>2, <2>1, <2>2, <2>3, <2>4, <2>5, <2>6, <2>7, <2>8, <2>9, <2>10,
         QueueCases
  <1>3. CASE UNCHANGED vars
    BY <1>3 DEF vars, runner
  <1> QED
    BY <1>1, <1>2, <1>3 DEF Next

\* What the queue's files do not take back.
Kept ==
  /\ mode' = mode /\ cancel \subseteq cancel' /\ unwatched \subseteq unwatched'
  /\ \A r \in Run : /\ job[r] \in Terminal => job'[r] = job[r]
                    /\ job[r] = "none" /\ Behind(r) => job'[r] = "none"

LEMMA NothingIsTakenBack ==
  ASSUME Inv, [Next]_vars
  PROVE  Kept
  <1>0. Types /\ Places /\ Launches /\ Jobs
    BY DEF Inv
  <1> USE <1>0, Facts DEF Kept, queue, started, history
  <1>1. CASE Runner
    <2>1. CASE Submit
      BY <2>1 DEF Submit, Terminal, Jobs, Ahead, Behind, Over
    <2>2. CASE CancelJob
      BY <2>2 DEF CancelJob, RequestCancel
    <2>3. CASE UNCHANGED <<mode, cancel, job>> /\ unwatched \subseteq unwatched'
      BY <2>3
    <2>4. SetUp \/ SetUpFails \/ RunDirect \/ SeeEnded \/ SeeRunning \/ SeeWaiting
            => UNCHANGED <<mode, cancel, job>> /\ unwatched \subseteq unwatched'
      BY DEF SetUp, SetUpFails, RunDirect, SeeEnded, SeeRunning, SeeWaiting
    <2>5. StatusFails \/ SeeStopped \/ SeeNotStopped \/ StopWaiting \/ Collect \/ Check \/ Clear
            => UNCHANGED <<mode, cancel, job>> /\ unwatched \subseteq unwatched'
      BY DEF StatusFails, SeeStopped, SeeNotStopped, StopWaiting, Collect, Check, Clear
    <2> QED
      BY Zenon, <1>1, <2>1, <2>2, <2>3, <2>4, <2>5 DEF Runner
  <1>2. CASE Queue
    <2>1. ASSUME NEW r \in Run, UserCancels(r) PROVE Kept
      BY <2>1 DEF UserCancels, RequestCancel
    <2>2. ASSUME NEW r \in Run, Pick(r) \/ Spawn(r) \/ SavePid(r) \/ Exit(r) PROVE Kept
      BY <2>2 DEF Pick, Spawn, SavePid, Exit
    <2>3. ASSUME NEW r \in Run, Claim(r) PROVE Kept
      BY <2>3 DEF Claim, Terminal
    <2>4. ASSUME NEW r \in Run, Finish(r) PROVE Kept
      BY <2>4 DEF Finish, Terminal
    <2>5. CASE WorkerDies
      BY <2>5 DEF WorkerDies
    <2>6. CASE WorkerStarts
      BY <2>6 DEF WorkerStarts, Terminal
    <2>7. ASSUME NEW r \in Run, LaunchFails(r) PROVE Kept
      BY <2>7 DEF LaunchFails, Launches, Terminal
    <2> QED
      BY Zenon, <1>2, <2>1, <2>2, <2>3, <2>4, <2>5, <2>6, <2>7, QueueCases
  <1>3. CASE UNCHANGED vars
    BY <1>3 DEF vars
  <1> QED
    BY <1>1, <1>2, <1>3 DEF Next

Outcomes == Terminal \cup {"none", "timeout"}

LEMMA FitsStays ==
  ASSUME Inv, [Next]_vars
  PROVE  \A r \in Run, o \in Outcomes : Behind(r) /\ Fits(r, o) => Fits(r, o)'
  BY NothingIsTakenBack DEF Kept, Fits

LEMMA PendingNext == Inv /\ [Next]_vars => Pending'
  <1> SUFFICES ASSUME Inv, [Next]_vars PROVE Pending'
    OBVIOUS
  <1>0. Types /\ Places /\ Pending /\ Jobs /\ outcome \in Outcomes
        /\ (pc # "clear" => ~verdict.passed /\ verdict = NoVerdict)
    BY DEF Inv, Types, RunnerTypes, Outcomes, Judged, NoVerdict
  <1>1. pc \in Over /\ UNCHANGED <<run, outcome>> => Fits(run, outcome)'
    <2> SUFFICES ASSUME pc \in Over, UNCHANGED <<run, outcome>> PROVE Fits(run, outcome)'
      OBVIOUS
    <2>1. run \in Run /\ Behind(run) /\ Fits(run, outcome)
      BY <1>0, Facts DEF Behind, Over, Pending
    <2>2. PICK r \in Run, o \in Outcomes : r = run /\ o = outcome
      BY <1>0, <2>1
    <2> QED
      BY <2>1, <2>2, FitsStays
  <1>2. CASE Runner
    <2> USE <1>0, Facts DEF Pending, Over
    <2>1. CASE SetUp \/ SetUpFails \/ SeeRunning \/ SeeWaiting \/ CancelJob \/ SeeNotStopped
      BY <2>1 DEF SetUp, SetUpFails, SeeRunning, SeeWaiting, CancelJob, SeeNotStopped, Sleep
    <2>2. CASE RunDirect
      BY <2>2 DEF RunDirect, Ended, Places, Fits
    <2>3. CASE Submit
      BY <2>3 DEF Submit, NotChecked, Fits, Jobs, Ahead, NoVerdict
    <2>4. CASE SeeEnded
      BY <2>4 DEF SeeEnded, Ended, Shown, Fits, queue, Terminal
    <2>5. CASE StatusFails
      BY <2>5 DEF StatusFails, Ended, Sleep, Fits
    <2>6. CASE SeeStopped \/ StopWaiting
      BY <2>6 DEF SeeStopped, StopWaiting, Ended, Fits, Terminal
    <2>7. CASE Collect
      BY <1>1, <2>7 DEF Collect, NotChecked, NoVerdict
    <2>8. CASE Check
      BY <1>1, <2>8 DEF Check
    <2>9. CASE Clear
      BY <2>9 DEF Clear
    <2> QED
      BY Zenon, <1>2, <2>1, <2>2, <2>3, <2>4, <2>5, <2>6, <2>7, <2>8, <2>9 DEF Runner
  <1>3. CASE UNCHANGED runner
    BY <1>0, <1>1, <1>3 DEF Pending, runner, records
  <1>4. Runner \/ UNCHANGED runner
    BY NextCases DEF Runner
  <1> QED
    BY <1>2, <1>3, <1>4

LEMMA WrittenNext == Inv /\ [Next]_vars => Written'
  <1> SUFFICES ASSUME Inv, [Next]_vars, NEW r \in Run
               PROVE  IF r < run' THEN /\ Fits(r, record[r].outcome)'
                                       /\ record'[r].outcome = "timeout" => ~record'[r].passed
                      ELSE record'[r].outcome = "none"
    BY DEF Written
  <1>0. Types /\ Pending /\ Jobs /\ RecordType /\ run \in Nat /\ r \in Nat /\ outcome \in Outcomes
    BY Facts DEF Inv, Types, RunnerTypes, Outcomes
  <1>1. IF r < run THEN /\ Fits(r, record[r].outcome)
                        /\ record[r].outcome = "timeout" => ~record[r].passed
        ELSE record[r].outcome = "none"
    BY DEF Inv, Written
  <1>2. record[r].outcome \in Outcomes
    BY <1>0 DEF RecordType, Outcomes
  <1>3. record'[r] = record[r] /\ r < run => Fits(r, record[r].outcome)'
    <2> SUFFICES ASSUME record'[r] = record[r], r < run PROVE Fits(r, record[r].outcome)'
      OBVIOUS
    <2>1. PICK o \in Outcomes : o = record[r].outcome
      BY <1>2
    <2>2. Fits(r, o)'
      BY <1>1, <2>1, FitsStays DEF Behind
    <2> QED
      BY <2>1, <2>2
  <1>4. CASE UNCHANGED <<run, record>>
    BY <1>1, <1>3, <1>4
  <1>5. CASE SetUpFails
    <2>1. run' = run + 1 /\ UNCHANGED <<mode, job>>
      BY <1>5 DEF SetUpFails, queue
    <2>5. run \in Run
      BY <1>0, <1>5, Facts DEF SetUpFails
    <2>2. record' = [record EXCEPT ![run].outcome = "failed"]
      BY <1>5 DEF SetUpFails
    <2>3. CASE r = run
      <3>1. record'[r].outcome = "failed" /\ r < run'
        BY <1>0, <2>1, <2>2, <2>3, <2>5 DEF RecordType
      <3>2. job'[r] = "none"
        BY <1>0, <1>5, <2>1, <2>3, <2>5 DEF SetUpFails, Jobs, Ahead
      <3> QED
        BY <3>1, <3>2 DEF Fits
    <2>4. CASE r # run
      <3>1. record'[r] = record[r]
        BY <1>0, <2>2, <2>4 DEF RecordType
      <3>2. r < run' <=> r < run
        BY <1>0, <2>1, <2>4
      <3> QED
        BY <1>1, <1>3, <3>1, <3>2
    <2> QED
      BY <2>3, <2>4
  <1>6. CASE Clear
    <2>1. run' = run + 1 /\ run \in Run /\ pc = "clear"
          /\ record' = [record EXCEPT ![run] = [outcome |-> outcome, passed |-> verdict.passed]]
      BY <1>0, <1>6, Facts DEF Clear
    <2>2. CASE r = run
      <3>1. record'[r] = [outcome |-> outcome, passed |-> verdict.passed] /\ r < run'
        BY <1>0, <2>1, <2>2 DEF RecordType
      <3>2. record'[r].outcome = outcome /\ record'[r].passed = verdict.passed
        BY <3>1
      <3>3. Behind(r) /\ Fits(r, outcome) /\ (outcome = "timeout" => ~verdict.passed)
        BY <1>0, <2>1, <2>2 DEF Behind, Over, Pending
      <3>4. PICK o \in Outcomes : o = outcome
        BY <1>0
      <3>5. Fits(r, o)'
        BY <3>3, <3>4, FitsStays
      <3> QED
        BY <3>1, <3>2, <3>3, <3>4, <3>5
    <2>3. CASE r # run
      <3>1. record'[r] = record[r] /\ (r < run' <=> r < run)
        BY <1>0, <2>1, <2>3 DEF RecordType
      <3> QED
        BY <1>1, <1>3, <3>1
    <2> QED
      BY <2>2, <2>3
  <1>7. UNCHANGED <<run, record>> \/ SetUpFails \/ Clear
    BY NextCases DEF SetUp, RunDirect, Submit, SeeEnded, SeeRunning, SeeWaiting, StatusFails,
       CancelJob, SeeStopped, SeeNotStopped, StopWaiting, Collect, Check, runner, records
  <1> QED
    BY <1>4, <1>5, <1>6, <1>7

LEMMA InvNext == Inv /\ [Next]_vars => Inv'
  BY TypesNext, JudgedNext, PlacesNext, LaunchesNext, JobsNext, WrittenNext, PendingNext DEF Inv

\* runner.rs, run_one and cancel_job: whatever the worker, the orchestrator and the queue's
\* commands do in between, the directory of a run is cleared and its crate checked only when no
\* orchestrator that the worker or a job file knows of can write to it any more.
THEOREM NobodyWrites == Spec => []NoWriterLeft
  <1>1. Inv => NoWriterLeft
    <2> SUFFICES ASSUME Inv, NEW r \in orch \ (unwatched \cup raced)
                 PROVE  r \in dir /\ (pc = "check" => run # r)
      BY DEF NoWriterLeft
    <2>0. Types /\ Places /\ Launches /\ Jobs
      BY DEF Inv
    <2>1. CASE mode = "direct"
      BY <2>0, <2>1, Facts DEF Places
    <2>2. CASE mode # "direct"
      <3>1. r \in Run /\ job[r] = "running" /\ run \in Nat /\ r \in Nat
        BY <2>0, <2>2, Facts DEF Launches
      <3>2. ~Ahead(r) /\ ~Behind(r)
        BY <2>0, <3>1 DEF Jobs, Stopped, Terminal
      <3>3. r = run /\ pc \notin {"setup", "check"}
        BY <3>1, <3>2 DEF Ahead, Behind, Over
      <3>4. pc # "done"
        BY <2>0, <3>1, <3>3 DEF Places
      <3> QED
        BY <2>0, <3>3, <3>4 DEF Places
    <2> QED
      BY <2>1, <2>2
  <1> QED
    BY InvInit, InvNext, <1>1, PTL DEF Spec

\* runner.rs, run_queue: what is recorded of a run is how its job ended, or that the runner could
\* not see it; no run that was cut off counts as passed.
THEOREM OutcomeIsRight == Spec => []OutcomeIsTheJobs
  <1>1. Inv => OutcomeIsTheJobs
    BY Facts DEF Inv, Written, Fits, OutcomeIsTheJobs, Terminal
  <1> QED
    BY InvInit, InvNext, <1>1, PTL DEF Spec

=============================================================================
