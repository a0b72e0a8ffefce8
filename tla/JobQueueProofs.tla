--------------------------- MODULE JobQueueProofs ---------------------------
(***************************************************************************)
(* Theorems about JobQueue for every number of jobs, resumes, increments   *)
(* and faults.                                                             *)
(***************************************************************************)
EXTENDS JobQueue, TLAPS

-----------------------------------------------------------------------------
(* Which steps touch what *)

LEMMA FirstJob == 1 \in JobId
  BY QueueAssumption DEF JobId

\* The steps that save a job file.
SavesJob ==
  \/ RecoverSave \/ LaunchCheck \/ LaunchFails \/ SaveRunning \/ SavePid \/ Reap \/ Terminate
  \/ FollowSubmit \/ (\E j \in JobId : Submit(j))

LEMMA JobFrame == [Next]_vars => SavesJob \/ UNCHANGED job
  BY Zenon DEF SavesJob, Next, Worker, Client, Orchestrator, Faulty, vars, files, memory, history,
     WorkerStart, RecoverKill, RecoverDone, NextQueued, IdleExit, Spawn, StillRunning, PeekCancel,
     Analyze, FollowNothing, FollowMark, AskCancel, WriteCancel, Split, OrchestratorExit, Crash,
     Reboot, LaunchError, FollowError

LEMMA SeriesFrame ==
  [Next]_vars => FollowSubmit \/ FollowMark \/ (\E j \in JobId : Split(j))
                  \/ UNCHANGED <<handoff, chain, submitted>>
  BY Zenon DEF Next, Worker, Client, Orchestrator, Faulty, vars, files, memory, history,
     WorkerStart, RecoverKill, RecoverDone, RecoverSave, NextQueued, IdleExit, LaunchCheck, LaunchFails,
     SaveRunning, Spawn, SavePid, Reap, StillRunning, PeekCancel, Terminate,
     Analyze, FollowNothing, Submit, AskCancel, WriteCancel, OrchestratorExit, Crash,
     Reboot, LaunchError, FollowError

LEMMA MarkerFrame ==
  [Next]_vars => (\E j \in JobId : AskCancel(j) \/ WriteCancel(j)) \/ Reboot
                  \/ UNCHANGED <<cancel, asking>>
  BY Zenon DEF Next, Worker, Client, Orchestrator, Faulty, vars, files, memory, history,
     WorkerStart, RecoverKill, RecoverDone, RecoverSave, NextQueued, IdleExit, LaunchCheck, LaunchFails,
     SaveRunning, Spawn, SavePid, Reap, StillRunning, PeekCancel, Terminate,
     Analyze, FollowNothing, FollowSubmit, FollowMark, Submit, Split, OrchestratorExit, Crash,
     LaunchError, FollowError

LEMMA CountFrame ==
  [Next]_vars => Spawn \/ (\E j \in JobId : WriteCancel(j)) \/ Faulty
                  \/ UNCHANGED <<launches, atCancel, faults>>
  BY Zenon DEF Next, Worker, Client, Orchestrator, vars, files, memory, history,
     WorkerStart, RecoverKill, RecoverDone, RecoverSave, NextQueued, IdleExit, LaunchCheck, LaunchFails,
     SaveRunning, SavePid, Reap, StillRunning, PeekCancel, Terminate,
     Analyze, FollowNothing, FollowSubmit, FollowMark, Submit, AskCancel, Split, OrchestratorExit

\* The steps by which an orchestrator begins, ends or is lost sight of.
ChangesProcesses ==
  \/ RecoverKill \/ Spawn \/ Terminate \/ Crash \/ Reboot \/ LaunchError
  \/ \E j \in JobId : \E p \in live[j] : OrchestratorExit(j, p)

LEMMA ProcessFrame == [Next]_vars => ChangesProcesses \/ UNCHANGED <<live, lost>>
  BY Zenon DEF ChangesProcesses, Next, Worker, Client, Orchestrator, Faulty, vars, files, memory, history,
     WorkerStart, RecoverDone, RecoverSave, NextQueued, IdleExit, LaunchCheck, LaunchFails,
     SaveRunning, SavePid, Reap, StillRunning, PeekCancel,
     Analyze, FollowNothing, FollowSubmit, FollowMark, Submit, AskCancel, WriteCancel, Split, FollowError
-----------------------------------------------------------------------------
(* Type correctness *)

LEMMA TypeInit == Init => TypeOK
  <1> SUFFICES ASSUME Init PROVE TypeOK
    OBVIOUS
  <1> USE QueueAssumption DEF Init
  <1>1. JobTypes
    BY DEF JobTypes, State, Workspace, NoPid
  <1>2. SeriesTypes
    BY DEF SeriesTypes, Link, NoChain, Workspace
  <1>3. MarkerTypes /\ ProcessTypes
    BY DEF MarkerTypes, ProcessTypes
  <1>4. WorkerTypes
    BY FirstJob DEF WorkerTypes, PC, NoPid
  <1>5. CountTypes
    BY DEF CountTypes
  <1> QED
    BY <1>1, <1>2, <1>3, <1>4, <1>5 DEF TypeOK

LEMMA JobTypesNext == TypeOK /\ [Next]_vars => JobTypes'
  <1> SUFFICES ASSUME JobTypes, WorkerTypes, [Next]_vars PROVE JobTypes'
    BY DEF TypeOK
  <1>1. CASE RecoverSave
    BY <1>1, QueueAssumption DEF RecoverSave, SetState, JobTypes, WorkerTypes, State, Terminal, NoPid
  <1>2. CASE LaunchCheck
    BY <1>2 DEF LaunchCheck, Finish, SetState, job, JobTypes, WorkerTypes, State, Terminal
  <1>3. CASE LaunchFails
    BY <1>3 DEF LaunchFails, Finish, SetState, JobTypes, WorkerTypes, State, Terminal
  <1>4. CASE SaveRunning
    BY <1>4 DEF SaveRunning, SetState, JobTypes, WorkerTypes, State
  <1>5. CASE SavePid
    BY <1>5 DEF SavePid, JobTypes, WorkerTypes
  <1>6. CASE Reap
    BY <1>6 DEF Reap, Finish, SetState, JobTypes, WorkerTypes, State, Terminal
  <1>7. CASE Terminate
    BY <1>7 DEF Terminate, Finish, SetState, JobTypes, WorkerTypes, State, Terminal
  <1>8. CASE FollowSubmit
    BY <1>8 DEF FollowSubmit, NewJob, JobTypes, WorkerTypes, State, Workspace
  <1>9. ASSUME NEW j \in JobId, Submit(j) PROVE JobTypes'
    <2>1. j \in Workspace /\ \A i \in 1..(j - 1) : ws[i] \in Workspace
      <3>1. \A i \in 1..(j - 1) : i \in JobId
        BY QueueAssumption DEF JobId
      <3> QED
        BY <3>1 DEF JobTypes, Workspace
    <2>2. PICK w \in {j} \cup (IF ReuseWorkspace THEN {ws[i] : i \in 1..(j - 1)} ELSE {}) :
            NewJob(j, w)
      BY <1>9 DEF Submit
    <2>3. w \in Workspace
      BY <2>1, <2>2
    <2> QED
      BY <2>2, <2>3 DEF NewJob, JobTypes, State
  <1>10. CASE UNCHANGED job
    BY <1>10 DEF job, JobTypes
  <1> QED
    BY <1>1, <1>2, <1>3, <1>4, <1>5, <1>6, <1>7, <1>8, <1>9, <1>10, JobFrame DEF SavesJob

LEMMA SeriesTypesNext == TypeOK /\ [Next]_vars => SeriesTypes'
  <1> SUFFICES ASSUME JobTypes, SeriesTypes, WorkerTypes, [Next]_vars PROVE SeriesTypes'
    BY DEF TypeOK
  <1>1. CASE FollowSubmit
    <2>1. ws[current] \in Workspace
      BY DEF JobTypes, WorkerTypes
    <2>2. ASSUME NEW w \in Workspace PROVE NextLink(w) \in Link
      <3>1. CASE chain[w] # NoChain
        <4>1. chain[w] \in [root : 0..MaxJobs, index : Nat, total : Nat]
          BY DEF SeriesTypes, Link
        <4> QED
          BY <3>1, <4>1 DEF NextLink, Link
      <3>2. CASE chain[w] = NoChain
        <4>1. w \in 0..MaxJobs
          BY QueueAssumption DEF Workspace, JobId
        <4>2. handoff[w] \in Nat
          BY QueueAssumption DEF SeriesTypes
        <4> QED
          BY <3>2, <4>1, <4>2 DEF NextLink, Link
      <3> QED
        BY <3>1, <3>2
    <2> QED
      BY <1>1, <2>1, <2>2 DEF FollowSubmit, SeriesTypes, Workspace
  <1>2. CASE FollowMark
    BY <1>2 DEF FollowMark, SeriesTypes, JobTypes, WorkerTypes
  <1>3. ASSUME NEW j \in JobId, Split(j) PROVE SeriesTypes'
    <2>1. PICK n \in 2..MaxIncrements : handoff' = [handoff EXCEPT ![ws[j]] = n]
      BY <1>3 DEF Split
    <2>2. n \in 0..MaxIncrements
      BY QueueAssumption
    <2>3. UNCHANGED <<chain, submitted>>
      BY <1>3 DEF Split
    <2> QED
      BY <2>1, <2>2, <2>3 DEF SeriesTypes
  <1>4. CASE UNCHANGED <<handoff, chain, submitted>>
    BY <1>4 DEF SeriesTypes
  <1> QED
    BY <1>1, <1>2, <1>3, <1>4, SeriesFrame

LEMMA MarkerTypesNext == TypeOK /\ [Next]_vars => MarkerTypes'
  <1> SUFFICES ASSUME MarkerTypes, [Next]_vars PROVE MarkerTypes'
    BY DEF TypeOK
  <1>1. ASSUME NEW j \in JobId, AskCancel(j) \/ WriteCancel(j) PROVE MarkerTypes'
    BY <1>1 DEF AskCancel, WriteCancel, MarkerTypes, files
  <1>2. CASE Reboot
    BY <1>2 DEF Reboot, MarkerTypes, files
  <1>3. CASE UNCHANGED <<cancel, asking>>
    BY <1>3 DEF MarkerTypes
  <1> QED
    BY <1>1, <1>2, <1>3, MarkerFrame

LEMMA ProcessTypesNext == TypeOK /\ [Next]_vars => ProcessTypes'
  <1> SUFFICES ASSUME ProcessTypes, WorkerTypes, CountTypes, [Next]_vars PROVE ProcessTypes'
    BY DEF TypeOK
  <1>1. CASE RecoverKill
    BY <1>1 DEF RecoverKill, ProcessTypes, history
  <1>2. CASE Spawn
    BY <1>2 DEF Spawn, ProcessTypes, WorkerTypes, CountTypes
  <1>3. CASE Terminate
    BY <1>3 DEF Terminate, ProcessTypes, history
  <1>4. CASE Crash
    BY <1>4 DEF Crash, LoseUnrecorded, ProcessTypes, WorkerTypes
  <1>5. CASE Reboot
    BY <1>5 DEF Reboot, LoseUnrecorded, ProcessTypes, WorkerTypes
  <1>6. CASE LaunchError
    BY <1>6 DEF LaunchError, LoseUnrecorded, ProcessTypes, WorkerTypes
  <1>7. ASSUME NEW j \in JobId, NEW p \in live[j], OrchestratorExit(j, p) PROVE ProcessTypes'
    BY <1>7 DEF OrchestratorExit, ProcessTypes, history
  <1>8. CASE UNCHANGED <<live, lost>>
    BY <1>8 DEF ProcessTypes
  <1> QED
    BY <1>1, <1>2, <1>3, <1>4, <1>5, <1>6, <1>7, <1>8, ProcessFrame DEF ChangesProcesses

LEMMA CountTypesNext == TypeOK /\ [Next]_vars => CountTypes'
  <1> SUFFICES ASSUME WorkerTypes, CountTypes, [Next]_vars PROVE CountTypes'
    BY DEF TypeOK
  <1>1. CASE Spawn
    BY <1>1 DEF Spawn, CountTypes, WorkerTypes
  <1>2. ASSUME NEW j \in JobId, WriteCancel(j) PROVE CountTypes'
    BY <1>2 DEF WriteCancel, CountTypes
  <1>3. CASE Faulty
    <2>1. faults' \in 0..MaxFaults
      BY <1>3, QueueAssumption DEF Faulty, Crash, Reboot, LaunchError, FollowError, Fault, CountTypes
    <2>2. UNCHANGED <<launches, atCancel>>
      BY <1>3 DEF Faulty, Crash, Reboot, LaunchError, FollowError
    <2> QED
      BY <2>1, <2>2 DEF CountTypes
  <1>4. CASE UNCHANGED <<launches, atCancel, faults>>
    BY <1>4 DEF CountTypes
  <1> QED
    BY <1>1, <1>2, <1>3, <1>4, CountFrame

\* What each step leaves of the worker's memory.
LEMMA WorkerTypesNext == TypeOK /\ [Next]_vars => WorkerTypes'
  <1> SUFFICES ASSUME WorkerTypes, JobTypes, CountTypes, [Next]_vars PROVE WorkerTypes'
    BY DEF TypeOK
  <1> USE DEF WorkerTypes
  <1>1. ASSUME WorkerGone PROVE WorkerTypes'
    BY <1>1, FirstJob DEF WorkerGone, PC, NoPid
  <1>2. ASSUME RunJobReturns PROVE WorkerTypes'
    BY <1>1, <1>2 DEF RunJobReturns, PC
  <1>3. CASE WorkerStart
    BY <1>3 DEF WorkerStart, InState, PC
  <1>4. CASE RecoverKill
    BY <1>4 DEF RecoverKill, PC
  <1>5. CASE RecoverSave
    BY <1>5 DEF RecoverSave, PC
  <1>6. CASE RecoverDone \/ LaunchFails \/ SaveRunning \/ SavePid \/ Reap
    BY <1>6 DEF RecoverDone, LaunchFails, SaveRunning, SavePid, Reap, Finish, PC
  <1>7. CASE LaunchCheck
    BY <1>7 DEF LaunchCheck, Finish, PC
  <1>8. CASE StillRunning \/ Analyze \/ FollowSubmit
    BY <1>8 DEF StillRunning, Analyze, FollowSubmit, PC
  <1>9. CASE PeekCancel
    BY <1>9 DEF PeekCancel, PC
  <1>10. CASE Terminate
    BY <1>10 DEF Terminate, Finish, PC
  <1>11. CASE NextQueued
    BY <1>11 DEF NextQueued, PC
  <1>12. CASE Spawn
    BY <1>12 DEF Spawn, CountTypes, PC
  <1>13. CASE LaunchError
    BY <1>13 DEF LaunchError, PC
  <1>14. ASSUME NEW j \in JobId, NEW p \in live[j], OrchestratorExit(j, p) PROVE WorkerTypes'
    BY <1>14 DEF OrchestratorExit
  <1>15. CASE IdleExit \/ Crash \/ Reboot
    BY <1>1, <1>15 DEF IdleExit, Crash, Reboot
  <1>16. CASE FollowNothing \/ FollowMark \/ FollowError
    BY <1>2, <1>16 DEF FollowNothing, FollowMark, FollowError
  <1>17. CASE Client \/ (\E j \in JobId : Split(j)) \/ UNCHANGED vars
    BY <1>17 DEF Client, Submit, AskCancel, WriteCancel, Split, vars, memory
  <1> QED
    BY Zenon, <1>3, <1>4, <1>5, <1>6, <1>7, <1>8, <1>9, <1>10, <1>11, <1>12, <1>13, <1>14,
       <1>15, <1>16, <1>17 DEF Next, Worker, Orchestrator, Faulty

\* Every variable keeps its type, whatever the order of steps and crashes: in particular no job
\* is ever resumed more than MAX_RESUMES times (worker.rs, recover_orphans).
THEOREM TypeCorrect == Spec => []TypeOK
  <1>1. TypeOK /\ [Next]_vars => TypeOK'
    BY JobTypesNext, SeriesTypesNext, MarkerTypesNext, ProcessTypesNext, WorkerTypesNext, CountTypesNext DEF TypeOK
  <1> QED
    BY TypeInit, <1>1, PTL DEF Spec

-----------------------------------------------------------------------------
(* The inductive invariant *)

\* The program counter, the job it is about and the states of the jobs.
control == <<state, pc, current, failed, todo>>

LEMMA ControlFrame ==
  [Next]_vars => Worker \/ Faulty \/ (\E j \in JobId : Submit(j)) \/ UNCHANGED control
  BY Zenon DEF control, Next, Client, Orchestrator, vars, files, job, memory, AskCancel, WriteCancel,
     Split, OrchestratorExit

LEMMA SubmitState ==
  ASSUME JobTypes, NEW j \in JobId, Submit(j)
  PROVE  /\ state[j] = "absent" /\ \A i \in JobId : state[i] = "absent" => j <= i
         /\ state' = [state EXCEPT ![j] = "queued"]
         /\ UNCHANGED <<resumes, pid, pc, current, failed, todo, cancel, live, lost, launches, atCancel, child, exit>>
  <1>1. state[j] = "absent" /\ \A i \in JobId : state[i] = "absent" => j <= i
    BY DEF Submit, Least, InState
  <1>2. state' = [state EXCEPT ![j] = "queued"] /\ UNCHANGED <<resumes, pid>>
    BY DEF Submit, NewJob
  <1> QED
    BY <1>1, <1>2 DEF Submit, memory, history

LEMMA ControlNext == Inductive /\ [Next]_vars => ControlMatchesFile'
  <1> SUFFICES ASSUME JobTypes, WorkerTypes, ControlMatchesFile, [Next]_vars PROVE ControlMatchesFile'
    BY DEF Inductive, TypeOK
  <1> USE DEF ControlMatchesFile
  <1>1. ASSUME WorkerGone PROVE ControlMatchesFile'
    BY <1>1 DEF WorkerGone
  <1>2. ASSUME RunJobReturns, pc \in {"follow", "mark"} PROVE ControlMatchesFile'
    BY <1>1, <1>2 DEF RunJobReturns
  <1>3. CASE WorkerStart
    BY <1>3 DEF WorkerStart, files, job, InState
  <1>4. CASE RecoverKill
    BY <1>4 DEF RecoverKill, files, job, InState, Least, WorkerTypes, JobTypes
  <1>5. CASE RecoverSave
    BY <1>5 DEF RecoverSave, SetState, InState, WorkerTypes, JobTypes
  <1>6. CASE RecoverDone
    BY <1>6 DEF RecoverDone
  <1>7. CASE NextQueued
    BY <1>7 DEF NextQueued, files, job, InState, Least
  <1>8. CASE LaunchCheck
    BY <1>8 DEF LaunchCheck, Finish, SetState, job, WorkerTypes, JobTypes, Terminal
  <1>9. CASE LaunchFails
    BY <1>9 DEF LaunchFails, Finish, SetState, WorkerTypes, JobTypes, Terminal
  <1>10. CASE SaveRunning
    BY <1>10 DEF SaveRunning, SetState, WorkerTypes, JobTypes
  <1>11. CASE Spawn \/ SavePid \/ StillRunning
    BY <1>11 DEF Spawn, SavePid, StillRunning, files, job
  <1>12. CASE PeekCancel
    BY <1>12 DEF PeekCancel, files, job
  <1>13. CASE Reap
    BY <1>13 DEF Reap, Finish, SetState, WorkerTypes, JobTypes, Terminal
  <1>14. CASE Terminate
    BY <1>14 DEF Terminate, Finish, SetState, WorkerTypes, JobTypes, Terminal
  <1>15. CASE Analyze
    BY <1>15 DEF Analyze, files, job
  <1>16. CASE FollowSubmit
    <2>1. PICK j \in JobId : state[j] = "absent" /\ state' = [state EXCEPT ![j] = "queued"]
      BY <1>16 DEF FollowSubmit, NewJob, Least, InState
    <2>2. state[current] = "succeeded"
      BY <1>16 DEF FollowSubmit, OwesIncrement
    <2>3. state'[current] = "succeeded" /\ ~failed
      BY <1>16, <2>1, <2>2 DEF FollowSubmit, WorkerTypes, JobTypes
    <2> QED
      BY <1>16, <2>3 DEF FollowSubmit
  <1>17. CASE IdleExit \/ Crash \/ Reboot
    BY <1>1, <1>17 DEF IdleExit, Crash, Reboot
  <1>18. CASE FollowNothing \/ FollowMark \/ FollowError
    BY <1>2, <1>18 DEF FollowNothing, FollowMark, FollowError
  <1>19. CASE LaunchError
    BY <1>19 DEF LaunchError, files, job
  <1>20. ASSUME NEW j \in JobId, Submit(j) PROVE ControlMatchesFile'
    <2>1. \A i \in JobId : state[i] # "absent" => state'[i] = state[i]
      BY <1>20, SubmitState DEF JobTypes
    <2> QED
      BY <1>20, <2>1, SubmitState DEF InState, WorkerTypes, Terminal
  <1>21. CASE UNCHANGED control
    BY <1>21 DEF control, InState
  <1> QED
    BY Zenon, <1>3, <1>4, <1>5, <1>6, <1>7, <1>8, <1>9, <1>10, <1>11, <1>12, <1>13, <1>14, <1>15,
       <1>16, <1>17, <1>18, <1>19, <1>20, <1>21, ControlFrame DEF Worker, Faulty

LEMMA OwnerNext == Inductive /\ [Next]_vars => RunningIsOwned'
  <1> SUFFICES ASSUME JobTypes, WorkerTypes, ControlMatchesFile, RunningIsOwned, [Next]_vars
               PROVE  RunningIsOwned'
    BY DEF Inductive, TypeOK
  <1> USE DEF RunningIsOwned, InState
  <1>1. ASSUME WorkerGone, UNCHANGED state PROVE RunningIsOwned'
    BY <1>1 DEF WorkerGone
  <1>2. ASSUME RunJobReturns, UNCHANGED state, pc \in {"follow", "mark"} PROVE RunningIsOwned'
    BY <1>1, <1>2 DEF RunJobReturns
  <1>3. CASE WorkerStart
    BY <1>3 DEF WorkerStart, files, job
  <1>4. CASE RecoverKill
    BY <1>4 DEF RecoverKill, files, job, ControlMatchesFile
  <1>5. CASE RecoverSave
    BY <1>5 DEF RecoverSave, SetState, WorkerTypes, JobTypes, ControlMatchesFile
  <1>6. CASE RecoverDone
    BY <1>6 DEF RecoverDone, files, job, ControlMatchesFile
  <1>7. CASE NextQueued
    BY <1>7 DEF NextQueued, files, job, ControlMatchesFile
  <1>8. CASE LaunchCheck
    BY <1>8 DEF LaunchCheck, Finish, SetState, job, WorkerTypes, JobTypes, ControlMatchesFile
  <1>9. CASE LaunchFails
    BY <1>9 DEF LaunchFails, Finish, SetState, WorkerTypes, JobTypes, ControlMatchesFile
  <1>10. CASE SaveRunning
    BY <1>10 DEF SaveRunning, SetState, WorkerTypes, JobTypes, ControlMatchesFile
  <1>11. CASE Spawn \/ SavePid \/ StillRunning
    BY <1>11 DEF Spawn, SavePid, StillRunning, files, job
  <1>12. CASE PeekCancel
    BY <1>12 DEF PeekCancel, files, job
  <1>13. CASE Reap
    BY <1>13 DEF Reap, Finish, SetState, WorkerTypes, JobTypes, ControlMatchesFile
  <1>14. CASE Terminate
    BY <1>14 DEF Terminate, Finish, SetState, WorkerTypes, JobTypes, ControlMatchesFile
  <1>15. CASE Analyze
    BY <1>15 DEF Analyze, files, job
  <1>16. CASE FollowSubmit
    <2>1. PICK j \in JobId : state[j] = "absent" /\ state' = [state EXCEPT ![j] = "queued"]
      BY <1>16 DEF FollowSubmit, NewJob, Least
    <2>2. state[current] = "succeeded" /\ ~failed
      BY <1>16 DEF FollowSubmit, OwesIncrement, ControlMatchesFile
    <2> QED
      BY <1>16, <2>1, <2>2 DEF FollowSubmit, JobTypes
  <1>17. CASE IdleExit \/ Crash \/ Reboot
    BY <1>1, <1>17 DEF IdleExit, Crash, Reboot, files, job
  <1>18. CASE FollowNothing \/ FollowMark \/ FollowError
    BY <1>2, <1>18 DEF FollowNothing, FollowMark, FollowError, files, job
  <1>19. CASE LaunchError
    BY <1>19 DEF LaunchError, files, job
  <1>20. ASSUME NEW j \in JobId, Submit(j) PROVE RunningIsOwned'
    BY <1>20, SubmitState DEF JobTypes
  <1>21. CASE UNCHANGED control
    BY <1>21 DEF control
  <1> QED
    BY Zenon, <1>3, <1>4, <1>5, <1>6, <1>7, <1>8, <1>9, <1>10, <1>11, <1>12, <1>13, <1>14, <1>15,
       <1>16, <1>17, <1>18, <1>19, <1>20, <1>21, ControlFrame DEF Worker, Faulty

\* What a step does to the state of a job, whoever takes it.
LEMMA StateSteps ==
  ASSUME JobTypes, WorkerTypes, ControlMatchesFile, [Next]_vars, NEW j \in JobId, state'[j] # state[j]
  PROVE  \/ /\ state[j] = "absent" /\ state'[j] = "queued"
            /\ \A i \in JobId : state[i] = "absent" => j <= i
         \/ /\ j = current /\ pc = "requeue" /\ state[j] = "running"
            /\ \/ state'[j] = "queued" /\ resumes'[j] = resumes[j] + 1 
               \/ state'[j] = "failed" /\ resumes'[j] = resumes[j]
         \/ /\ j = current /\ pc = "start" /\ pc' = "spawn" /\ UNCHANGED current
            /\ state[j] = "queued" /\ state'[j] = "running"
         \/ /\ j = current /\ pc \in {"launch", "start", "spawn", "watch", "term"}
            /\ pc' = "analyze" /\ UNCHANGED current
            /\ state[j] \in {"queued", "running"} /\ state'[j] \in Terminal
  <1>1. CASE RecoverSave
    BY <1>1, QueueAssumption DEF RecoverSave, SetState, WorkerTypes, JobTypes, ControlMatchesFile
  <1>2. CASE LaunchCheck
    BY <1>2 DEF LaunchCheck, Finish, SetState, job, WorkerTypes, JobTypes, ControlMatchesFile, Terminal
  <1>3. CASE LaunchFails
    BY <1>3 DEF LaunchFails, Finish, SetState, WorkerTypes, JobTypes, ControlMatchesFile, Terminal
  <1>4. CASE SaveRunning
    BY <1>4 DEF SaveRunning, SetState, WorkerTypes, JobTypes, ControlMatchesFile
  <1>5. CASE Reap
    BY <1>5 DEF Reap, Finish, SetState, WorkerTypes, JobTypes, ControlMatchesFile, Terminal
  <1>6. CASE Terminate
    BY <1>6 DEF Terminate, Finish, SetState, WorkerTypes, JobTypes, ControlMatchesFile, Terminal
  <1>7. CASE FollowSubmit
    BY <1>7 DEF FollowSubmit, NewJob, Least, InState, JobTypes
  <1>8. ASSUME NEW k \in JobId, Submit(k)
        PROVE  /\ state[j] = "absent" /\ state'[j] = "queued"
               /\ \A i \in JobId : state[i] = "absent" => j <= i
    BY <1>8, SubmitState DEF JobTypes
  <1>9. CASE SavePid \/ UNCHANGED job
    BY <1>9 DEF SavePid, job
  <1> QED
    BY Zenon, <1>1, <1>2, <1>3, <1>4, <1>5, <1>6, <1>7, <1>8, <1>9, JobFrame DEF SavesJob

LEMMA EndsOnceStep ==
  Inductive /\ [Next]_vars => \A j \in JobId : state[j] \in Terminal => state'[j] = state[j]
  <1> SUFFICES ASSUME JobTypes, WorkerTypes, ControlMatchesFile, [Next]_vars,
                      NEW j \in JobId, state[j] \in Terminal, state'[j] # state[j]
               PROVE  FALSE
    BY DEF Inductive, TypeOK
  <1> QED
    BY StateSteps DEF Terminal

LEMMA LaunchFrame == [Next]_vars => Spawn \/ UNCHANGED launches
  BY Zenon DEF Next, Worker, Client, Orchestrator, Faulty, vars, history,
     WorkerStart, RecoverKill, RecoverDone, RecoverSave, NextQueued, IdleExit, LaunchCheck, LaunchFails,
     SaveRunning, SavePid, Reap, StillRunning, PeekCancel, Terminate,
     Analyze, FollowNothing, FollowSubmit, FollowMark, Submit, AskCancel, WriteCancel, Split, OrchestratorExit,
     Crash, Reboot, LaunchError, FollowError

LEMMA ResumesFrame == [Next]_vars => RecoverSave \/ UNCHANGED resumes
  <1>1. [Next]_vars /\ UNCHANGED job => UNCHANGED resumes
    BY Zenon DEF job
  <1>2. SavesJob => RecoverSave \/ UNCHANGED resumes
    BY Zenon DEF SavesJob, LaunchCheck, LaunchFails, SaveRunning, SavePid, Reap, Terminate, FollowSubmit,
       Submit, NewJob, Finish, SetState, job
  <1> QED
    BY <1>1, <1>2, JobFrame


\* How the worker comes to each place on the way to a launch.
LEMMA LaunchSteps ==
  ASSUME [Next]_vars
  PROVE  /\ pc' = "spawn" => pc \in {"spawn", "start"} /\ UNCHANGED <<current, launches>>
         /\ pc' = "start" => /\ pc = "start" \/ (pc = "launch" /\ current \notin cancel)
                             /\ UNCHANGED <<current, launches>>
         /\ pc' = "launch" => \/ pc = "launch" /\ UNCHANGED current
                              \/ /\ pc = "poll" /\ UNCHANGED <<state, launches>>
                                 /\ current' \in JobId /\ Least(InState("queued"), current')
  <1> DEFINE P == /\ pc' = "spawn" => pc \in {"spawn", "start"} /\ UNCHANGED <<current, launches>>
                  /\ pc' = "start" => /\ pc = "start" \/ (pc = "launch" /\ current \notin cancel)
                                      /\ UNCHANGED <<current, launches>>
                  /\ pc' = "launch" => \/ pc = "launch" /\ UNCHANGED current
                                       \/ /\ pc = "poll" /\ UNCHANGED <<state, launches>>
                                          /\ current' \in JobId /\ Least(InState("queued"), current')
  <1>1. CASE WorkerStart \/ RecoverKill \/ RecoverSave \/ RecoverDone
    BY <1>1 DEF WorkerStart, RecoverKill, RecoverSave, RecoverDone
  <1>2. CASE NextQueued
    BY <1>2 DEF NextQueued, files, job, history
  <1>3. CASE LaunchCheck \/ LaunchFails \/ SaveRunning
    BY <1>3 DEF LaunchCheck, LaunchFails, SaveRunning, Finish, history
  <1>4. CASE Spawn \/ SavePid \/ Reap \/ StillRunning \/ PeekCancel \/ Terminate \/ Analyze
    BY <1>4 DEF Spawn, SavePid, Reap, StillRunning, PeekCancel, Terminate, Analyze, Finish
  <1>5. CASE IdleExit \/ FollowNothing \/ FollowSubmit \/ FollowMark \/ FollowError
    BY <1>5 DEF IdleExit, FollowNothing, FollowSubmit, FollowMark, FollowError, RunJobReturns, WorkerGone
  <1>6. CASE Crash \/ Reboot \/ LaunchError
    BY <1>6 DEF Crash, Reboot, LaunchError, WorkerGone
  <1>7. CASE Client \/ Orchestrator \/ UNCHANGED vars
    <2>1. UNCHANGED <<pc, current, launches>>
      BY Zenon, <1>7 DEF Client, Orchestrator, Submit, AskCancel, WriteCancel, Split, OrchestratorExit,
         vars, memory, history
    <2> QED
      BY <2>1
  <1> QED
    BY Zenon, <1>1, <1>2, <1>3, <1>4, <1>5, <1>6, <1>7 DEF Next, Worker, Faulty

LEMMA LaunchesNext == Inductive /\ [Next]_vars => LaunchesPaid'
  <1> SUFFICES ASSUME JobTypes, WorkerTypes, CountTypes, ControlMatchesFile, LaunchesPaid, [Next]_vars
               PROVE  LaunchesPaid'
    BY DEF Inductive, TypeOK
  <1>0. \A j \in JobId : resumes[j] \in Nat /\ launches[j] \in Nat
    BY QueueAssumption DEF JobTypes, CountTypes
  <1>1. pc' = "spawn" => launches'[current'] <= resumes'[current']
    <2> SUFFICES ASSUME pc' = "spawn" PROVE launches[current] <= resumes'[current]
      BY LaunchSteps
    <2>1. pc \in {"spawn", "start"}
      BY LaunchSteps
    <2>2. UNCHANGED resumes
      BY <2>1, ResumesFrame DEF RecoverSave
    <2>3. launches[current] <= resumes[current]
      BY <2>1, <1>0 DEF LaunchesPaid, ControlMatchesFile, WorkerTypes
    <2> QED
      BY <2>2, <2>3
  <1>2. ASSUME NEW j \in JobId
        PROVE  launches'[j] <= resumes'[j] + (IF state'[j] \in {"absent", "queued"} THEN 0 ELSE 1)
    <2>1. launches[j] <= resumes[j] + (IF state[j] \in {"absent", "queued"} THEN 0 ELSE 1)
      BY DEF LaunchesPaid
    <2>2. CASE Spawn
      <3>1. UNCHANGED <<state, resumes>>
        BY <2>2 DEF Spawn, files, job
      <3>2. CASE j = current
        <4>1. launches'[j] = launches[j] + 1
          BY <2>2, <3>2 DEF Spawn, CountTypes
        <4>2. launches[j] <= resumes[j] /\ state[j] = "running"
          BY <2>2, <3>2 DEF Spawn, LaunchesPaid, ControlMatchesFile
        <4> QED
          BY <3>1, <4>1, <4>2, <1>0
      <3>3. CASE j # current
        BY <2>1, <2>2, <3>1, <3>3 DEF Spawn, CountTypes
      <3> QED
        BY <3>2, <3>3
    <2>3. CASE UNCHANGED launches /\ state'[j] = state[j]
      <3>1. resumes'[j] >= resumes[j]
        BY <1>0, ResumesFrame DEF RecoverSave, SetState, JobTypes, WorkerTypes
      <3>2. resumes'[j] \in Nat
        BY <1>0, ResumesFrame DEF RecoverSave, SetState, JobTypes, WorkerTypes
      <3> QED
        BY <2>1, <2>3, <3>1, <3>2, <1>0
    <2>4. CASE UNCHANGED launches /\ state'[j] # state[j]
      <3>1. CASE j = current /\ pc = "requeue"
        BY <1>0, <2>1, <2>4, <3>1, StateSteps DEF Terminal, ControlMatchesFile
      <3>2. CASE ~(j = current /\ pc = "requeue")
        <4>1. resumes'[j] = resumes[j]
          BY <3>2, ResumesFrame DEF RecoverSave, SetState, JobTypes, WorkerTypes
        <4> QED
          BY <1>0, <2>1, <2>4, <3>2, <4>1, StateSteps DEF Terminal
      <3> QED
        BY <3>1, <3>2
    <2> QED
      BY <2>2, <2>3, <2>4, LaunchFrame
  <1> QED
    BY <1>1, <1>2 DEF LaunchesPaid

LEMMA CancelNext == Inductive /\ [Next]_vars => CancelAccounted'
  <1> SUFFICES ASSUME MarkerTypes, WorkerTypes, CountTypes, CancelAccounted, [Next]_vars
               PROVE  CancelAccounted'
    BY DEF Inductive, TypeOK
  <1> USE DEF CancelAccounted, CancelStopsRelaunch
  <1>1. CASE Spawn
    BY <1>1 DEF Spawn, files, WorkerTypes, MarkerTypes, CountTypes
  <1>2. ASSUME NEW j \in JobId, WriteCancel(j) PROVE CancelAccounted'
    <2>1. UNCHANGED <<launches, pc, current>> /\ cancel' = cancel \cup {j}
      BY <1>2 DEF WriteCancel, memory
    <2>2. \A i \in JobId : i \in cancel => atCancel'[i] = atCancel[i]
      BY <1>2 DEF WriteCancel, CountTypes
    <2>3. j \notin cancel => atCancel'[j] = launches[j]
      BY <1>2 DEF WriteCancel, CountTypes
    <2> QED
      BY <2>1, <2>2, <2>3 DEF MarkerTypes, CountTypes, WorkerTypes
  <1>3. CASE UNCHANGED <<cancel, launches, atCancel>>
    BY <1>3, LaunchSteps
  <1>4. Spawn \/ (\E j \in JobId : WriteCancel(j)) \/ UNCHANGED <<cancel, launches, atCancel>>
    <2>1. Spawn \/ (\E j \in JobId : WriteCancel(j)) \/ UNCHANGED <<launches, atCancel>>
      BY CountFrame DEF Faulty, Crash, Reboot, LaunchError, FollowError
    <2>2. (\E j \in JobId : WriteCancel(j)) \/ UNCHANGED cancel
      BY MarkerFrame DEF AskCancel, Reboot, files
    <2> QED
      BY <2>1, <2>2
  <1> QED
    BY <1>1, <1>2, <1>3, <1>4

LEMMA OrderNext == Inductive /\ [Next]_vars => OrderAccounted'
  <1> SUFFICES ASSUME JobTypes, WorkerTypes, CountTypes, ControlMatchesFile, RunningIsOwned, OrderAccounted,
                      [Next]_vars, \A j \in JobId : state[j] \in Terminal => state'[j] = state[j]
               PROVE  OrderAccounted'
    BY EndsOnceStep DEF Inductive, TypeOK
  <1>0. \A j \in JobId : j \in Nat
    BY QueueAssumption DEF JobId
  <1>1. ASSUME NEW i \in JobId, NEW j \in JobId, i < j, state'[j] \notin {"absent", "queued"} \/ launches'[j] > 0
        PROVE  state'[i] \in Terminal
    <2>1. CASE state[j] \notin {"absent", "queued"} \/ launches[j] > 0
      BY <1>1, <2>1 DEF OrderAccounted, InIdOrder
    <2>2. CASE state[j] \in {"absent", "queued"} /\ state'[j] # state[j]
      <3>1. CASE state'[j] = "queued"
        <4>1. launches'[j] > 0 /\ ~Spawn
          BY <1>1, <2>2, <3>1 DEF Spawn, files, job
        <4> QED
          BY <1>1, <2>1, <4>1, LaunchFrame
      <3>2. CASE state'[j] # "queued"
        <4>1. j = current /\ pc \in {"launch", "start"}
          BY <2>2, <3>2, StateSteps DEF ControlMatchesFile
        <4> QED
          BY <1>1, <4>1 DEF OrderAccounted
      <3> QED
        BY <3>1, <3>2
    <2>3. CASE state[j] \in {"absent", "queued"} /\ launches'[j] # launches[j]
      BY <2>3, LaunchFrame DEF Spawn, ControlMatchesFile, CountTypes, WorkerTypes
    <2> QED
      BY <1>1, <2>1, <2>2, <2>3
  <1>2. ASSUME NEW i \in JobId, NEW j \in JobId, i < j, state'[i] = "absent" PROVE state'[j] = "absent"
    <2>1. state[i] = "absent"
      BY <1>2, StateSteps DEF Terminal
    <2>2. state[j] = "absent"
      BY <1>2, <2>1 DEF OrderAccounted
    <2> QED
      BY <1>0, <1>2, <2>1, <2>2, StateSteps DEF Terminal
  <1>3. ASSUME pc' \in {"launch", "start"}, NEW i \in JobId, i < current' PROVE state'[i] \in Terminal
    <2>1. CASE pc \in {"launch", "start"} /\ UNCHANGED current
      BY <1>3, <2>1 DEF OrderAccounted
    <2>2. CASE pc = "poll" /\ UNCHANGED state /\ current' \in JobId /\ Least(InState("queued"), current')
      <3>1. state[current'] = "queued" /\ state[i] # "queued"
        BY <1>0, <1>3, <2>2 DEF Least, InState
      <3>2. state[i] # "absent"
        BY <1>3, <2>2, <3>1 DEF OrderAccounted
      <3>3. state[i] # "running"
        BY <2>2 DEF RunningIsOwned, ControlMatchesFile, InState
      <3> QED
        BY <2>2, <3>1, <3>2, <3>3 DEF JobTypes, State
    <2> QED
      BY <1>3, <2>1, <2>2, LaunchSteps
  <1> QED
    BY <1>1, <1>2, <1>3 DEF OrderAccounted, InIdOrder

\* What the processes of the queue depend on.
processes == <<state, pid, live, lost, pc, current, child, exit, launches>>

LEMMA ProcessesFrame ==
  [Next]_vars => Worker \/ Faulty \/ (\E j \in JobId : Submit(j))
                  \/ (\E j \in JobId : \E p \in live[j] : OrchestratorExit(j, p)) \/ UNCHANGED processes
  BY Zenon DEF processes, Next, Client, Orchestrator, vars, files, job, memory, history, AskCancel, WriteCancel, Split

LEMMA PidNext == Inductive /\ [Next]_vars => PidMatchesProcess'
  <1> SUFFICES ASSUME JobTypes, WorkerTypes, CountTypes, ProcessTypes, ControlMatchesFile,
                      PidMatchesProcess, [Next]_vars
               PROVE  PidMatchesProcess'
    BY DEF Inductive, TypeOK
  <1> USE DEF PidMatchesProcess, Tracked
  <1>1. ASSUME WorkerGone, LoseUnrecorded, UNCHANGED <<state, pid, live, launches>>
        PROVE  PidMatchesProcess'
    <2>1. \A j \in JobId : lost'[j] = IF pc = "record" /\ j = current THEN lost[j] \cup {child} ELSE lost[j]
      BY <1>1 DEF LoseUnrecorded, ProcessTypes
    <2>2. pc' = "down"
      BY <1>1 DEF WorkerGone
    <2> QED
      BY <1>1, <2>1, <2>2
  <1>2. ASSUME WorkerGone, UNCHANGED <<state, pid, live, lost, launches>>, pc # "record"
        PROVE  PidMatchesProcess'
    BY <1>2 DEF WorkerGone
  <1>3. ASSUME RunJobReturns, UNCHANGED <<state, pid, live, lost, launches>>, pc \in {"follow", "mark"}
        PROVE  PidMatchesProcess'
    BY <1>2, <1>3 DEF RunJobReturns
  <1>4. CASE WorkerStart \/ RecoverDone
    BY <1>4 DEF WorkerStart, RecoverDone, files, job, history
  <1>5. CASE RecoverKill
    <2>1. PICK j \in JobId : current' = j /\ live' = [live EXCEPT ![j] = @ \ {pid[j]}]
      BY <1>5 DEF RecoverKill
    <2>2. \A i \in JobId : live'[i] = IF i = j THEN live[i] \ {pid[i]} ELSE live[i]
      BY <2>1 DEF ProcessTypes
    <2>3. UNCHANGED <<state, pid, lost, launches>> /\ pc = "recover" /\ pc' = "requeue"
      BY <1>5 DEF RecoverKill, files, job, history
    <2> QED
      BY <2>1, <2>2, <2>3
  <1>6. CASE RecoverSave
    <2>1. UNCHANGED <<live, lost, launches, current>> /\ pc = "requeue" /\ pc' = "recover"
      BY <1>6 DEF RecoverSave, history
    <2>2. \A j \in JobId : j # current => state'[j] = state[j] /\ pid'[j] = pid[j]
      BY <1>6 DEF RecoverSave, SetState, JobTypes
    <2> QED
      BY <2>1, <2>2 DEF WorkerTypes
  <1>7. CASE NextQueued
    BY <1>7 DEF NextQueued, files, job, history
  <1>8. CASE IdleExit
    BY <1>2, <1>8 DEF IdleExit, files, job, history
  <1>9. CASE LaunchCheck \/ LaunchFails
    <2>1. /\ UNCHANGED <<pid, live, lost, launches, current>>
          /\ pc \in {"launch", "start", "spawn"} /\ pc' \in {"start", "analyze"}
      BY <1>9 DEF LaunchCheck, LaunchFails, Finish, SetState, job, history
    <2>2. \A j \in JobId : j # current => state'[j] = state[j]
      BY <1>9 DEF LaunchCheck, LaunchFails, Finish, SetState, job, JobTypes
    <2>3. Tracked(current) = {}
      BY <2>1 DEF ControlMatchesFile, WorkerTypes
    <2> QED
      BY <2>1, <2>2, <2>3
  <1>10. CASE SaveRunning
    <2>1. UNCHANGED <<pid, live, lost, launches, current>> /\ pc = "start" /\ pc' = "spawn"
      BY <1>10 DEF SaveRunning, SetState, history
    <2>2. \A j \in JobId : j # current => state'[j] = state[j]
      BY <1>10 DEF SaveRunning, SetState, JobTypes
    <2>3. Tracked(current) = {}
      BY <2>1 DEF ControlMatchesFile, WorkerTypes
    <2> QED
      BY <2>1, <2>2, <2>3
  <1>11. CASE Spawn
    <2>1. /\ UNCHANGED <<state, pid, lost, current>> /\ pc = "spawn" /\ pc' = "record"
          /\ child' = launches[current] + 1 /\ exit' = "alive"
      BY <1>11 DEF Spawn, files, job
    <2>2. \A j \in JobId : /\ launches'[j] = IF j = current THEN launches[j] + 1 ELSE launches[j]
                           /\ live'[j] = IF j = current THEN live[j] \cup {child'} ELSE live[j]
      BY <1>11 DEF Spawn, ProcessTypes, CountTypes
    <2>3. state[current] = "running" /\ Tracked(current) = {}
      BY <2>1 DEF ControlMatchesFile
    <2>4. \A j \in JobId : launches[j] \in Nat /\ live[j] \subseteq Nat /\ lost[j] \subseteq Nat
      BY DEF CountTypes, ProcessTypes
    <2>5. child' \notin live[current] \cup lost[current]
      BY <2>1, <2>4 DEF WorkerTypes
    <2>6. ASSUME NEW j \in JobId PROVE \A p \in live'[j] \cup lost'[j] : p <= launches'[j]
      <3>1. \A p \in live[j] \cup lost[j] : p \in Nat /\ p <= launches[j]
        BY <2>4
      <3>2. launches[j] \in Nat /\ lost'[j] = lost[j]
        BY <2>1, <2>4
      <3>3. CASE j = current
        <4>1. launches'[j] = launches[j] + 1 /\ live'[j] = live[j] \cup {launches[j] + 1}
          BY <1>11, <3>3 DEF Spawn, ProcessTypes, CountTypes
        <4> HIDE DEF PidMatchesProcess
        <4> QED
          BY <3>1, <3>2, <4>1
      <3>4. CASE j # current
        BY <2>2, <3>1, <3>2, <3>4
      <3> QED
        BY <3>3, <3>4
    <2>7. ASSUME NEW j \in JobId, NEW p \in Tracked(j)'
          PROVE  state'[j] = "running" /\ p = IF j = current THEN child' ELSE pid'[j]
      <3>1. CASE j = current
        BY <2>1, <2>2, <2>3, <2>7, <3>1
      <3>2. CASE j # current
        BY <2>1, <2>2, <2>7, <3>2
      <3> QED
        BY <3>1, <3>2
    <2>8. child' <= launches'[current]
      <3>1. launches'[current] = launches[current] + 1 /\ launches[current] + 1 \in Nat
        BY <1>11 DEF Spawn, CountTypes, WorkerTypes
      <3> HIDE DEF PidMatchesProcess
      <3> QED
        BY <2>1, <3>1
    <2> QED
      BY <2>1, <2>6, <2>7, <2>8
  <1>12. CASE SavePid
    <2>1. /\ UNCHANGED <<state, live, lost, launches, current, child, exit>> /\ pc = "record" /\ pc' = "watch"
      BY <1>12 DEF SavePid, history
    <2>2. \A j \in JobId : pid'[j] = IF j = current THEN child ELSE pid[j]
      BY <1>12 DEF SavePid, JobTypes
    <2> QED
      BY <2>1, <2>2 DEF WorkerTypes
  <1>13. CASE StillRunning \/ PeekCancel
    BY <1>13 DEF StillRunning, PeekCancel, files, job, history
  <1>14. CASE Reap
    <2>1. /\ UNCHANGED <<pid, live, lost, launches, current>> /\ pc = "watch" /\ pc' = "analyze" /\ exit # "alive"
      BY <1>14 DEF Reap, Finish, SetState, history
    <2>2. \A j \in JobId : j # current => state'[j] = state[j]
      BY <1>14 DEF Reap, Finish, SetState, JobTypes
    <2> QED
      BY <2>1, <2>2 DEF WorkerTypes
  <1>15. CASE Terminate
    <2>1. UNCHANGED <<pid, lost, launches, current>> /\ pc = "term" /\ pc' = "analyze"
      BY <1>15 DEF Terminate, Finish, SetState, history
    <2>2. \A j \in JobId : /\ j # current => state'[j] = state[j]
                           /\ live'[j] = IF j = current THEN live[j] \ {child} ELSE live[j]
      BY <1>15 DEF Terminate, Finish, SetState, JobTypes, ProcessTypes
    <2>3. \A p \in Tracked(current) : p = child
      BY <2>1 DEF WorkerTypes
    <2>4. ASSUME NEW j \in JobId, NEW p \in Tracked(j)' PROVE j # current /\ p \in Tracked(j)
      BY <2>1, <2>2, <2>3, <2>4
    <2>5. \A j \in JobId : \A p \in live'[j] \cup lost'[j] : p <= launches'[j]
      BY <2>1, <2>2
    <2> QED
      BY <2>1, <2>2, <2>4, <2>5
  <1>16. CASE Analyze
    BY <1>16 DEF Analyze, files, job, history
  <1>17. CASE FollowNothing \/ FollowMark \/ FollowError
    BY <1>3, <1>17 DEF FollowNothing, FollowMark, FollowError, files, job, history
  <1>18. CASE FollowSubmit
    <2>1. /\ UNCHANGED <<pid, live, lost, launches, current>> /\ pc = "follow" /\ pc' = "mark"
      BY <1>18 DEF FollowSubmit, NewJob, history
    <2>2. \A j \in JobId : state[j] # "absent" => state'[j] = state[j]
      BY <1>18 DEF FollowSubmit, NewJob, Least, InState, JobTypes
    <2> QED
      BY <2>1, <2>2
  <1>19. CASE Crash
    BY <1>1, <1>19 DEF Crash, files, job
  <1>20. CASE Reboot
    <2>1. UNCHANGED <<state, pid, launches>> /\ pc' = "down" /\ \A j \in JobId : live'[j] = {}
      BY <1>20 DEF Reboot, WorkerGone, files, job
    <2>2. \A j \in JobId : lost'[j] = IF pc = "record" /\ j = current THEN lost[j] \cup {child} ELSE lost[j]
      BY <1>20 DEF Reboot, LoseUnrecorded, ProcessTypes
    <2> QED
      BY <2>1, <2>2
  <1>21. CASE LaunchError
    <2>1. UNCHANGED <<state, pid, live, launches, current>> /\ pc' = "analyze"
      BY <1>21 DEF LaunchError, files, job
    <2>2. \A j \in JobId : lost'[j] = IF pc = "record" /\ j = current THEN lost[j] \cup {child} ELSE lost[j]
      BY <1>21 DEF LaunchError, LoseUnrecorded, ProcessTypes
    <2> QED
      BY <2>1, <2>2
  <1>22. ASSUME NEW j \in JobId, Submit(j) PROVE PidMatchesProcess'
    <2>1. \A i \in JobId : state[i] # "absent" => state'[i] = state[i]
      BY <1>22, SubmitState DEF JobTypes
    <2> QED
      BY <1>22, <2>1, SubmitState
  <1>23. ASSUME NEW j \in JobId, NEW p \in live[j], OrchestratorExit(j, p) PROVE PidMatchesProcess'
    <2>1. UNCHANGED <<state, pid, lost, launches, pc, current, child>>
      BY <1>23 DEF OrchestratorExit, files, job, history
    <2>2. \A i \in JobId : live'[i] = IF i = j THEN live[i] \ {p} ELSE live[i]
      BY <1>23 DEF OrchestratorExit, ProcessTypes
    <2>3. exit' # "alive" => exit # "alive" \/ (j = current /\ p = child)
      BY <1>23 DEF OrchestratorExit
    <2> QED
      BY <2>1, <2>2, <2>3 DEF WorkerTypes
  <1>24. CASE UNCHANGED processes
    BY <1>24 DEF processes
  <1> QED
    BY Zenon, <1>4, <1>5, <1>6, <1>7, <1>8, <1>9, <1>10, <1>11, <1>12, <1>13, <1>14, <1>15, <1>16, <1>17,
       <1>18, <1>19, <1>20, <1>21, <1>22, <1>23, <1>24, ProcessesFrame DEF Worker, Faulty

LEMMA InductiveInit == Init => Inductive
  <1> SUFFICES ASSUME Init PROVE Inductive
    OBVIOUS
  <1>1. ControlMatchesFile
    BY DEF Init, ControlMatchesFile
  <1>2. RunningIsOwned
    BY DEF Init, RunningIsOwned, InState
  <1>3. PidMatchesProcess
    BY DEF Init, PidMatchesProcess, Tracked
  <1>4. LaunchesPaid
    BY DEF Init, LaunchesPaid
  <1>5. CancelAccounted
    BY DEF Init, CancelAccounted, CancelStopsRelaunch
  <1>6. OrderAccounted
    BY DEF Init, OrderAccounted, InIdOrder
  <1> QED
    BY TypeInit, <1>1, <1>2, <1>3, <1>4, <1>5, <1>6 DEF Inductive

LEMMA InductiveNext == Inductive /\ [Next]_vars => Inductive'
  <1>1. Inductive /\ [Next]_vars => TypeOK'
    BY JobTypesNext, SeriesTypesNext, MarkerTypesNext, ProcessTypesNext, WorkerTypesNext, CountTypesNext
    DEF Inductive, TypeOK
  <1> QED
    BY <1>1, ControlNext, OwnerNext, PidNext, LaunchesNext, CancelNext, OrderNext DEF Inductive

LEMMA Invariance == Spec => []Inductive
  BY InductiveInit, InductiveNext, PTL DEF Spec

-----------------------------------------------------------------------------
(* What the queue guarantees *)

\* worker.rs: a job that dies every time is spawned MAX_RESUMES + 1 times at most, because each
\* spawn follows a save that counted the resume it is part of.
THEOREM CrashLoopIsBounded == Spec => []CrashLoopBounded
  <1>1. Inductive => CrashLoopBounded
    <2> SUFFICES ASSUME JobTypes, CountTypes, LaunchesPaid, NEW j \in JobId
                 PROVE  launches[j] <= MaxResumes + 1
      BY DEF Inductive, TypeOK, CrashLoopBounded
    <2>1. resumes[j] \in 0..MaxResumes /\ launches[j] \in Nat
      BY DEF JobTypes, CountTypes
    <2>2. launches[j] <= resumes[j] + 1
      BY <2>1, QueueAssumption DEF LaunchesPaid
    <2> QED
      BY <2>1, <2>2, QueueAssumption
  <1> QED
    BY <1>1, Invariance, PTL

\* worker.rs, launch_job and recover_orphans: of the orchestrators whose pid the worker holds or
\* has saved, one is alive at most, over all jobs and whatever crashed.
THEOREM OneOrchestrator == Spec => []OneTrackedOrchestrator
  <1>1. Inductive => OneTrackedOrchestrator
    <2> SUFFICES ASSUME RunningIsOwned, PidMatchesProcess, NEW i \in JobId, NEW j \in JobId,
                        NEW p \in Tracked(i), NEW q \in Tracked(j)
                 PROVE  i = j /\ p = q
      BY DEF Inductive, OneTrackedOrchestrator
    <2>1. state[i] = "running" /\ state[j] = "running"
      BY DEF PidMatchesProcess
    <2>2. i = j
      BY <2>1 DEF RunningIsOwned, InState
    <2> QED
      BY <2>2 DEF PidMatchesProcess
  <1> QED
    BY <1>1, Invariance, PTL

\* worker.rs, terminate and recover_orphans: when the file no longer says running, the
\* orchestrator it named is dead.
THEOREM EndedIsDead == Spec => []EndedMeansDead
  <1>1. Inductive => EndedMeansDead
    BY DEF Inductive, EndedMeansDead, PidMatchesProcess
  <1> QED
    BY <1>1, Invariance, PTL

\* worker.rs, serve and recover_orphans: a resumed job keeps its place, no later id overtakes it.
THEOREM JobsRunInIdOrder == Spec => []InIdOrder
  <1>1. Inductive => InIdOrder
    BY DEF Inductive, OrderAccounted
  <1> QED
    BY <1>1, Invariance, PTL

\* worker.rs, launch_job: one launch at most follows the first write of a cancel marker.
THEOREM CancelledIsNotRelaunched == Spec => []CancelStopsRelaunch
  <1>1. Inductive => CancelStopsRelaunch
    BY DEF Inductive, CancelAccounted
  <1> QED
    BY <1>1, Invariance, PTL

\* worker.rs: neither recovery nor a late save moves a job out of a final state.
THEOREM JobsEndOnce == Spec => EndsOnce
  <1>1. Inductive /\ [Next]_vars => [\A j \in JobId : state[j] \in Terminal => state'[j] = state[j]]_vars
    BY EndsOnceStep
  <1> QED
    BY <1>1, Invariance, PTL DEF Spec, EndsOnce

-----------------------------------------------------------------------------
(* A series is built in order, if no workspace is used twice *)

\* v is the workspace whose success the link of workspace w was made after.
Precedes(v, w) ==
  IF chain[w].index = 1 THEN v = chain[w].root ELSE chain[v] = [chain[w] EXCEPT !.index = @ - 1]

\* If every job has a workspace of its own: the next link is made right after the success it
\* needs, and never when follow_up runs again, since a job ends once.
SeriesAccounted ==
  /\ \A j \in JobId : ws[j] = j
  /\ \A w \in Workspace : state[w] = "absent" => chain[w] = NoChain
  /\ \A w \in Workspace : chain[w] # NoChain =>
       /\ chain[w].root \in Workspace /\ chain[w].index >= 1
       /\ handoff[chain[w].root] > 0 /\ chain[w].total = handoff[chain[w].root]
       /\ \E v \in Workspace : Precedes(v, w) /\ state[v] = "succeeded"
  /\ IncrementsOnce
  /\ pc \in {"analyze", "follow"} => \A w \in Workspace : chain[w] # NoChain => ~Precedes(current, w)

\* The steps by which the files of the series and the jobs named in them change.
SeriesFiles == <<ws, handoff, chain>>

LEMMA WorkspaceFrame ==
  [Next]_vars => FollowSubmit \/ (\E j \in JobId : Submit(j) \/ Split(j)) \/ UNCHANGED SeriesFiles
  BY Zenon DEF SeriesFiles, Next, Worker, Client, Orchestrator, Faulty, vars, files, job, memory, history, SetState, Finish,
     WorkerStart, RecoverKill, RecoverDone, RecoverSave, NextQueued, IdleExit, LaunchCheck, LaunchFails,
     SaveRunning, Spawn, SavePid, Reap, StillRunning, PeekCancel, Terminate,
     Analyze, FollowNothing, FollowMark, AskCancel, WriteCancel, OrchestratorExit, Crash,
     Reboot, LaunchError, FollowError

LEMMA OwnWorkspace ==
  ASSUME ~ReuseWorkspace, JobTypes, \A i \in JobId : ws[i] = i, [Next]_vars
  PROVE  \A i \in JobId : ws'[i] = i
  <1>1. ASSUME NEW j \in JobId, Submit(j) PROVE \A i \in JobId : ws'[i] = i
    <2>1. NewJob(j, j)
      BY <1>1 DEF Submit
    <2> QED
      BY <2>1 DEF NewJob, JobTypes
  <1>2. CASE FollowSubmit
    BY <1>2 DEF FollowSubmit, NewJob, JobTypes
  <1>3. ASSUME NEW j \in JobId, Split(j) PROVE \A i \in JobId : ws'[i] = i
    BY <1>3 DEF Split, job
  <1>4. CASE UNCHANGED SeriesFiles
    BY <1>4 DEF SeriesFiles
  <1> QED
    BY <1>1, <1>2, <1>3, <1>4, WorkspaceFrame

\* What a link says is a link's: its root is a workspace and its index is not zero.
LEMMA LinkParts ==
  ASSUME SeriesTypes, NEW w \in Workspace
  PROVE  /\ chain[w].root \in 0..MaxJobs /\ chain[w].index \in Nat /\ chain[w].total \in Nat
         /\ chain[w] = [root |-> chain[w].root, index |-> chain[w].index, total |-> chain[w].total]
  <1>1. chain[w] \in [root : 0..MaxJobs, index : Nat, total : Nat]
    BY DEF SeriesTypes, Link
  <1> QED
    BY <1>1

\* What "made after" says of the two links, field by field.
LEMMA PrecedesParts ==
  ASSUME SeriesTypes, NEW v \in Workspace, NEW w \in Workspace
  PROVE  Precedes(v, w) <=>
           IF chain[w].index = 1 THEN v = chain[w].root
           ELSE chain[v].root = chain[w].root /\ chain[v].total = chain[w].total /\ chain[v].index = chain[w].index - 1
  <1>1. PICK c : c = chain[w]
    OBVIOUS
  <1>2. PICK d : d = chain[v]
    OBVIOUS
  <1>3. c \in [root : 0..MaxJobs, index : Nat, total : Nat] /\ d \in [root : 0..MaxJobs, index : Nat, total : Nat]
    BY <1>1, <1>2 DEF SeriesTypes, Link
  <1>4. d = [c EXCEPT !.index = @ - 1] <=> d.root = c.root /\ d.total = c.total /\ d.index = c.index - 1
    BY <1>3
  <1> QED
    BY <1>1, <1>2, <1>4 DEF Precedes

\* A workspace has one predecessor, so whatever precedes a link has succeeded.
LEMMA PrecededSucceeded ==
  ASSUME SeriesTypes, SeriesAccounted, NEW v \in Workspace, NEW w \in Workspace,
         chain[w] # NoChain, Precedes(v, w)
  PROVE  state[v] = "succeeded"
  <1>1. PICK u \in Workspace : Precedes(u, w) /\ state[u] = "succeeded"
    BY DEF SeriesAccounted
  <1>2. CASE chain[w].index = 1
    BY <1>1, <1>2 DEF Precedes
  <1>3. CASE chain[w].index # 1
    <2>1. chain[u] = chain[v]
      BY <1>1, <1>3 DEF Precedes
    <2>2. chain[v].root = chain[w].root
      BY <1>3, PrecedesParts
    <2>3. chain[w].root # 0
      BY QueueAssumption DEF SeriesAccounted, Workspace, JobId
    <2>4. chain[v] # NoChain
      BY <2>2, <2>3 DEF NoChain
    <2>5. u = v
      BY <2>1, <2>4 DEF SeriesAccounted, IncrementsOnce
    <2> QED
      BY <1>1, <2>5
  <1> QED
    BY <1>2, <1>3

\* Every step but the follow-up's leaves the links alone, and with them what precedes what.
LEMMA LinksKept ==
  ASSUME ~ReuseWorkspace, Inductive, SeriesAccounted, [Next]_vars, UNCHANGED chain,
         \A w \in Workspace : handoff[w] > 0 => handoff'[w] = handoff[w],
         pc' \in {"analyze", "follow"} =>
           \A w \in Workspace : chain[w] # NoChain => ~Precedes(current', w)
  PROVE  SeriesAccounted'
  <1> USE DEF Workspace
  <1>1. \A i \in JobId : ws'[i] = i
    BY OwnWorkspace DEF Inductive, TypeOK, SeriesAccounted
  <1>2. \A i \in JobId : state'[i] = "absent" => state[i] = "absent"
    <2> SUFFICES ASSUME NEW i \in JobId, state'[i] = "absent", state[i] # "absent" PROVE FALSE
      OBVIOUS
    <2> QED
      BY StateSteps DEF Inductive, TypeOK, Terminal
  <1>3. \A v \in JobId : state[v] = "succeeded" => state'[v] = "succeeded"
    BY EndsOnceStep DEF Terminal
  <1>4. \A v, w \in JobId : Precedes(v, w)' <=> Precedes(v, w)
    BY DEF Precedes
  <1>5. ASSUME NEW w \in JobId, chain[w] # NoChain
        PROVE  /\ chain[w].root \in JobId /\ chain[w].index >= 1
               /\ handoff'[chain[w].root] > 0 /\ chain[w].total = handoff'[chain[w].root]
               /\ \E v \in JobId : Precedes(v, w)' /\ state'[v] = "succeeded"
    <2>1. /\ chain[w].root \in JobId /\ chain[w].index >= 1
          /\ handoff[chain[w].root] > 0 /\ chain[w].total = handoff[chain[w].root]
      BY <1>5 DEF SeriesAccounted
    <2>2. PICK v \in JobId : Precedes(v, w) /\ state[v] = "succeeded"
      BY <1>5 DEF SeriesAccounted
    <2>3. Precedes(v, w)' /\ state'[v] = "succeeded"
      BY <2>2, <1>3, <1>4
    <2> QED
      BY <2>1, <2>3
  <1>6. IncrementsOnce'
    BY DEF SeriesAccounted, IncrementsOnce
  <1>7. \A w \in JobId : state'[w] = "absent" => chain'[w] = NoChain
    BY <1>2 DEF SeriesAccounted
  <1>8. pc' \in {"analyze", "follow"} => \A w \in JobId : chain[w] # NoChain => ~Precedes(current', w)
    OBVIOUS
  <1>9. ASSUME pc' \in {"analyze", "follow"}, NEW w \in JobId, chain'[w] # NoChain
        PROVE  ~Precedes(current, w)'
    BY <1>8, <1>9 DEF Precedes
  <1> QED
    BY <1>1, <1>5, <1>6, <1>7, <1>9 DEF SeriesAccounted

\* How the worker comes to the follow-up: with a job that had not ended before this launch.
LEMMA ToFollow ==
  ASSUME Inductive, [Next]_vars, pc' \in {"analyze", "follow"}
  PROVE  UNCHANGED current /\ (pc \in {"analyze", "follow"} \/ state[current] \in {"queued", "running"})
  <1> USE DEF Inductive, TypeOK, ControlMatchesFile
  <1>1. ASSUME WorkerGone PROVE FALSE
    BY <1>1 DEF WorkerGone
  <1>2. CASE LaunchCheck \/ LaunchFails \/ Reap \/ Terminate \/ LaunchError
    BY <1>2 DEF LaunchCheck, LaunchFails, Reap, Terminate, LaunchError
  <1>3. CASE Analyze
    BY <1>3 DEF Analyze
  <1>4. CASE WorkerStart \/ RecoverKill \/ RecoverSave \/ RecoverDone \/ NextQueued \/ SaveRunning \/ Spawn \/ SavePid
    BY <1>4 DEF WorkerStart, RecoverKill, RecoverSave, RecoverDone, NextQueued, SaveRunning, Spawn, SavePid
  <1>5. CASE StillRunning \/ PeekCancel \/ FollowSubmit
    BY <1>5 DEF StillRunning, PeekCancel, FollowSubmit
  <1>6. CASE IdleExit \/ Crash \/ Reboot
    BY <1>1, <1>6 DEF IdleExit, Crash, Reboot
  <1>7. CASE FollowNothing \/ FollowMark \/ FollowError
    BY <1>1, <1>7 DEF FollowNothing, FollowMark, FollowError, RunJobReturns
  <1>8. ASSUME NEW j \in JobId, Submit(j) PROVE UNCHANGED <<pc, current>>
    BY <1>8 DEF Submit, memory
  <1>9. CASE UNCHANGED control
    BY <1>9 DEF control
  <1>10. CASE UNCHANGED <<pc, current>>
    BY <1>10
  <1> QED
    BY Zenon, <1>2, <1>3, <1>4, <1>5, <1>6, <1>7, <1>8, <1>9, <1>10, ControlFrame DEF Worker, Faulty, control

\* When the worker comes to the follow-up, nothing has been made after this job yet.
LEMMA NothingFollows ==
  ASSUME Inductive, SeriesAccounted, [Next]_vars, pc' \in {"analyze", "follow"},
         NEW w \in Workspace, chain[w] # NoChain
  PROVE  ~Precedes(current', w)
  <1>1. UNCHANGED current /\ current \in Workspace
    BY ToFollow DEF Inductive, TypeOK, WorkerTypes, Workspace
  <1>2. CASE pc \in {"analyze", "follow"}
    BY <1>1, <1>2 DEF SeriesAccounted
  <1>3. CASE state[current] \in {"queued", "running"}
    <2>1. ~Precedes(current, w)
      BY <1>1, <1>3, PrecededSucceeded DEF Inductive, TypeOK
    <2> QED
      BY <1>1, <2>1
  <1> QED
    BY <1>2, <1>3, ToFollow

\* The new link, field by field: the next of the series, or the first of a split.
LEMMA NextLinkParts ==
  ASSUME SeriesTypes, NEW c \in Workspace, NEW k, k = NextLink(c)
  PROVE  /\ chain[c] # NoChain => /\ k.root = chain[c].root /\ k.total = chain[c].total
                                  /\ k.index = chain[c].index + 1
         /\ chain[c] = NoChain => k.root = c /\ k.index = 1 /\ k.total = handoff[c]
  <1>1. chain[c] \in [root : 0..MaxJobs, index : Nat, total : Nat]
    BY DEF SeriesTypes, Link
  <1> QED
    BY <1>1 DEF NextLink

\* follow_up adds the link the series lacks, after a success, and adds it once.
LEMMA FollowKeepsSeries ==
  ASSUME ~ReuseWorkspace, Inductive, SeriesAccounted, FollowSubmit, [Next]_vars
  PROVE  SeriesAccounted'
  <1>a. PICK c : c = current
    OBVIOUS
  <1>0. JobTypes /\ SeriesTypes /\ SeriesTypes' /\ WorkerTypes /\ Workspace = JobId
    BY SeriesTypesNext DEF Inductive, TypeOK, Workspace
  <1>1. c \in JobId /\ ws[c] = c /\ state[c] = "succeeded" /\ pc = "follow"
    BY <1>0, <1>a DEF FollowSubmit, OwesIncrement, WorkerTypes, SeriesAccounted
  <1>2. chain[c] = NoChain => handoff[c] > 0
    BY <1>1, <1>a DEF FollowSubmit, OwesIncrement
  <1>3. PICK k : k = NextLink(c)
    OBVIOUS
  <1>4. PICK j \in JobId : /\ state[j] = "absent" /\ NewJob(j, j)
                           /\ chain' = [chain EXCEPT ![j] = k]
    BY <1>1, <1>3, <1>a DEF FollowSubmit, Least, InState
  <1>5. /\ \A w \in JobId : chain'[w] = IF w = j THEN k ELSE chain[w]
        /\ \A w \in JobId : state'[w] = IF w = j THEN "queued" ELSE state[w]
        /\ UNCHANGED handoff /\ pc' = "mark" /\ j # c
    BY <1>0, <1>1, <1>4 DEF FollowSubmit, NewJob, SeriesTypes, JobTypes
  <1>6. /\ chain[c] # NoChain => k.root = chain[c].root /\ k.total = chain[c].total /\ k.index = chain[c].index + 1
        /\ chain[c] = NoChain => k.root = c /\ k.index = 1 /\ k.total = handoff[c]
    BY <1>0, <1>1, <1>3, NextLinkParts
  <1>7. \A w \in JobId : chain[w] # NoChain =>
          /\ chain[w].root \in JobId /\ chain[w].index >= 1 /\ chain[w].index \in Nat
          /\ handoff[chain[w].root] > 0 /\ chain[w].total = handoff[chain[w].root]
    BY <1>0, LinkParts DEF SeriesAccounted
  <1>8. k.root \in JobId /\ k.index >= 1 /\ handoff[k.root] > 0 /\ k.total = handoff[k.root]
    <2>1. CASE chain[c] # NoChain
      BY <1>1, <1>6, <1>7, <2>1
    <2>2. CASE chain[c] = NoChain
      BY <1>1, <1>2, <1>6, <2>2
    <2> QED
      BY <2>1, <2>2
  <1>9. \A w \in JobId : chain[w] # NoChain => ~Precedes(c, w)
    BY <1>0, <1>1, <1>a DEF SeriesAccounted
  \* c precedes the new link, and the old ones keep their predecessors.
  <1>10. Precedes(c, j)'
    <2>1. chain'[c] = chain[c] /\ chain'[j] = k
      BY <1>1, <1>5
    <2>2. CASE chain[c] # NoChain
      <3>1. chain[c].index >= 1 /\ chain[c].index \in Nat
        BY <1>1, <1>7, <2>2
      <3>2. k.index # 1 /\ chain[c].index = k.index - 1
        BY <1>6, <2>2, <3>1
      <3>3. k.index \in Nat /\ k \in [root : 0..MaxJobs, index : Nat, total : Nat]
        BY <1>0, <1>1, <1>4, <1>5, <2>1 DEF SeriesTypes, Link
      <3>4. chain[c] \in [root : 0..MaxJobs, index : Nat, total : Nat]
        BY <1>0, <1>1 DEF SeriesTypes, Link
      <3>5. PICK d \in [root : 0..MaxJobs, index : Nat, total : Nat] : d = chain[c]
        BY <3>4
      <3>6. d = [k EXCEPT !.index = @ - 1]
        BY <1>6, <2>2, <3>1, <3>2, <3>3, <3>5
      <3>7. chain'[c] = [chain'[j] EXCEPT !.index = @ - 1]
        BY <2>1, <3>5, <3>6
      <3> QED
        BY <2>1, <3>2, <3>7 DEF Precedes
    <2>3. CASE chain[c] = NoChain
      <3>1. chain'[j].index = 1 /\ chain'[j].root = c
        BY <1>6, <2>1, <2>3
      <3> QED
        BY <3>1 DEF Precedes
    <2> QED
      BY <2>2, <2>3
  <1>11. ASSUME NEW w \in JobId, w # j, NEW v \in JobId, v # j, Precedes(v, w)
         PROVE  Precedes(v, w)'
    <2>1. chain'[w] = chain[w] /\ chain'[v] = chain[v]
      BY <1>5, <1>11
    <2> QED
      BY <1>11, <2>1 DEF Precedes
  \* No old link is the new one: it would have been made after c.
  <1>12. ASSUME NEW w \in JobId, w # j, chain[w].root = k.root, chain[w].index = k.index PROVE FALSE
    <2>1. chain[w] # NoChain
      BY <1>8, <1>12, QueueAssumption DEF NoChain, JobId
    <2>2. chain[w].total = k.total
      BY <1>7, <1>8, <1>12, <2>1
    <2>3. CASE chain[c] # NoChain
      <3>1. chain[c].index >= 1 /\ chain[c].index \in Nat
        BY <1>1, <1>7, <2>3
      <3>2. chain[w].index # 1 /\ chain[c].index = chain[w].index - 1
        BY <1>6, <1>12, <2>3, <3>1
      <3>3. Precedes(c, w)
        BY <1>0, <1>1, <1>6, <1>12, <2>2, <2>3, <3>2, PrecedesParts
      <3> QED
        BY <1>9, <2>1, <3>3
    <2>4. CASE chain[c] = NoChain
      BY <1>6, <1>9, <1>12, <2>1, <2>4 DEF Precedes
    <2> QED
      BY <2>3, <2>4
  <1>13. \A i \in JobId : ws'[i] = i
    BY <1>0, OwnWorkspace DEF SeriesAccounted
  <1>14. \A w \in JobId : state'[w] = "absent" => chain'[w] = NoChain
    BY <1>0, <1>5 DEF SeriesAccounted
  <1>15. ASSUME NEW w \in JobId, chain'[w] # NoChain
         PROVE  /\ chain'[w].root \in JobId /\ chain'[w].index >= 1
                /\ handoff'[chain'[w].root] > 0 /\ chain'[w].total = handoff'[chain'[w].root]
                /\ \E v \in JobId : Precedes(v, w)' /\ state'[v] = "succeeded"
    <2>1. CASE w = j
      <3>1. chain'[w] = k /\ state'[c] = "succeeded"
        BY <1>1, <1>5, <2>1
      <3>2. Precedes(c, w)'
        BY <1>10, <2>1
      <3>3. \E v \in JobId : Precedes(v, w)' /\ state'[v] = "succeeded"
        BY <1>1, <3>1, <3>2, Zenon
      <3>4. handoff' = handoff
        BY <1>5
      <3> QED
        BY <1>8, <3>1, <3>3, <3>4
    <2>2. CASE w # j
      <3>1. chain'[w] = chain[w] /\ chain[w] # NoChain
        BY <1>5, <1>15, <2>2
      <3>2. PICK v \in JobId : Precedes(v, w) /\ state[v] = "succeeded"
        BY <1>0, <3>1 DEF SeriesAccounted
      <3>3. v # j /\ state'[v] = "succeeded"
        BY <1>4, <1>5, <3>2
      <3>4. Precedes(v, w)'
        BY <1>11, <2>2, <3>2, <3>3
      <3> QED
        BY <1>5, <1>7, <3>1, <3>3, <3>4
    <2> QED
      BY <2>1, <2>2
  <1>16. ASSUME NEW v \in JobId, NEW w \in JobId, chain'[v] # NoChain,
                chain'[v].root = chain'[w].root, chain'[v].index = chain'[w].index
         PROVE  v = w
    <2>1. CASE v # j /\ w # j
      <3>1. chain'[v] = chain[v] /\ chain'[w] = chain[w]
        BY <1>5, <2>1
      <3> QED
        BY <1>0, <1>16, <3>1 DEF SeriesAccounted, IncrementsOnce
    <2>2. CASE v = j /\ w # j
      BY <1>5, <1>12, <1>16, <2>2
    <2>3. CASE v # j /\ w = j
      BY <1>5, <1>12, <1>16, <2>3
    <2> QED
      BY <2>1, <2>2, <2>3
  <1> QED
    BY <1>0, <1>5, <1>13, <1>14, <1>15, <1>16 DEF SeriesAccounted, IncrementsOnce

LEMMA SeriesNext ==
  ASSUME ~ReuseWorkspace, Inductive, SeriesAccounted, [Next]_vars
  PROVE  SeriesAccounted'
  <1>1. pc' \in {"analyze", "follow"} => \A w \in Workspace : chain[w] # NoChain => ~Precedes(current', w)
    BY NothingFollows
  <1>2. CASE FollowSubmit
    BY <1>2, FollowKeepsSeries
  <1>3. ASSUME NEW j \in JobId, Split(j) PROVE SeriesAccounted'
    <2>1. UNCHANGED chain /\ handoff[ws[j]] = 0
      BY <1>3 DEF Split
    <2>2. \A w \in Workspace : handoff[w] > 0 => handoff'[w] = handoff[w]
      BY <1>3, <2>1 DEF Split, Inductive, TypeOK, SeriesTypes
    <2> QED
      BY <1>1, <2>1, <2>2, LinksKept
  <1>4. ASSUME NEW j \in JobId, Submit(j) PROVE SeriesAccounted'
    BY <1>1, <1>4, LinksKept DEF Submit
  <1>5. CASE UNCHANGED SeriesFiles
    BY <1>1, <1>5, LinksKept DEF SeriesFiles
  <1> QED
    BY <1>2, <1>3, <1>4, <1>5, WorkspaceFrame

\* worker/chain.rs, follow_up: in a queue where every job has a workspace of its own, an increment
\* is submitted once, and only after a job on the workspace before it in the series has succeeded.
THEOREM SeriesIsInOrder == ~ReuseWorkspace => (Spec => []SeriesInOrder)
  <1> SUFFICES ASSUME ~ReuseWorkspace PROVE Spec => []SeriesInOrder
    OBVIOUS
  <1>1. Init => SeriesAccounted
    BY QueueAssumption DEF Init, SeriesAccounted, IncrementsOnce, NoChain, Workspace, JobId
  <1>2. Inductive /\ SeriesAccounted /\ [Next]_vars => SeriesAccounted'
    BY SeriesNext
  <1>3. Inductive /\ SeriesAccounted => SeriesInOrder
    <2> SUFFICES ASSUME SeriesTypes, SeriesAccounted, NEW w \in Workspace, chain[w] # NoChain
                 PROVE  \E j \in JobId : /\ state[j] = "succeeded"
                                         /\ IF chain[w].index = 1 THEN ws[j] = chain[w].root
                                            ELSE chain[ws[j]] = [chain[w] EXCEPT !.index = @ - 1]
      BY DEF Inductive, TypeOK, SeriesInOrder, SeriesAccounted, IncrementAfterPrevious
    <2>1. PICK v \in JobId : Precedes(v, w) /\ state[v] = "succeeded"
      BY DEF SeriesAccounted, Workspace
    <2>2. ws[v] = v
      BY DEF SeriesAccounted
    <2> QED
      BY <2>1, <2>2 DEF Precedes
  <1> QED
    BY <1>1, <1>2, <1>3, Invariance, PTL DEF Spec

-----------------------------------------------------------------------------
(* The queue implements the life cycle it promises *)

\* The lowest job that has not ended is the one the abstract specification lets move.
LEMMA LaunchedIsFirst ==
  ASSUME WorkerTypes, JobTypes, ControlMatchesFile, RunningIsOwned, OrderAccounted, pc \in {"launch", "start"}
  PROVE  L!First(current)
  <1>1. \A i \in JobId : state[i] # "running"
    BY DEF RunningIsOwned, ControlMatchesFile, InState
  <1>2. \A i \in JobId : i < current => state[i] # "queued"
    BY DEF OrderAccounted, Terminal
  <1> QED
    BY <1>1, <1>2 DEF L!First, L!Id, JobId

LEMMA SubmitRefines ==
  ASSUME JobTypes, NEW j \in JobId, Least(InState("absent"), j),
         state' = [state EXCEPT ![j] = "queued"], UNCHANGED resumes
  PROVE  L!ANext
  <1>1. \A i \in JobId : i < j => state[i] # "absent"
    BY QueueAssumption DEF Least, InState, JobId
  <1>2. L!ASubmit(j)
    BY <1>1 DEF L!ASubmit, L!Id, JobId, Least, InState
  <1> QED
    BY <1>2 DEF L!ANext, L!Id, JobId

LEMMA EndRefines ==
  ASSUME WorkerTypes, JobTypes, ControlMatchesFile, RunningIsOwned, OrderAccounted, NEW s \in Terminal,
         state' = [state EXCEPT ![current] = s], UNCHANGED resumes,
         \/ state[current] = "running"
         \/ pc \in {"launch", "start"} /\ s # "succeeded"
  PROVE  L!ANext
  <1>1. L!AEnd(current)
    <2>1. CASE state[current] = "running"
      BY <2>1 DEF L!AEnd, L!Terminal, Terminal
    <2>2. CASE pc \in {"launch", "start"} /\ s # "succeeded"
      BY <2>2, LaunchedIsFirst DEF L!AEnd, ControlMatchesFile, Terminal
    <2> QED
      BY <2>1, <2>2
  <1> QED
    BY <1>1 DEF L!ANext, L!Advance, L!Id, JobId, WorkerTypes

LEMMA StepRefines == Inductive /\ [Next]_vars => [L!ANext]_(L!avars)
  <1> SUFFICES ASSUME WorkerTypes, JobTypes, ControlMatchesFile, RunningIsOwned, OrderAccounted, [Next]_vars
               PROVE  L!ANext \/ UNCHANGED <<state, resumes>>
    BY DEF Inductive, TypeOK, L!avars
  <1>1. CASE RecoverSave
    <2>1. state[current] = "running"
      BY <1>1 DEF RecoverSave, ControlMatchesFile
    <2>2. CASE resumes[current] >= MaxResumes
      BY <1>1, <2>1, <2>2, EndRefines DEF RecoverSave, SetState, Terminal
    <2>3. CASE ~(resumes[current] >= MaxResumes)
      <3>1. resumes[current] < MaxResumes
        BY <2>3, QueueAssumption DEF JobTypes, WorkerTypes
      <3>2. L!AResume(current)
        BY <1>1, <2>1, <2>3, <3>1 DEF RecoverSave, L!AResume
      <3> QED
        BY <3>2 DEF L!ANext, L!Advance, L!Id, JobId, WorkerTypes
    <2> QED
      BY <2>2, <2>3
  <1>2. CASE LaunchCheck
    BY <1>2, EndRefines DEF LaunchCheck, Finish, SetState, job, Terminal
  <1>3. CASE LaunchFails
    BY <1>3, EndRefines DEF LaunchFails, Finish, SetState, ControlMatchesFile, Terminal
  <1>4. CASE SaveRunning
    <2>1. L!AStart(current)
      BY <1>4, LaunchedIsFirst DEF SaveRunning, SetState, ControlMatchesFile, L!AStart
    <2> QED
      BY <2>1 DEF L!ANext, L!Advance, L!Id, JobId, WorkerTypes
  <1>5. CASE SavePid
    BY <1>5 DEF SavePid
  <1>6. CASE Reap
    BY <1>6, EndRefines DEF Reap, Finish, SetState, ControlMatchesFile, Terminal
  <1>7. CASE Terminate
    BY <1>7, EndRefines DEF Terminate, Finish, SetState, ControlMatchesFile, Terminal
  <1>8. CASE FollowSubmit
    BY <1>8, SubmitRefines DEF FollowSubmit, NewJob
  <1>9. ASSUME NEW j \in JobId, Submit(j) PROVE L!ANext
    BY <1>9, SubmitRefines DEF Submit, NewJob
  <1>10. CASE UNCHANGED job
    BY <1>10 DEF job
  <1> QED
    BY Zenon, <1>1, <1>2, <1>3, <1>4, <1>5, <1>6, <1>7, <1>8, <1>9, <1>10, JobFrame DEF SavesJob

\* The files of the queue go through the life cycle of JobLifecycle: ids in order, one job at a
\* time, the first in line, resumed a bounded number of times, ended once (its progress is left
\* to the model checker).
THEOREM ImplementsLifecycle == Spec => L!ASpec
  <1>1. Init => L!AInit
    BY DEF Init, L!AInit, L!Id, JobId
  <1> QED
    BY <1>1, StepRefines, Invariance, PTL DEF Spec, L!ASpec
=============================================================================
