---------------------------- MODULE JobLifecycle ----------------------------
(***************************************************************************)
(* What the queue promises about its jobs, with no worker, process or file *)
(* in sight: jobs get consecutive ids, run one at a time in id order, are  *)
(* resumed a bounded number of times when interrupted, and end exactly     *)
(* once.  JobQueue is shown to implement this specification.               *)
(***************************************************************************)
EXTENDS Naturals

CONSTANTS MaxJobs,     \* ids the instance can hand out
          MaxResumes   \* automatic relaunches of an interrupted job (5 in the worker)

VARIABLES phase,       \* phase[j]: what the queue says of job j
          resumed      \* resumed[j]: how often j was put back after an interruption

avars == <<phase, resumed>>

Id       == 1..MaxJobs
Terminal == {"succeeded", "failed", "cancelled"}
Phase    == {"absent", "queued", "running"} \cup Terminal

AInit == /\ phase = [j \in Id |-> "absent"]
         /\ resumed = [j \in Id |-> 0]

\* j is first in line: nothing runs and no lower id waits.
First(j) == /\ \A i \in Id : phase[i] # "running"
            /\ \A i \in Id : i < j => phase[i] # "queued"

ASubmit(j) == /\ phase[j] = "absent"
              /\ \A i \in Id : i < j => phase[i] # "absent"
              /\ phase' = [phase EXCEPT ![j] = "queued"]
              /\ UNCHANGED resumed

AStart(j) == /\ phase[j] = "queued" /\ First(j)
             /\ phase' = [phase EXCEPT ![j] = "running"]
             /\ UNCHANGED resumed

\* An interrupted job goes back in line, MaxResumes times at most.
AResume(j) == /\ phase[j] = "running" /\ resumed[j] < MaxResumes
              /\ phase' = [phase EXCEPT ![j] = "queued"]
              /\ resumed' = [resumed EXCEPT ![j] = @ + 1]

\* A running job ends in any way; one that never ran cannot have succeeded.
AEnd(j) == /\ \/ phase[j] = "running"
                 /\ \E end \in Terminal : phase' = [phase EXCEPT ![j] = end]
              \/ /\ phase[j] = "queued" /\ First(j)
                 /\ \E end \in {"failed", "cancelled"} : phase' = [phase EXCEPT ![j] = end]
           /\ UNCHANGED resumed

Advance(j) == AStart(j) \/ AResume(j) \/ AEnd(j)

ANext == \E j \in Id : ASubmit(j) \/ Advance(j)

ASpec == AInit /\ [][ANext]_avars

\* With a worker that keeps working, every submitted job moves on to its end.
AFairness == WF_avars(\E j \in Id : Advance(j))
=============================================================================
