------------------------------ MODULE JobStore ------------------------------
(***************************************************************************)
(* How a job gets its id (job-queue/src/job.rs, submit, save, list): every *)
(* submission writes submit-<pid>.tmp and hard-links it to the first free  *)
(* NNNN.json, with no lock, against other submitting processes and against *)
(* the worker, whose saves rename a new file over the old one.  Files are  *)
(* names of inodes: a link shares its inode, a rename replaces it.         *)
(*                                                                         *)
(* Clients are processes; the HTTP server is one process with a thread per *)
(* request.  The store is shown to hand out ids as JobLifecycle says.      *)
(***************************************************************************)
EXTENDS Integers, FiniteSets

CONSTANTS
  Process,    \* processes that submit jobs
  Threads,    \* threads of one process that may submit at the same time
  MaxSubs,    \* bound: submissions of one thread
  MaxId,      \* bound: ids tried
  MaxCrashes  \* bound: processes that die

ASSUME StoreAssumption ==
  /\ IsFiniteSet(Process) /\ Threads \in Nat \ {0} /\ MaxSubs \in Nat
  /\ MaxId \in Nat \ {0} /\ MaxCrashes \in Nat

Submitter == Process \X (1..Threads)
Sub       == Submitter \X (1..MaxSubs)       \* one submission
Id        == 1..MaxId
\* Every file, temporary file, open descriptor and one file being made need an inode of their own.
Inode     == 1..(MaxId + Cardinality(Process) + Cardinality(Submitter) + 1)
Nothing   == 0

State   == {"queued", "running", "succeeded", "failed", "cancelled"}
NoSub   == <<"none">>
Empty   == [id |-> 0, by |-> NoSub, state |-> "absent"]  \* a file that does not parse as a job
Job     == [id : Id, by : Sub, state : State]

VARIABLES
  file,      \* file[n]: inode of jobs/n.json
  tmp,       \* tmp[p]: inode of submit-p.tmp
  disk,      \* disk[i]: what inode i holds
  pc, id, fd, count,  \* each submitter: its place, the id it tries, its open file, submissions so far
  accepted,  \* <<n, s>>: submission s returned Ok with id n
  held,      \* the worker's copy of the job it runs
  crashes

store     == <<file, tmp, disk>>
submitter == <<pc, id, fd, count, accepted>>
vars      == <<store, submitter, held, crashes>>

TypeOK ==
  /\ file \in [Id -> {Nothing} \cup Inode] /\ tmp \in [Process -> {Nothing} \cup Inode]
  /\ disk \in [Inode -> Job \cup {Empty}]
  /\ pc \in [Submitter -> {"idle", "open", "write", "link", "remove", "dead"}]
  /\ id \in [Submitter -> Id] /\ fd \in [Submitter -> {Nothing} \cup Inode]
  /\ \A s \in Submitter : fd[s] # Nothing <=> pc[s] = "write"
  /\ count \in [Submitter -> 0..MaxSubs]
  /\ accepted \subseteq Id \X Sub /\ held \in Job \cup {Empty} /\ crashes \in 0..MaxCrashes

Init ==
  /\ file = [n \in Id |-> Nothing] /\ tmp = [p \in Process |-> Nothing]
  /\ disk = [i \in Inode |-> Empty]
  /\ pc = [s \in Submitter |-> "idle"] /\ id = [s \in Submitter |-> 1]
  /\ fd = [s \in Submitter |-> Nothing] /\ count = [s \in Submitter |-> 0]
  /\ accepted = {} /\ held = Empty /\ crashes = 0

-----------------------------------------------------------------------------

Read(n) == IF file[n] = Nothing THEN Empty ELSE disk[file[n]]
\* list: the files that parse, by the id they hold, not by the name they have.
Listed == {Read(n) : n \in Id} \ {Empty}

InUse  == {file[n] : n \in Id} \cup {tmp[p] : p \in Process} \cup {fd[s] : s \in Submitter}
NewInode(i) == i \in Inode \ InUse /\ \A k \in Inode \ InUse : i <= k
Goes(s, to) == pc' = [pc EXCEPT ![s] = to]
ThisSub(s)  == <<s, count[s]>>

-----------------------------------------------------------------------------
(* Queue::submit by thread s[2] of process s[1] *)

Start(s) ==
  /\ pc[s] = "idle" /\ count[s] < MaxSubs
  /\ count' = [count EXCEPT ![s] = @ + 1]
  /\ \E last \in {0} \cup {j.id : j \in Listed} :
       /\ last < MaxId /\ \A j \in Listed : j.id <= last
       /\ id' = [id EXCEPT ![s] = last + 1]
  /\ Goes(s, "open")
  /\ UNCHANGED <<store, fd, accepted, held, crashes>>

\* fs::write, first half: create the temporary file, or truncate the one that is there.
Open(s) ==
  /\ pc[s] = "open"
  /\ \E i \in Inode :
       /\ IF tmp[s[1]] = Nothing THEN NewInode(i) ELSE i = tmp[s[1]]
       /\ tmp' = [tmp EXCEPT ![s[1]] = i] /\ fd' = [fd EXCEPT ![s] = i]
       /\ disk' = [disk EXCEPT ![i] = Empty]
  /\ Goes(s, "write")
  /\ UNCHANGED <<file, id, count, accepted, held, crashes>>

\* fs::write, second half.
Write(s) ==
  /\ pc[s] = "write"
  /\ disk' = [disk EXCEPT ![fd[s]] = [id |-> id[s], by |-> ThisSub(s), state |-> "queued"]]
  /\ fd' = [fd EXCEPT ![s] = Nothing]
  /\ Goes(s, "link")
  /\ UNCHANGED <<file, tmp, id, count, accepted, held, crashes>>

\* Mutant: the temporary file is renamed over whatever is there.
Link_Rename(s) ==
  /\ pc[s] = "link" /\ tmp[s[1]] # Nothing
  /\ file' = [file EXCEPT ![id[s]] = tmp[s[1]]]
  /\ Goes(s, "remove")
  /\ UNCHANGED <<tmp, disk, id, fd, count, accepted, held, crashes>>

\* fs::hard_link: fails if the name is taken, and then the next id is tried; or if the temporary
\* file is gone, which ends the submission with an error.
Link(s) ==
  /\ pc[s] = "link"
  /\ \/ /\ tmp[s[1]] # Nothing /\ file[id[s]] = Nothing
        /\ file' = [file EXCEPT ![id[s]] = tmp[s[1]]]
        /\ Goes(s, "remove") /\ UNCHANGED id
     \/ /\ tmp[s[1]] # Nothing /\ file[id[s]] # Nothing /\ id[s] < MaxId
        /\ id' = [id EXCEPT ![s] = @ + 1]
        /\ Goes(s, "open") /\ UNCHANGED file
     \/ /\ tmp[s[1]] = Nothing
        /\ Goes(s, "idle") /\ UNCHANGED <<file, id>>
  /\ UNCHANGED <<tmp, disk, fd, count, accepted, held, crashes>>

\* fs::remove_file, whose failure is the caller's, although the job is queued.
Remove(s) ==
  /\ pc[s] = "remove"
  /\ tmp' = [tmp EXCEPT ![s[1]] = Nothing]
  /\ accepted' = IF tmp[s[1]] = Nothing THEN accepted ELSE accepted \cup {<<id[s], ThisSub(s)>>}
  /\ Goes(s, "idle")
  /\ UNCHANGED <<file, disk, id, fd, count, held, crashes>>

\* The process dies; its temporary file stays, perhaps with a second name.
Die(p) ==
  /\ crashes < MaxCrashes /\ crashes' = crashes + 1
  /\ \A t \in 1..Threads : pc[<<p, t>>] # "dead"
  /\ pc' = [s \in Submitter |-> IF s[1] = p THEN "dead" ELSE pc[s]]
  /\ fd' = [s \in Submitter |-> IF s[1] = p THEN Nothing ELSE fd[s]]
  /\ UNCHANGED <<store, id, count, accepted, held>>

-----------------------------------------------------------------------------
(* The one worker: next_queued, then saves of its own copy of the job. *)

\* Mutant: the jobs are not sorted.
Take_Unsorted ==
  /\ held = Empty
  /\ \E j \in Listed : j.state = "queued" /\ held' = j
  /\ UNCHANGED <<store, submitter, crashes>>

Take ==
  /\ held = Empty
  /\ \E j \in Listed :
       /\ j.state = "queued" /\ \A k \in Listed : k.state = "queued" => j.id <= k.id
       /\ held' = j
  /\ UNCHANGED <<store, submitter, crashes>>

\* Queue::save, under the id the copy holds: a new file renamed over the old one.
Save(j) ==
  /\ \E i \in Inode :
       /\ NewInode(i)
       /\ file' = [file EXCEPT ![j.id] = i]
       /\ disk' = [disk EXCEPT ![i] = j]
  /\ UNCHANGED <<tmp, submitter, crashes>>

SaveRunning ==
  /\ held.state = "queued"
  /\ held' = [held EXCEPT !.state = "running"]
  /\ Save(held')

SaveEnd ==
  /\ held.state = "running"
  /\ held' = Empty
  /\ \E end \in {"succeeded", "failed", "cancelled"} : Save([held EXCEPT !.state = end])

-----------------------------------------------------------------------------

Next ==
  \/ \E s \in Submitter : Start(s) \/ Open(s) \/ Write(s) \/ Link(s) \/ Remove(s)
  \/ \E p \in Process : Die(p)
  \/ Take \/ SaveRunning \/ SaveEnd

Spec == Init /\ [][Next]_vars

-----------------------------------------------------------------------------

\* A submission that returned an id has a job file of that id, and it stays: no other submission
\* and no save replaces it by another job.
AcceptedIsStored ==
  \A a \in accepted : Read(a[1]).by = a[2] /\ Read(a[1]).id = a[1]

\* Whatever the processes do, and wherever one dies, the store hands out consecutive ids and its
\* jobs run in that order: to a reader of the files it is the life cycle with no resumes.
L == INSTANCE JobLifecycle WITH phase <- [n \in Id |-> Read(n).state],
                                resumed <- [n \in Id |-> 0], MaxJobs <- MaxId, MaxResumes <- 0
IdsHandedOutInOrder == L!ASpec

\* Even requests that share a temporary file never touch a job the worker has begun to save: its
\* file is the worker's copy until it ends.
RunningFileIsWorkers == held.state = "running" => Read(held.id) = held

\* The test ids_are_sequential_and_ordered: a job accepted as number 1 is in the queue as number 1.
\* Fails when the submissions are two requests to one server: they share submit-<pid>.tmp, whose
\* inode is already 0001.json when the second request, its number decided, writes it.
AcceptedAsOneRunsAsOne ==
  (\E a \in accepted : a[1] = 1) /\ (\A s \in Submitter : pc[s] = "idle") => \E j \in Listed : j.id = 1
=============================================================================
