--------------------------- MODULE JobStoreProofs ---------------------------
(***************************************************************************)
(* Theorems about what processes share in the queue's directory: its job   *)
(* files (module JobStore), for any number of processes, submissions and   *)
(* ids, and its lock file (module WorkerLock), for any set of clients and  *)
(* requests.                                                               *)
(***************************************************************************)
EXTENDS JobStore, WorkerLock, FiniteSetTheorems, TLAPS

-----------------------------------------------------------------------------
(* Names. *)

LEMMA Inodes == Inode \subseteq Nat \ {0}
  <1>1. Cardinality(Process) \in Nat
    BY StoreAssumption, FS_CardinalityType
  <1>2. IsFiniteSet(1..Threads)
    BY StoreAssumption, FS_Interval
  <1>3. IsFiniteSet(Submitter)
    BY <1>2, StoreAssumption, FS_Product DEF Submitter
  <1>4. Cardinality(Submitter) \in Nat
    BY <1>3, FS_CardinalityType
  <1> QED
    BY <1>1, <1>4, StoreAssumption DEF Inode

LEMMA Submitters ==
  /\ \A s \in Submitter : s[1] \in Process
  /\ Threads = 1 => \A s, t \in Submitter : s[1] = t[1] => s = t
  BY DEF Submitter

LEMMA Constants ==
  /\ Empty \notin Job /\ Nothing \notin Inode /\ Empty.state = "absent" /\ \A j \in Job : j.state # "absent"
  /\ Empty.id \notin Id /\ 1 \in Id
  <1>1. \A j \in Job : j.state \in State
    BY DEF Job
  <1>2. Nothing \notin Inode
    BY Inodes DEF Nothing
  <1>3. 0 \notin Id /\ 1 \in Id
    BY StoreAssumption DEF Id
  <1> QED
    BY <1>1, <1>2, <1>3 DEF Empty, State

LEMMA NextCases ==
  ASSUME [Next]_vars
  PROVE  \/ \E s \in Submitter : Start(s)
         \/ \E s \in Submitter : Open(s)
         \/ \E s \in Submitter : Write(s)
         \/ \E s \in Submitter : Link(s)
         \/ \E s \in Submitter : Remove(s)
         \/ \E p \in Process : Die(p)
         \/ Take \/ SaveRunning \/ SaveEnd \/ UNCHANGED vars
  BY Zenon DEF Next

\* A new inode is an inode that no name and no descriptor stands for.
LEMMA Fresh ==
  ASSUME NEW i, NewInode(i)
  PROVE  /\ i \in Inode /\ i # Nothing
         /\ \A n \in Id : file[n] # i
         /\ \A p \in Process : tmp[p] # i
         /\ \A s \in Submitter : fd[s] # i
  BY Constants DEF NewInode, InUse

-----------------------------------------------------------------------------
(* Type correctness. *)

Taken(s) == pc[s] \notin {"idle", "dead"}

Types == TypeOK /\ \A s \in Submitter : Taken(s) => count[s] >= 1

LEMMA TypesInit == Init => Types
  BY StoreAssumption, Constants DEF Init, Types, TypeOK, Taken

FileTypes == /\ file \in [Id -> {Nothing} \cup Inode] /\ tmp \in [Process -> {Nothing} \cup Inode]
             /\ disk \in [Inode -> Job \cup {Empty}]
SubTypes  == /\ pc \in [Submitter -> {"idle", "open", "write", "link", "remove", "dead"}]
             /\ id \in [Submitter -> Id] /\ fd \in [Submitter -> {Nothing} \cup Inode]
             /\ \A s \in Submitter : fd[s] # Nothing <=> pc[s] = "write"
             /\ count \in [Submitter -> 0..MaxSubs]
             /\ accepted \subseteq Id \X Sub
             /\ \A s \in Submitter : Taken(s) => count[s] >= 1
RestTypes == held \in Job \cup {Empty} /\ crashes \in 0..MaxCrashes

LEMMA TypesAre == Types <=> FileTypes /\ SubTypes /\ RestTypes
  BY DEF Types, TypeOK, FileTypes, SubTypes, RestTypes

LEMMA ThisSubType ==
  ASSUME SubTypes, NEW s \in Submitter, Taken(s)
  PROVE  ThisSub(s) \in Sub
  <1>1. count[s] \in 1..MaxSubs
    BY StoreAssumption DEF SubTypes
  <1> QED
    BY <1>1 DEF ThisSub, Sub

LEMMA ListedTypes == FileTypes => Listed \subseteq Job
  BY DEF FileTypes, Listed, Read

LEMMA FileTypesNext == Types /\ [Next]_vars => FileTypes'
  <1> SUFFICES ASSUME FileTypes, SubTypes, RestTypes, [Next]_vars PROVE FileTypes'
    BY TypesAre
  <1>1. ASSUME NEW s \in Submitter, Open(s) PROVE FileTypes'
    <2>1. s[1] \in Process
      BY Submitters
    <2> QED
      BY <1>1, <2>1 DEF Open, FileTypes
  <1>2. ASSUME NEW s \in Submitter, Write(s) PROVE FileTypes'
    <2>1. PICK j : j = [id |-> id[s], by |-> ThisSub(s), state |-> "queued"]
      OBVIOUS
    <2>2. id[s] \in Id /\ ThisSub(s) \in Sub
      BY <1>2, ThisSubType DEF Write, Taken, SubTypes
    <2>3. j \in Job
      BY <2>1, <2>2 DEF Job, State
    <2>4. disk' = [disk EXCEPT ![fd[s]] = j] /\ UNCHANGED <<file, tmp>>
      BY <1>2, <2>1 DEF Write
    <2> QED
      BY <2>3, <2>4 DEF FileTypes
  <1>3. ASSUME NEW s \in Submitter, Link(s) PROVE FileTypes'
    <2>1. s[1] \in Process
      BY Submitters
    <2> QED
      BY <1>3, <2>1 DEF Link, FileTypes
  <1>4. ASSUME NEW s \in Submitter, Remove(s) PROVE FileTypes'
    BY <1>4 DEF Remove, FileTypes
  <1>5. ASSUME NEW j \in Job, Save(j) PROVE FileTypes'
    <2>1. PICK i \in Inode : file' = [file EXCEPT ![j.id] = i] /\ disk' = [disk EXCEPT ![i] = j]
      BY <1>5 DEF Save
    <2>2. file' \in [Id -> {Nothing} \cup Inode] /\ disk' \in [Inode -> Job \cup {Empty}]
      BY <2>1 DEF FileTypes
    <2> QED
      BY <1>5, <2>2 DEF Save, FileTypes
  <1>6. CASE SaveRunning
    <2>1. [held EXCEPT !.state = "running"] \in Job
      BY <1>6, Constants DEF SaveRunning, RestTypes, Job, State, Empty
    <2> QED
      BY <1>5, <1>6, <2>1 DEF SaveRunning
  <1>7. CASE SaveEnd
    <2>1. PICK end \in {"succeeded", "failed", "cancelled"} : Save([held EXCEPT !.state = end])
      BY <1>7 DEF SaveEnd
    <2>2. [held EXCEPT !.state = end] \in Job
      BY <1>7, Constants DEF SaveEnd, RestTypes, Job, State, Empty
    <2> QED
      BY <1>5, <2>1, <2>2
  <1>8. CASE UNCHANGED store
    BY <1>8 DEF store, FileTypes
  <1>9. ASSUME NEW s \in Submitter, Start(s) PROVE UNCHANGED store
    BY <1>9 DEF Start
  <1>10. ASSUME NEW p \in Process, Die(p) PROVE UNCHANGED store
    BY <1>10 DEF Die
  <1>11. Take \/ UNCHANGED vars => UNCHANGED store
    BY DEF Take, vars
  <1> QED
    BY Zenon, <1>1, <1>2, <1>3, <1>4, <1>6, <1>7, <1>8, <1>9, <1>10, <1>11, NextCases

LEMMA SubTypesNext == Types /\ [Next]_vars => SubTypes'
  <1> SUFFICES ASSUME FileTypes, SubTypes, RestTypes, [Next]_vars PROVE SubTypes'
    BY TypesAre
  <1>1. ASSUME NEW s \in Submitter, Start(s) PROVE SubTypes'
    <2>1. PICK last \in {0} \cup {j.id : j \in Listed} : last < MaxId /\ id' = [id EXCEPT ![s] = last + 1]
      BY <1>1 DEF Start
    <2>2. last + 1 \in Id
      BY <2>1, ListedTypes, StoreAssumption DEF Job, Id
    <2>3. id' \in [Submitter -> Id]
      BY <2>1, <2>2 DEF SubTypes
    <2>4. /\ pc[s] = "idle" /\ pc' = [pc EXCEPT ![s] = "open"] /\ count' = [count EXCEPT ![s] = @ + 1]
          /\ count[s] < MaxSubs /\ UNCHANGED <<fd, accepted>>
      BY <1>1 DEF Start, Goes
    <2>5. \A t \in Submitter : count[t] \in Nat /\ count[t] <= MaxSubs
      BY StoreAssumption DEF SubTypes
    <2>6. \A t \in Submitter : count'[t] = IF t = s THEN count[s] + 1 ELSE count[t]
      BY <2>4 DEF SubTypes
    <2>7. count' \in [Submitter -> 0..MaxSubs]
      <3>1. \A t \in Submitter : count'[t] \in 0..MaxSubs
        BY <2>4, <2>5, <2>6, StoreAssumption
      <3> QED
        BY <2>4, <3>1 DEF SubTypes
    <2>8. \A t \in Submitter : Taken(t)' => count'[t] >= 1
      BY <2>4, <2>5, <2>6 DEF SubTypes, Taken
    <2> QED
      BY <2>3, <2>4, <2>7, <2>8 DEF SubTypes
  <1>2. ASSUME NEW s \in Submitter, Open(s) PROVE SubTypes'
    <2>1. PICK i \in Inode : fd' = [fd EXCEPT ![s] = i]
      BY <1>2 DEF Open
    <2>2. i # Nothing
      BY Constants
    <2>3. pc[s] = "open" /\ pc' = [pc EXCEPT ![s] = "write"] /\ UNCHANGED <<id, count, accepted>>
      BY <1>2 DEF Open, Goes
    <2> QED
      BY <2>1, <2>2, <2>3 DEF SubTypes, Taken
  <1>3. ASSUME NEW s \in Submitter, Write(s) PROVE SubTypes'
    BY <1>3 DEF Write, Goes, SubTypes, Taken
  <1>4. ASSUME NEW s \in Submitter, Link(s) PROVE SubTypes'
    <2>1. /\ pc[s] = "link" /\ UNCHANGED <<fd, count, accepted>>
          /\ \E to \in {"idle", "open", "remove"} : pc' = [pc EXCEPT ![s] = to]
      BY <1>4 DEF Link, Goes
    <2>2. id' \in [Submitter -> Id]
      <3>1. id[s] \in Id /\ (id[s] < MaxId => id[s] + 1 \in Id)
        BY StoreAssumption DEF SubTypes, Id
      <3> QED
        BY <1>4, <3>1 DEF Link, SubTypes
    <2> QED
      BY <2>1, <2>2 DEF SubTypes, Taken
  <1>5. ASSUME NEW s \in Submitter, Remove(s) PROVE SubTypes'
    <2>1. pc[s] = "remove" /\ pc' = [pc EXCEPT ![s] = "idle"] /\ UNCHANGED <<id, fd, count>>
      BY <1>5 DEF Remove, Goes
    <2>2. accepted' \subseteq Id \X Sub
      <3>1. id[s] \in Id /\ ThisSub(s) \in Sub
        BY <2>1, ThisSubType DEF Taken, SubTypes
      <3> QED
        BY <1>5, <3>1 DEF Remove, SubTypes
    <2> QED
      BY <2>1, <2>2 DEF SubTypes, Taken
  <1>6. ASSUME NEW p \in Process, Die(p) PROVE SubTypes'
    BY <1>6 DEF Die, SubTypes, Taken
  <1>7. CASE UNCHANGED submitter
    BY <1>7 DEF submitter, SubTypes, Taken
  <1>8. Take \/ SaveRunning \/ SaveEnd \/ UNCHANGED vars => UNCHANGED submitter
    BY DEF Take, SaveRunning, SaveEnd, Save, vars
  <1> QED
    BY Zenon, <1>1, <1>2, <1>3, <1>4, <1>5, <1>6, <1>7, <1>8, NextCases

LEMMA RestTypesNext == Types /\ [Next]_vars => RestTypes'
  <1> SUFFICES ASSUME FileTypes, SubTypes, RestTypes, [Next]_vars PROVE RestTypes'
    BY TypesAre
  <1>1. CASE Take
    BY <1>1, ListedTypes DEF Take, RestTypes
  <1>2. CASE SaveRunning
    BY <1>2, Constants DEF SaveRunning, Save, RestTypes, Job, State, Empty
  <1>3. CASE SaveEnd
    BY <1>3 DEF SaveEnd, Save, RestTypes
  <1>4. ASSUME NEW p \in Process, Die(p) PROVE RestTypes'
    BY <1>4, StoreAssumption DEF Die, RestTypes
  <1>5. CASE UNCHANGED <<held, crashes>>
    BY <1>5 DEF RestTypes
  <1>6. ASSUME NEW s \in Submitter, Start(s) \/ Open(s) \/ Write(s) \/ Link(s) \/ Remove(s)
        PROVE  UNCHANGED <<held, crashes>>
    BY <1>6 DEF Start, Open, Write, Link, Remove
  <1>7. UNCHANGED vars => UNCHANGED <<held, crashes>>
    BY DEF vars
  <1> QED
    BY Zenon, <1>1, <1>2, <1>3, <1>4, <1>5, <1>6, <1>7, NextCases

\* Every variable keeps its type, whoever submits at the same time and wherever one dies.
THEOREM StoreTypeCorrect == Spec => []TypeOK
  <1>1. Types /\ [Next]_vars => Types'
    BY FileTypesNext, SubTypesNext, RestTypesNext, TypesAre, PTL
  <1>2. Types => TypeOK
    BY DEF Types
  <1> QED
    BY TypesInit, <1>1, <1>2, PTL DEF Spec

-----------------------------------------------------------------------------
(* The worker's file. *)

\* What a save does to the files: the worker's copy is what the name of its id stands for.
LEMMA SaveWrites ==
  ASSUME Types, NEW j \in Job, Save(j)
  PROVE  /\ UNCHANGED <<tmp, pc, id, fd, count, accepted, crashes>>
         /\ \E i \in Inode :
              /\ i # Nothing
              /\ \A n \in Id : file'[n] = IF n = j.id THEN i ELSE file[n]
              /\ \A k \in Inode : disk'[k] = IF k = i THEN j ELSE disk[k]
              /\ \A n \in Id : file[n] # i
              /\ \A p \in Process : tmp[p] # i
              /\ \A s \in Submitter : fd[s] # i
  <1>1. PICK i \in Inode : NewInode(i) /\ file' = [file EXCEPT ![j.id] = i] /\ disk' = [disk EXCEPT ![i] = j]
    BY DEF Save
  <1>2. /\ \A n \in Id : file'[n] = IF n = j.id THEN i ELSE file[n]
        /\ \A k \in Inode : disk'[k] = IF k = i THEN j ELSE disk[k]
    BY <1>1 DEF Types, TypeOK
  <1>3. /\ i # Nothing /\ \A n \in Id : file[n] # i
        /\ \A p \in Process : tmp[p] # i
        /\ \A s \in Submitter : fd[s] # i
    BY <1>1, Fresh
  <1>4. UNCHANGED <<tmp, pc, id, fd, count, accepted, crashes>>
    BY DEF Save, submitter
  <1> QED
    BY <1>2, <1>3, <1>4

LEMMA SaveReads ==
  ASSUME Types, NEW j \in Job, Save(j)
  PROVE  /\ Read(j.id)' = j /\ j.id \in Id
         /\ \A n \in Id : n # j.id => Read(n)' = Read(n)
         /\ \A p \in Process : tmp'[p] # file'[j.id]
         /\ \A s \in Submitter : fd'[s] # file'[j.id]
  <1>1. j.id \in Id
    BY DEF Job
  <1>2. PICK i \in Inode :
          /\ i # Nothing
          /\ \A n \in Id : file'[n] = IF n = j.id THEN i ELSE file[n]
          /\ \A k \in Inode : disk'[k] = IF k = i THEN j ELSE disk[k]
          /\ \A n \in Id : file[n] # i
          /\ \A p \in Process : tmp[p] # i
          /\ \A s \in Submitter : fd[s] # i
    BY SaveWrites
  <1>3. file'[j.id] = i /\ UNCHANGED <<tmp, fd>>
    BY <1>1, <1>2, SaveWrites
  <1>4. Read(j.id)' = j
    BY <1>2, <1>3 DEF Read
  <1>5. ASSUME NEW n \in Id, n # j.id PROVE Read(n)' = Read(n)
    <2>1. file'[n] = file[n] /\ file[n] # i
      BY <1>2, <1>5
    <2>2. file[n] # Nothing => file[n] \in Inode
      BY DEF Types, TypeOK
    <2>3. file[n] # Nothing => disk'[file[n]] = disk[file[n]]
      BY <1>2, <2>1, <2>2
    <2> QED
      BY <2>1, <2>3 DEF Read
  <1> QED
    BY <1>1, <1>2, <1>3, <1>4, <1>5

\* Nobody can write into the file of a job that the worker has begun to save: it is no submitter's
\* temporary file, and no submitter has it open.
WorkersFile ==
  held.state = "running" =>
    /\ Read(held.id) = held /\ file[held.id] # Nothing
    /\ \A p \in Process : tmp[p] # file[held.id]
    /\ \A s \in Submitter : fd[s] # file[held.id]

LEMMA WorkersFileNext == Types /\ WorkersFile /\ [Next]_vars => WorkersFile'
  <1> SUFFICES ASSUME Types, WorkersFile, [Next]_vars PROVE WorkersFile'
    OBVIOUS
  <1>0. held.state = "running" => held \in Job /\ held.id \in Id /\ file[held.id] \in Inode
    <2>1. held \in Job \cup {Empty}
      BY DEF Types, TypeOK
    <2>2. held.state = "running" => held \in Job /\ held.id \in Id
      BY <2>1, Constants DEF Job
    <2> QED
      BY <2>2 DEF Types, TypeOK, WorkersFile
  <1>1. ASSUME held' = held,
               held.state = "running" =>
                 /\ file'[held.id] = file[held.id] /\ disk'[file[held.id]] = disk[file[held.id]]
                 /\ \A p \in Process : tmp'[p] # file[held.id]
                 /\ \A s \in Submitter : fd'[s] # file[held.id]
        PROVE  WorkersFile'
    <2>1. held.state = "running" =>
            /\ disk'[file'[held.id]] = held /\ file'[held.id] # Nothing
            /\ \A p \in Process : tmp'[p] # file'[held.id]
            /\ \A s \in Submitter : fd'[s] # file'[held.id]
      BY <1>1 DEF WorkersFile, Read
    <2> QED
      BY <1>1, <2>1 DEF WorkersFile, Read
  <1>2. ASSUME NEW s \in Submitter, Start(s) PROVE WorkersFile'
    BY <1>1, <1>2 DEF Start, store, WorkersFile
  <1>3. ASSUME NEW s \in Submitter, Open(s) PROVE WorkersFile'
    <2>1. s[1] \in Process
      BY Submitters
    <2>2. PICK i \in Inode :
            /\ IF tmp[s[1]] = Nothing THEN NewInode(i) ELSE i = tmp[s[1]]
            /\ tmp' = [tmp EXCEPT ![s[1]] = i] /\ fd' = [fd EXCEPT ![s] = i] /\ disk' = [disk EXCEPT ![i] = Empty]
      BY <1>3 DEF Open
    <2>3. held.state = "running" => file[held.id] # i
      BY <1>0, <2>1, <2>2, Fresh DEF WorkersFile
    <2>4. UNCHANGED <<file, held>>
      BY <1>3 DEF Open
    <2>5. held.state = "running" => disk'[file[held.id]] = disk[file[held.id]]
      BY <1>0, <2>2, <2>3 DEF Types, TypeOK
    <2>6. /\ \A p \in Process : tmp'[p] \in {tmp[p], i}
          /\ \A t \in Submitter : fd'[t] \in {fd[t], i}
      BY <2>2 DEF Types, TypeOK
    <2> QED
      BY <1>1, <2>3, <2>4, <2>5, <2>6 DEF WorkersFile
  <1>4. ASSUME NEW s \in Submitter, Write(s) PROVE WorkersFile'
    <2>1. UNCHANGED <<file, tmp, held>> /\ \A t \in Submitter : fd'[t] \in {fd[t], Nothing}
      BY <1>4 DEF Write, Types, TypeOK
    <2>2. held.state = "running" => disk'[file[held.id]] = disk[file[held.id]]
      BY <1>0, <1>4 DEF Write, Types, TypeOK, WorkersFile
    <2> QED
      BY <1>1, <2>1, <2>2 DEF WorkersFile
  <1>5. ASSUME NEW s \in Submitter, Link(s) PROVE WorkersFile'
    <2>1. UNCHANGED <<tmp, disk, fd, held>>
      BY <1>5 DEF Link
    <2>2. \A n \in Id : file[n] # Nothing => file'[n] = file[n]
      BY <1>5 DEF Link, Types, TypeOK
    <2> QED
      BY <1>0, <1>1, <2>1, <2>2 DEF WorkersFile
  <1>6. ASSUME NEW s \in Submitter, Remove(s) PROVE WorkersFile'
    <2>1. UNCHANGED <<file, disk, fd, held>> /\ \A p \in Process : tmp'[p] \in {tmp[p], Nothing}
      BY <1>6 DEF Remove, Types, TypeOK
    <2> QED
      BY <1>1, <2>1 DEF WorkersFile
  <1>7. ASSUME NEW q \in Process, Die(q) PROVE WorkersFile'
    <2>1. UNCHANGED <<file, tmp, disk, held>> /\ \A t \in Submitter : fd'[t] \in {fd[t], Nothing}
      BY <1>7 DEF Die, store
    <2> QED
      BY <1>1, <2>1 DEF WorkersFile
  <1>8. CASE Take
    <2>1. held'.state = "queued"
      BY <1>8 DEF Take
    <2> QED
      BY <2>1 DEF WorkersFile
  <1>9. CASE SaveRunning
    <2>1. PICK j : j = [held EXCEPT !.state = "running"]
      OBVIOUS
    <2>2. j \in Job /\ held' = j /\ Save(j)
      <3>1. held \in Job
        BY <1>9, Constants DEF SaveRunning, Types, TypeOK, Empty
      <3> QED
        BY <1>9, <2>1, <3>1 DEF SaveRunning, Job, State
    <2>3. file'[j.id] # Nothing
      BY <2>2, SaveWrites, SaveReads
    <2> QED
      BY <2>2, <2>3, SaveReads DEF WorkersFile
  <1>10. CASE SaveEnd
    BY <1>10, Constants DEF SaveEnd, WorkersFile
  <1>11. CASE UNCHANGED vars
    BY <1>1, <1>11 DEF vars, store, submitter, WorkersFile
  <1> QED
    BY Zenon, <1>2, <1>3, <1>4, <1>5, <1>6, <1>7, <1>8, <1>9, <1>10, <1>11, NextCases

LEMMA TypesNext == Types /\ [Next]_vars => Types'
  BY FileTypesNext, SubTypesNext, RestTypesNext, TypesAre, PTL

\* job.rs, submit and save: between the worker's first save of a job and its last, the file is the
\* worker's, for any number of processes and of threads that share a temporary file.
THEOREM RunningFile == Spec => []RunningFileIsWorkers
  <1>1. Init => WorkersFile
    BY DEF Init, WorkersFile, Empty
  <1>2. WorkersFile => RunningFileIsWorkers
    BY DEF WorkersFile, RunningFileIsWorkers
  <1> QED
    BY TypesInit, TypesNext, WorkersFileNext, <1>1, <1>2, PTL DEF Spec

-----------------------------------------------------------------------------
(* Processes of one thread: a temporary file has one writer. *)

OwnTmp ==
  /\ \A p, q \in Process : tmp[p] # Nothing /\ tmp[p] = tmp[q] => p = q
  /\ \A s \in Submitter : fd[s] # Nothing => fd[s] = tmp[s[1]]
  /\ \A s \in Submitter : pc[s] \notin {"remove", "dead"} =>
       \A n \in Id : file[n] # Nothing => file[n] # tmp[s[1]]
  /\ \A s \in Submitter : pc[s] \in {"write", "link", "remove"} => tmp[s[1]] # Nothing
  /\ \A s \in Submitter : pc[s] = "link" =>
       disk[tmp[s[1]]] = [id |-> id[s], by |-> ThisSub(s), state |-> "queued"]

\* What Open writes into: a new file, or the process's own old one, which has no other name.
LEMMA OpenTouches ==
  ASSUME Threads = 1, Types, OwnTmp, NEW s \in Submitter, Open(s)
  PROVE  \E i \in Inode :
           /\ i # Nothing /\ s[1] \in Process
           /\ \A p \in Process : tmp'[p] = IF p = s[1] THEN i ELSE tmp[p]
           /\ \A t \in Submitter : fd'[t] = IF t = s THEN i ELSE fd[t]
           /\ \A k \in Inode : disk'[k] = IF k = i THEN Empty ELSE disk[k]
           /\ \A n \in Id : file[n] # i
           /\ \A p \in Process : p # s[1] => tmp[p] # i
           /\ \A t \in Submitter : t # s => fd[t] # i
  <1>1. s[1] \in Process /\ \A t \in Submitter : t[1] = s[1] => t = s
    BY Submitters
  <1>2. PICK i \in Inode :
          /\ IF tmp[s[1]] = Nothing THEN NewInode(i) ELSE i = tmp[s[1]]
          /\ tmp' = [tmp EXCEPT ![s[1]] = i] /\ fd' = [fd EXCEPT ![s] = i] /\ disk' = [disk EXCEPT ![i] = Empty]
    BY DEF Open
  <1>3. i # Nothing
    BY Constants
  <1>4. /\ \A p \in Process : tmp'[p] = IF p = s[1] THEN i ELSE tmp[p]
        /\ \A t \in Submitter : fd'[t] = IF t = s THEN i ELSE fd[t]
        /\ \A k \in Inode : disk'[k] = IF k = i THEN Empty ELSE disk[k]
    BY <1>1, <1>2 DEF Types, TypeOK
  <1>5. CASE tmp[s[1]] = Nothing
    BY <1>1, <1>2, <1>3, <1>4, <1>5, Fresh
  <1>6. CASE tmp[s[1]] # Nothing
    <2>1. i = tmp[s[1]] /\ pc[s] = "open"
      BY <1>2, <1>6 DEF Open
    <2>2. \A n \in Id : file[n] # i
      BY <1>3, <2>1 DEF OwnTmp
    <2>3. \A p \in Process : p # s[1] => tmp[p] # i
      BY <1>1, <1>3, <2>1 DEF OwnTmp
    <2>4. \A t \in Submitter : t # s => fd[t] # i
      BY <1>1, <1>3, <2>3, Submitters DEF OwnTmp
    <2> QED
      BY <1>1, <1>3, <1>4, <2>2, <2>3, <2>4
  <1> QED
    BY <1>5, <1>6

LEMMA OwnTmpNext == Threads = 1 /\ Types /\ OwnTmp /\ [Next]_vars => OwnTmp'
  <1> SUFFICES ASSUME Threads = 1, Types, OwnTmp, [Next]_vars PROVE OwnTmp'
    OBVIOUS
  <1>0. \A t \in Submitter : t[1] \in Process
    BY Submitters
  <1>a. \A s, t \in Submitter : s # t => s[1] # t[1]
    BY Submitters
  <1>b. /\ \A p \in Process : tmp[p] # Nothing => tmp[p] \in Inode
        /\ \A n \in Id : file[n] # Nothing => file[n] \in Inode
        /\ \A s \in Submitter : fd[s] # Nothing <=> pc[s] = "write"
    BY DEF Types, TypeOK
  <1>1. ASSUME NEW s \in Submitter, Start(s) PROVE OwnTmp'
    <2>1. /\ UNCHANGED <<file, tmp, disk, fd>> /\ pc[s] = "idle" /\ pc'[s] = "open"
          /\ \A t \in Submitter : t # s => pc'[t] = pc[t] /\ id'[t] = id[t] /\ count'[t] = count[t]
      BY <1>1 DEF Start, Goes, store, Types, TypeOK
    <2> QED
      BY <2>1 DEF OwnTmp, ThisSub
  <1>2. ASSUME NEW s \in Submitter, Open(s) PROVE OwnTmp'
    <2>1. PICK i \in Inode :
           /\ i # Nothing /\ s[1] \in Process
           /\ \A p \in Process : tmp'[p] = IF p = s[1] THEN i ELSE tmp[p]
           /\ \A t \in Submitter : fd'[t] = IF t = s THEN i ELSE fd[t]
           /\ \A k \in Inode : disk'[k] = IF k = i THEN Empty ELSE disk[k]
           /\ \A n \in Id : file[n] # i
           /\ \A p \in Process : p # s[1] => tmp[p] # i
           /\ \A t \in Submitter : t # s => fd[t] # i
      BY <1>2, OpenTouches
    <2>2. /\ UNCHANGED <<file, id, count>> /\ pc'[s] = "write"
          /\ \A t \in Submitter : t # s => pc'[t] = pc[t]
      BY <1>2 DEF Open, Goes, Types, TypeOK
    <2>3. \A p, q \in Process : tmp'[p] # Nothing /\ tmp'[p] = tmp'[q] => p = q
      BY <2>1 DEF OwnTmp
    <2>4. \A t \in Submitter : fd'[t] # Nothing => fd'[t] = tmp'[t[1]]
      BY <1>0, <1>a, <2>1 DEF OwnTmp
    <2>5. \A t \in Submitter : pc'[t] \notin {"remove", "dead"} =>
            \A n \in Id : file'[n] # Nothing => file'[n] # tmp'[t[1]]
      BY <1>0, <1>a, <2>1, <2>2 DEF OwnTmp
    <2>6. \A t \in Submitter : pc'[t] \in {"write", "link", "remove"} => tmp'[t[1]] # Nothing
      BY <1>0, <1>a, <2>1, <2>2 DEF OwnTmp
    <2>7. ASSUME NEW t \in Submitter, pc'[t] = "link"
          PROVE  disk'[tmp'[t[1]]] = [id |-> id'[t], by |-> ThisSub(t)', state |-> "queued"]
      <3>1. t # s /\ pc[t] = "link" /\ t[1] # s[1] /\ t[1] \in Process
        BY <1>0, <1>a, <2>2, <2>7
      <3>2. tmp'[t[1]] = tmp[t[1]] /\ tmp[t[1]] \in Inode /\ tmp[t[1]] # i
        BY <1>b, <2>1, <3>1 DEF OwnTmp
      <3> QED
        BY <2>1, <2>2, <3>1, <3>2 DEF OwnTmp, ThisSub
    <2> QED
      BY <2>3, <2>4, <2>5, <2>6, <2>7 DEF OwnTmp
  <1>3. ASSUME NEW s \in Submitter, Write(s) PROVE OwnTmp'
    <2>1. /\ UNCHANGED <<file, tmp, id, count>> /\ pc[s] = "write" /\ pc'[s] = "link"
          /\ \A t \in Submitter : t # s => pc'[t] = pc[t] /\ fd'[t] = fd[t]
          /\ fd'[s] = Nothing
      BY <1>3 DEF Write, Goes, Types, TypeOK
    <2>2. fd[s] = tmp[s[1]] /\ tmp[s[1]] \in Inode /\ tmp[s[1]] # Nothing
      BY <1>0, <1>b, <2>1 DEF OwnTmp
    <2>3. \A k \in Inode : disk'[k] = IF k = fd[s] THEN [id |-> id[s], by |-> ThisSub(s), state |-> "queued"]
                                      ELSE disk[k]
      BY <1>3, <2>2 DEF Write, Types, TypeOK
    <2>4. ASSUME NEW t \in Submitter, pc'[t] = "link"
          PROVE  disk'[tmp'[t[1]]] = [id |-> id'[t], by |-> ThisSub(t)', state |-> "queued"]
      <3>1. CASE t = s
        BY <2>1, <2>2, <2>3, <3>1 DEF ThisSub
      <3>2. CASE t # s
        <4>1. pc[t] = "link" /\ t[1] # s[1] /\ t[1] \in Process
          BY <1>0, <1>a, <2>1, <2>4, <3>2
        <4>2. tmp[t[1]] \in Inode /\ tmp[t[1]] # tmp[s[1]]
          BY <1>0, <1>b, <2>2, <4>1 DEF OwnTmp
        <4> QED
          BY <2>1, <2>2, <2>3, <4>1, <4>2 DEF OwnTmp, ThisSub
      <3> QED
        BY <3>1, <3>2
    <2> QED
      BY <2>1, <2>2, <2>4 DEF OwnTmp
  <1>4. ASSUME NEW s \in Submitter, Link(s) PROVE OwnTmp'
    <2>1. /\ UNCHANGED <<tmp, disk, fd, count>> /\ pc[s] = "link" /\ pc'[s] \in {"idle", "open", "remove"}
          /\ \A t \in Submitter : t # s => pc'[t] = pc[t] /\ id'[t] = id[t]
          /\ \A n \in Id : file'[n] = file[n] \/ (file'[n] = tmp[s[1]] /\ tmp[s[1]] # Nothing /\ pc'[s] = "remove")
      BY <1>4 DEF Link, Goes, Types, TypeOK
    <2>2. \A t \in Submitter : t # s => tmp[t[1]] # tmp[s[1]] \/ tmp[s[1]] = Nothing
      BY <1>0, <1>a DEF OwnTmp
    <2>3. tmp[s[1]] # Nothing
      BY <2>1 DEF OwnTmp
    <2>4. \A t \in Submitter : pc'[t] \notin {"remove", "dead"} =>
            \A n \in Id : file'[n] # Nothing => file'[n] # tmp[t[1]]
      BY <2>1, <2>2, <2>3 DEF OwnTmp
    <2> QED
      BY <2>1, <2>3, <2>4 DEF OwnTmp, ThisSub
  <1>5. ASSUME NEW s \in Submitter, Remove(s) PROVE OwnTmp'
    <2>1. /\ UNCHANGED <<file, disk, id, fd, count>> /\ pc[s] = "remove" /\ pc'[s] = "idle"
          /\ \A t \in Submitter : t # s => pc'[t] = pc[t]
          /\ \A p \in Process : tmp'[p] = IF p = s[1] THEN Nothing ELSE tmp[p]
      BY <1>5 DEF Remove, Goes, Types, TypeOK
    <2>2. \A t \in Submitter : t # s => tmp'[t[1]] = tmp[t[1]]
      BY <1>0, <1>a, <2>1
    <2>3. tmp'[s[1]] = Nothing /\ fd[s] = Nothing
      BY <1>0, <1>b, <2>1
    <2>4. \A p, q \in Process : tmp'[p] # Nothing /\ tmp'[p] = tmp'[q] => p = q
      BY <2>1 DEF OwnTmp
    <2> QED
      BY <2>1, <2>2, <2>3, <2>4 DEF OwnTmp, ThisSub
  <1>6. ASSUME NEW q \in Process, Die(q) PROVE OwnTmp'
    <2>1. /\ UNCHANGED <<file, tmp, disk, id, count>>
          /\ \A t \in Submitter : pc'[t] = (IF t[1] = q THEN "dead" ELSE pc[t])
          /\ \A t \in Submitter : fd'[t] = (IF t[1] = q THEN Nothing ELSE fd[t])
      BY <1>6 DEF Die, store
    <2> QED
      BY <2>1 DEF OwnTmp, ThisSub
  <1>7. ASSUME NEW j \in Job, Save(j) PROVE OwnTmp'
    <2>1. UNCHANGED <<tmp, pc, id, fd, count, accepted, crashes>>
      BY <1>7, SaveWrites
    <2>2. PICK i \in Inode :
              /\ i # Nothing
              /\ \A n \in Id : file'[n] = IF n = j.id THEN i ELSE file[n]
              /\ \A k \in Inode : disk'[k] = IF k = i THEN j ELSE disk[k]
              /\ \A p \in Process : tmp[p] # i
      BY <1>7, SaveWrites
    <2>3. \A t \in Submitter : pc[t] = "link" => disk'[tmp[t[1]]] = disk[tmp[t[1]]]
      BY <1>0, <1>b, <2>2 DEF OwnTmp
    <2> QED
      BY <1>0, <2>1, <2>2, <2>3 DEF OwnTmp, ThisSub
  <1>8. CASE Take \/ UNCHANGED vars
    <2>1. UNCHANGED <<file, tmp, disk, pc, id, fd, count>>
      BY <1>8 DEF Take, vars, store, submitter
    <2> QED
      BY <2>1 DEF OwnTmp, ThisSub
  <1>9. (SaveRunning \/ SaveEnd) => \E j \in Job : Save(j)
    <2>1. ASSUME held.state \in {"queued", "running"}, NEW end \in State
          PROVE  [held EXCEPT !.state = end] \in Job
      BY <2>1, Constants DEF Types, TypeOK, Job, Empty
    <2>2. SaveRunning => \E j \in Job : Save(j)
      BY <2>1 DEF SaveRunning, State
    <2>3. SaveEnd => \E j \in Job : Save(j)
      BY <2>1 DEF SaveEnd, State
    <2> QED
      BY <2>2, <2>3
  <1> QED
    BY Zenon, <1>1, <1>2, <1>3, <1>4, <1>5, <1>6, <1>7, <1>8, <1>9, NextCases

-----------------------------------------------------------------------------
(* What a reader of the files sees. *)

\* The files are as they were, for a reader.
SameFiles == \A n \in Id : Read(n)' = Read(n) /\ (file'[n] = Nothing <=> file[n] = Nothing)

\* Submission s has got its id.
Linked(s) ==
  /\ pc[s] = "link" /\ pc'[s] = "remove" /\ file[id[s]] = Nothing
  /\ file'[id[s]] # Nothing
  /\ Read(id[s])' = [id |-> id[s], by |-> ThisSub(s), state |-> "queued"]
  /\ \A n \in Id : n # id[s] => Read(n)' = Read(n) /\ file'[n] = file[n]
  /\ \A t \in Submitter : t # s => pc'[t] = pc[t]
  /\ UNCHANGED <<id, count, accepted, held>>

\* The worker has saved job j.
Saved(j) ==
  /\ Read(j.id)' = j /\ j.id \in Id /\ file'[j.id] # Nothing
  /\ \A n \in Id : n # j.id => Read(n)' = Read(n) /\ (file'[n] = Nothing <=> file[n] = Nothing)
  /\ UNCHANGED <<pc, id, count, accepted>>

\* What becomes of the submitters without a reader of the files seeing it.
Unseen ==
  /\ UNCHANGED held
  /\ \A s \in Submitter : pc'[s] = "remove" => pc[s] = "remove" /\ id'[s] = id[s] /\ count'[s] = count[s]
  /\ \A s \in Submitter : Taken(s)' =>
       Taken(s) /\ \A m \in Id : m < id'[s] => m < id[s] \/ file[m] # Nothing
  /\ \A a \in accepted' : a \in accepted \/ \E s \in Submitter : pc[s] = "remove" /\ a = <<id[s], ThisSub(s)>>

LEMMA OpenUnseen ==
  ASSUME Threads = 1, Types, OwnTmp, NEW s \in Submitter, Open(s) \/ Write(s)
  PROVE  SameFiles
  <1>1. file' = file
    BY DEF Open, Write
  <1>2. \A n \in Id : file[n] # Nothing => file[n] \in Inode
    BY DEF Types, TypeOK
  <1>3. \A n \in Id : file[n] # Nothing => disk'[file[n]] = disk[file[n]]
    <2>1. CASE Open(s)
      <3>1. PICK i \in Inode :
              /\ \A k \in Inode : disk'[k] = IF k = i THEN Empty ELSE disk[k]
              /\ \A n \in Id : file[n] # i
        BY <2>1, OpenTouches
      <3> QED
        BY <1>2, <3>1
    <2>2. CASE Write(s)
      <3>1. pc[s] = "write" /\ fd[s] = tmp[s[1]]
        BY <2>2 DEF Write, OwnTmp, Types, TypeOK
      <3>2. \A n \in Id : file[n] # Nothing => file[n] # fd[s]
        BY <3>1 DEF OwnTmp
      <3> QED
        BY <1>2, <2>2, <3>2 DEF Write, Types, TypeOK
    <2> QED
      BY <2>1, <2>2
  <1> QED
    BY <1>1, <1>3 DEF SameFiles, Read

LEMMA LinkSeen ==
  ASSUME Threads = 1, Types, OwnTmp, NEW s \in Submitter, Link(s)
  PROVE  Linked(s) \/ (SameFiles /\ Unseen)
  <1>1. pc[s] = "link" /\ tmp[s[1]] # Nothing /\ UNCHANGED <<tmp, disk, fd, count, accepted, held>>
    BY DEF Link, OwnTmp
  <1>2. disk[tmp[s[1]]] = [id |-> id[s], by |-> ThisSub(s), state |-> "queued"] /\ id[s] \in Id
    BY <1>1 DEF OwnTmp, Types, TypeOK
  <1>3. CASE file[id[s]] = Nothing
    <2>1. /\ file' = [file EXCEPT ![id[s]] = tmp[s[1]]] /\ pc' = [pc EXCEPT ![s] = "remove"] /\ UNCHANGED id
      BY <1>1, <1>3 DEF Link, Goes
    <2>2. \A n \in Id : file'[n] = IF n = id[s] THEN tmp[s[1]] ELSE file[n]
      BY <2>1 DEF Types, TypeOK
    <2>3. pc'[s] = "remove" /\ \A t \in Submitter : t # s => pc'[t] = pc[t]
      BY <2>1 DEF Types, TypeOK
    <2>4. \A n \in Id : n # id[s] => Read(n)' = Read(n)
      BY <1>1, <2>2 DEF Read
    <2>5. file'[id[s]] = tmp[s[1]]
      BY <1>2, <2>2
    <2>6. PICK c \in Id : c = id[s]
      BY <1>2
    <2>7. Read(c)' = [id |-> id[s], by |-> ThisSub(s), state |-> "queued"]
      BY <1>1, <1>2, <2>5, <2>6 DEF Read
    <2>8. id'[s] = c
      BY <2>1, <2>6
    <2>9. Read(id[s])' = Read(c)'
      BY <2>6, <2>8 DEF Read
    <2> QED
      BY <1>1, <1>3, <2>1, <2>2, <2>3, <2>4, <2>5, <2>7, <2>9 DEF Linked
  <1>4. CASE file[id[s]] # Nothing
    <2>1. UNCHANGED file /\ id[s] < MaxId /\ id' = [id EXCEPT ![s] = @ + 1] /\ pc' = [pc EXCEPT ![s] = "open"]
      BY <1>1, <1>4 DEF Link, Goes
    <2>2. SameFiles
      BY <1>1, <2>1 DEF SameFiles, Read
    <2>3. pc'[s] = "open" /\ id'[s] = id[s] + 1 /\ \A t \in Submitter : t # s => pc'[t] = pc[t] /\ id'[t] = id[t]
      BY <2>1 DEF Types, TypeOK
    <2>4. ASSUME NEW m \in Id, m < id'[s] PROVE m < id[s] \/ file[m] # Nothing
      <3>1. m < id[s] \/ m = id[s]
        BY <1>2, <2>3, <2>4, StoreAssumption DEF Id
      <3> QED
        BY <1>4, <3>1
    <2> QED
      BY <1>1, <2>2, <2>3, <2>4 DEF Unseen, Taken
  <1> QED
    BY <1>3, <1>4

LEMMA SaveSeen ==
  ASSUME Types, NEW j \in Job, Save(j)
  PROVE  Saved(j)
  <1>1. /\ Read(j.id)' = j /\ j.id \in Id
        /\ \A n \in Id : n # j.id => Read(n)' = Read(n)
    BY SaveReads
  <1>2. /\ UNCHANGED <<pc, id, count, accepted>>
        /\ \E i \in Inode : i # Nothing /\ \A n \in Id : file'[n] = IF n = j.id THEN i ELSE file[n]
    BY SaveWrites
  <1> QED
    BY <1>1, <1>2 DEF Saved

WorkerSaves ==
  \/ \E j \in Job : /\ held.state = "queued" /\ held \in Job /\ held' = j /\ Saved(j)
                    /\ j.id = held.id /\ j.by = held.by /\ j.state = "running"
  \/ \E j \in Job : /\ held.state = "running" /\ held \in Job /\ held' = Empty /\ Saved(j)
                    /\ j.id = held.id /\ j.by = held.by /\ j.state \in {"succeeded", "failed", "cancelled"}

LEMMA WorkerSeen ==
  ASSUME Types, SaveRunning \/ SaveEnd
  PROVE  WorkerSaves
  <1>1. held.state \in {"queued", "running"} /\ held \in Job
    BY Constants DEF SaveRunning, SaveEnd, Types, TypeOK, Empty
  <1>2. ASSUME NEW end \in State, NEW j, j = [held EXCEPT !.state = end]
        PROVE  j \in Job /\ j.id = held.id /\ j.by = held.by /\ j.state = end
    BY <1>1, <1>2 DEF Job
  <1>3. CASE SaveRunning
    <2>1. PICK j : j = [held EXCEPT !.state = "running"]
      OBVIOUS
    <2>2. held' = j /\ Save(j) /\ held.state = "queued"
      BY <1>3, <2>1 DEF SaveRunning
    <2>3. j \in Job /\ j.id = held.id /\ j.by = held.by /\ j.state = "running"
      BY <1>2, <2>1 DEF State
    <2>4. Saved(j)
      BY <2>2, <2>3, SaveSeen
    <2> QED
      BY <1>1, <2>2, <2>3, <2>4 DEF WorkerSaves
  <1>4. CASE SaveEnd
    <2>1. PICK end \in {"succeeded", "failed", "cancelled"} : Save([held EXCEPT !.state = end])
      BY <1>4 DEF SaveEnd
    <2>2. PICK j : j = [held EXCEPT !.state = end]
      OBVIOUS
    <2>3. held' = Empty /\ Save(j) /\ held.state = "running"
      BY <1>4, <2>1, <2>2 DEF SaveEnd
    <2>4. j \in Job /\ j.id = held.id /\ j.by = held.by /\ j.state = end
      BY <1>2, <2>2 DEF State
    <2>5. Saved(j)
      BY <2>3, <2>4, SaveSeen
    <2> QED
      BY <1>1, <2>1, <2>3, <2>4, <2>5 DEF WorkerSaves
  <1> QED
    BY <1>3, <1>4

\* Every step, as a reader of the files sees it.
LEMMA Seen ==
  ASSUME Threads = 1, Types, OwnTmp, [Next]_vars
  PROVE  \/ SameFiles /\ Unseen
         \/ SameFiles /\ Take
         \/ \E s \in Submitter : Linked(s)
         \/ SaveRunning /\ WorkerSaves
         \/ SaveEnd /\ WorkerSaves
         \/ \E s \in Submitter : Start(s) /\ SameFiles
  <1>1. UNCHANGED store => SameFiles
    BY DEF store, SameFiles, Read
  <1>2. ASSUME NEW s \in Submitter, Start(s) PROVE SameFiles
    BY <1>1, <1>2 DEF Start
  <1>3. ASSUME NEW s \in Submitter, Open(s) \/ Write(s) PROVE SameFiles /\ Unseen
    <2>1. /\ pc[s] \in {"open", "write"} /\ pc'[s] \in {"write", "link"} /\ UNCHANGED <<id, count, accepted, held>>
          /\ \A t \in Submitter : t # s => pc'[t] = pc[t]
      BY <1>3 DEF Open, Write, Goes, Types, TypeOK
    <2> QED
      BY <1>3, <2>1, OpenUnseen DEF Unseen, Taken
  <1>4. ASSUME NEW s \in Submitter, Link(s) PROVE Linked(s) \/ (SameFiles /\ Unseen)
    BY <1>4, LinkSeen
  <1>5. ASSUME NEW s \in Submitter, Remove(s) PROVE SameFiles /\ Unseen
    <2>1. /\ pc[s] = "remove" /\ pc'[s] = "idle" /\ UNCHANGED <<file, disk, id, count, held>>
          /\ \A t \in Submitter : t # s => pc'[t] = pc[t]
          /\ accepted' \subseteq accepted \cup {<<id[s], ThisSub(s)>>}
      BY <1>5 DEF Remove, Goes, Types, TypeOK
    <2>2. SameFiles
      BY <2>1 DEF SameFiles, Read
    <2> QED
      BY <2>1, <2>2 DEF Unseen, Taken
  <1>6. ASSUME NEW p \in Process, Die(p) PROVE SameFiles /\ Unseen
    <2>1. UNCHANGED <<id, count, accepted, held>> /\ \A t \in Submitter : pc'[t] \in {pc[t], "dead"}
      BY <1>6 DEF Die
    <2> QED
      BY <1>1, <1>6, <2>1 DEF Unseen, Taken, Die
  <1>7. Take => SameFiles
    BY <1>1 DEF Take
  <1>8. UNCHANGED vars => SameFiles /\ Unseen
    BY <1>1 DEF vars, submitter, Unseen, Taken
  <1> QED
    BY <1>2, <1>3, <1>4, <1>5, <1>6, <1>7, <1>8, WorkerSeen, NextCases

-----------------------------------------------------------------------------
(* One thread to a process: a file holds the job it is named for, and the jobs stand in a row. *)

Ended == {"succeeded", "failed", "cancelled"}

\* A file holds the job of its name; so does the worker, and whoever was given that name.
FilesHoldJobs ==
  /\ \A n \in Id : file[n] # Nothing => Read(n) \in Job /\ Read(n).id = n
  /\ \A s \in Submitter, n \in Id : pc[s] = "remove" /\ n = id[s] => Read(n).id = n /\ Read(n).by = ThisSub(s)
  /\ held # Empty => held \in Job /\ held.state \in {"queued", "running"}
  /\ \A n \in Id : held # Empty /\ n = held.id => Read(n) = held
  /\ \A a \in accepted : a[1] \in Id /\ Read(a[1]).by = a[2] /\ Read(a[1]).id = a[1]

\* No id is left out, nothing runs but the worker's job, and what comes before that has ended.
InOrder ==
  /\ \A m, n \in Id : m < n /\ file[n] # Nothing => file[m] # Nothing
  /\ \A s \in Submitter : Taken(s) => \A m \in Id : m < id[s] => file[m] # Nothing
  /\ \A n \in Id : Read(n).state = "running" => n = held.id /\ held.state = "running"
  /\ held # Empty => \A n \in Id : n < held.id => Read(n).state \in Ended

Stored == Types /\ OwnTmp /\ FilesHoldJobs /\ InOrder

LEMMA ReadOf ==
  ASSUME NEW n \in Id
  PROVE  Read(n) # Empty => file[n] # Nothing
  BY DEF Read

LEMMA FilesHoldJobsInit == Init => FilesHoldJobs /\ InOrder
  <1> SUFFICES ASSUME Init PROVE FilesHoldJobs /\ InOrder
    OBVIOUS
  <1>1. \A n \in Id : file[n] = Nothing /\ Read(n) = Empty
    BY DEF Init, Read
  <1>2. /\ \A s \in Submitter : pc[s] = "idle"
        /\ held = Empty /\ accepted = {}
    BY DEF Init
  <1>3. Empty.state # "running"
    BY DEF Empty
  <1> QED
    BY <1>1, <1>2, <1>3 DEF FilesHoldJobs, InOrder, Taken

LEMMA UnseenKeeps == Stored /\ SameFiles /\ Unseen => FilesHoldJobs' /\ InOrder'
  <1> SUFFICES ASSUME Stored, SameFiles, Unseen PROVE FilesHoldJobs' /\ InOrder'
    OBVIOUS
  <1>1. \A n \in Id : Read(n)' = Read(n) /\ (file'[n] = Nothing <=> file[n] = Nothing)
    BY DEF SameFiles
  <1>2. \A s \in Submitter : pc'[s] = "remove" => pc[s] = "remove" /\ id'[s] = id[s] /\ ThisSub(s)' = ThisSub(s)
    BY DEF Unseen, ThisSub
  <1>3. held' = held
    BY DEF Unseen
  <1>4. ASSUME NEW a \in accepted' PROVE a[1] \in Id /\ Read(a[1])'.by = a[2] /\ Read(a[1])'.id = a[1]
    <2>1. a[1] \in Id /\ Read(a[1]).by = a[2] /\ Read(a[1]).id = a[1]
      <3>1. CASE a \in accepted
        BY <3>1 DEF Stored, FilesHoldJobs
      <3>2. ASSUME NEW s \in Submitter, pc[s] = "remove", a = <<id[s], ThisSub(s)>>
            PROVE  a[1] \in Id /\ Read(a[1]).by = a[2] /\ Read(a[1]).id = a[1]
        <4>1. a[1] = id[s] /\ a[2] = ThisSub(s) /\ id[s] \in Id
          BY <3>2 DEF Stored, Types, TypeOK
        <4> QED
          BY <3>2, <4>1 DEF Stored, FilesHoldJobs
      <3> QED
        BY <3>1, <3>2 DEF Unseen
    <2> QED
      BY <1>1, <2>1
  <1>5. FilesHoldJobs'
    BY <1>1, <1>2, <1>3, <1>4 DEF Stored, FilesHoldJobs
  <1>6. \A s \in Submitter : Taken(s)' => \A m \in Id : m < id'[s] => file'[m] # Nothing
    BY <1>1 DEF Unseen, Stored, InOrder
  <1>7. InOrder'
    BY <1>1, <1>3, <1>6 DEF Stored, InOrder
  <1> QED
    BY <1>5, <1>7

LEMMA StartKeeps ==
  ASSUME Stored, SameFiles, NEW s \in Submitter, Start(s)
  PROVE  FilesHoldJobs' /\ InOrder'
  <1>1. PICK last \in {0} \cup {j.id : j \in Listed} : last < MaxId /\ id' = [id EXCEPT ![s] = last + 1]
    BY DEF Start
  <1>2. last = 0 \/ (last \in Id /\ file[last] # Nothing)
    <2>1. ASSUME NEW n \in Id, Read(n) # Empty PROVE Read(n).id = n /\ file[n] # Nothing
      BY <2>1, ReadOf DEF Stored, FilesHoldJobs
    <2> QED
      BY <1>1, <2>1 DEF Listed
  <1>3. \A m \in Id : m < last + 1 => file[m] # Nothing
    <2>1. \A m \in Id : m < last + 1 => m < last \/ m = last
      BY <1>2, StoreAssumption DEF Id
    <2>2. \A m \in Id : m > 0
      BY StoreAssumption DEF Id
    <2>3. last = 0 => \A m \in Id : ~ (m < last) /\ m # last
      BY <2>2, StoreAssumption DEF Id
    <2> QED
      BY <1>2, <2>1, <2>3 DEF Stored, InOrder
  <1>4. /\ pc[s] = "idle" /\ pc'[s] = "open" /\ id'[s] = last + 1 /\ UNCHANGED <<file, disk, held, accepted>>
        /\ \A t \in Submitter : t # s => pc'[t] = pc[t] /\ id'[t] = id[t] /\ count'[t] = count[t]
    BY <1>1 DEF Start, Goes, store, Stored, Types, TypeOK
  <1>5. \A n \in Id : Read(n)' = Read(n)
    BY DEF SameFiles
  <1>6. \A t \in Submitter : pc'[t] = "remove" => pc[t] = "remove" /\ id'[t] = id[t] /\ ThisSub(t)' = ThisSub(t)
    BY <1>4 DEF ThisSub
  <1>7. \A a \in accepted : Read(a[1])' = Read(a[1])
    BY <1>5 DEF Stored, FilesHoldJobs
  <1>8. FilesHoldJobs'
    BY <1>4, <1>5, <1>6, <1>7 DEF Stored, FilesHoldJobs
  <1>9. InOrder'
    BY <1>3, <1>4, <1>5 DEF Stored, InOrder, Taken
  <1> QED
    BY <1>8, <1>9

LEMMA TakeKeeps == Stored /\ SameFiles /\ Take => FilesHoldJobs' /\ InOrder'
  <1> SUFFICES ASSUME Stored, SameFiles, Take PROVE FilesHoldJobs' /\ InOrder'
    OBVIOUS
  <1>1. PICK c \in Id : /\ Read(c) # Empty /\ Read(c).state = "queued" /\ held' = Read(c)
                        /\ \A k \in Listed : k.state = "queued" => Read(c).id <= k.id
    BY DEF Take, Listed
  <1>2. file[c] # Nothing /\ Read(c) \in Job /\ Read(c).id = c
    BY <1>1, ReadOf DEF Stored, FilesHoldJobs
  <1>3. /\ \A n \in Id : Read(n)' = Read(n)
        /\ UNCHANGED <<file, pc, id, count, accepted>> /\ held = Empty
    BY DEF SameFiles, Take, store, submitter
  <1>4. \A s \in Submitter : ThisSub(s)' = ThisSub(s)
    BY <1>3 DEF ThisSub
  <1>5. \A a \in accepted : Read(a[1])' = Read(a[1])
    BY <1>3 DEF Stored, FilesHoldJobs
  <1>6. FilesHoldJobs'
    BY <1>1, <1>2, <1>3, <1>4, <1>5 DEF Stored, FilesHoldJobs
  <1>7. \A n \in Id : Read(n).state # "running"
    BY <1>3, Constants DEF Stored, InOrder, Empty
  <1>8. ASSUME NEW n \in Id, n < c PROVE Read(n).state \in Ended
    <2>1. file[n] # Nothing /\ Read(n) \in Job /\ Read(n).id = n
      BY <1>2, <1>8 DEF Stored, InOrder, FilesHoldJobs
    <2>2. Read(n) \in Listed
      BY <2>1, Constants DEF Listed
    <2>3. Read(n).state # "queued"
      BY <1>1, <1>2, <1>8, <2>1, <2>2, StoreAssumption DEF Id
    <2>4. Read(n).state \in State
      BY <2>1 DEF Job
    <2> QED
      BY <1>7, <2>3, <2>4 DEF State, Ended
  <1>9. InOrder'
    BY <1>1, <1>2, <1>3, <1>7, <1>8 DEF Stored, InOrder, Taken
  <1> QED
    BY <1>6, <1>9

LEMMA LinkedKeeps ==
  ASSUME Stored, NEW s \in Submitter, Linked(s)
  PROVE  FilesHoldJobs' /\ InOrder'
  <1>1. PICK c \in Id : c = id[s]
    BY DEF Stored, Types, TypeOK
  <1>2. PICK j : j = [id |-> c, by |-> ThisSub(s), state |-> "queued"]
    OBVIOUS
  <1>3. ThisSub(s) \in Sub
    BY ThisSubType, TypesAre DEF Linked, Stored, Taken
  <1>4. j \in Job /\ j.id = c /\ j.by = ThisSub(s) /\ j.state = "queued"
    BY <1>1, <1>2, <1>3 DEF Job, State
  <1>5. /\ UNCHANGED <<id, count, accepted, held>> /\ file[c] = Nothing /\ file'[c] # Nothing
        /\ pc[s] = "link" /\ pc'[s] = "remove" /\ \A t \in Submitter : t # s => pc'[t] = pc[t]
        /\ \A n \in Id : n # c => Read(n)' = Read(n) /\ file'[n] = file[n]
    BY <1>1 DEF Linked
  <1>6. Read(c)' = j
    <2>1. Read(id[s])' = j
      BY <1>1, <1>2 DEF Linked
    <2>2. id'[s] = c
      BY <1>1, <1>5
    <2> QED
      BY <2>1, <2>2 DEF Read
  <1>7. Read(c) = Empty /\ c # Empty.id /\ Empty.state = "absent"
    BY <1>5, Constants DEF Read
  <1>8. \A t \in Submitter : ThisSub(t)' = ThisSub(t)
    BY <1>5 DEF ThisSub
  <1>9. ASSUME NEW n \in Id, n # c \/ Read(n).id = n \/ Read(n).state # "absent" PROVE n # c
    BY <1>7, <1>9
  <1>10. \A n \in Id : file'[n] # Nothing => Read(n)' \in Job /\ Read(n)'.id = n
    BY <1>4, <1>5, <1>6 DEF Stored, FilesHoldJobs
  <1>11. ASSUME NEW t \in Submitter, NEW n \in Id, pc'[t] = "remove", n = id[t]
         PROVE  Read(n)'.id = n /\ Read(n)'.by = ThisSub(t)
    <2>1. CASE t = s
      BY <1>1, <1>4, <1>6, <1>11, <2>1
    <2>2. CASE t # s
      <3>1. Read(n).id = n /\ Read(n).by = ThisSub(t)
        BY <1>5, <1>11, <2>2 DEF Stored, FilesHoldJobs
      <3>2. n # c
        BY <1>9, <3>1
      <3> QED
        BY <1>5, <3>1, <3>2
    <2> QED
      BY <2>1, <2>2
  <1>12. ASSUME NEW n \in Id, held # Empty, n = held.id PROVE Read(n)' = held /\ n # c
    <2>1. Read(n) = held
      BY <1>12 DEF Stored, FilesHoldJobs
    <2>2. n # c
      BY <1>7, <1>12, <2>1
    <2> QED
      BY <1>5, <2>1, <2>2
  <1>13. ASSUME NEW a \in accepted PROVE a[1] \in Id /\ Read(a[1])'.by = a[2] /\ Read(a[1])'.id = a[1]
    <2>1. a[1] \in Id /\ Read(a[1]).by = a[2] /\ Read(a[1]).id = a[1]
      BY DEF Stored, FilesHoldJobs
    <2>2. a[1] # c
      BY <1>9, <2>1
    <2>3. Read(a[1])' = Read(a[1])
      BY <1>5, <2>1, <2>2
    <2> QED
      BY <2>1, <2>3
  <1>14. FilesHoldJobs'
    BY <1>5, <1>8, <1>10, <1>11, <1>12, <1>13 DEF Stored, FilesHoldJobs
  <1>15. \A m \in Id : m < c => file[m] # Nothing
    BY <1>1, <1>5 DEF Stored, InOrder, Taken
  <1>16. \A m, n \in Id : m < n /\ file'[n] # Nothing => file'[m] # Nothing
    BY <1>5, <1>15 DEF Stored, InOrder
  <1>17. \A t \in Submitter : Taken(t)' => \A m \in Id : m < id'[t] => file'[m] # Nothing
    BY <1>5 DEF Stored, InOrder, Taken
  <1>18. \A n \in Id : Read(n)'.state = "running" => n = held.id /\ held.state = "running"
    BY <1>4, <1>5, <1>6 DEF Stored, InOrder
  <1>19. ASSUME held # Empty, NEW n \in Id, n < held.id PROVE Read(n)'.state \in Ended
    <2>1. Read(n).state \in Ended
      BY <1>19 DEF Stored, InOrder
    <2>2. n # c
      BY <1>7, <2>1 DEF Ended
    <2> QED
      BY <1>5, <2>1, <2>2
  <1>20. InOrder'
    BY <1>5, <1>16, <1>17, <1>18, <1>19 DEF InOrder
  <1> QED
    BY <1>14, <1>20

LEMMA WorkerKeeps == Stored /\ WorkerSaves => FilesHoldJobs' /\ InOrder'
  <1> SUFFICES ASSUME Stored, WorkerSaves PROVE FilesHoldJobs' /\ InOrder'
    OBVIOUS
  <1>1. PICK j \in Job :
          /\ Saved(j) /\ held \in Job /\ j.id = held.id /\ j.by = held.by
          /\ \/ held' = j /\ held.state = "queued" /\ j.state = "running"
             \/ held' = Empty /\ held.state = "running" /\ j.state \in Ended
    BY DEF WorkerSaves, Ended
  <1>2. PICK c \in Id : c = j.id
    BY <1>1 DEF Saved
  <1>3. held # Empty /\ Read(c) = held /\ file[c] # Nothing
    BY <1>1, <1>2, Constants, ReadOf DEF Stored, FilesHoldJobs
  <1>4. Read(c)' = j /\ file'[c] # Nothing
    BY <1>1, <1>2 DEF Saved, Read
  <1>5. /\ \A n \in Id : n # c => Read(n)' = Read(n) /\ (file'[n] = Nothing <=> file[n] = Nothing)
        /\ UNCHANGED <<pc, id, count, accepted>>
    BY <1>1, <1>2 DEF Saved
  <1>6. \A n \in Id : Read(n)'.id = Read(n).id /\ Read(n)'.by = Read(n).by
    BY <1>1, <1>3, <1>4, <1>5
  <1>7. \A t \in Submitter : ThisSub(t)' = ThisSub(t)
    BY <1>5 DEF ThisSub
  <1>8. \A n \in Id : file'[n] = Nothing <=> file[n] = Nothing
    BY <1>3, <1>4, <1>5
  <1>9. \A n \in Id : file'[n] # Nothing => Read(n)' \in Job /\ Read(n)'.id = n
    BY <1>1, <1>2, <1>4, <1>5 DEF Stored, FilesHoldJobs
  <1>10. \A s \in Submitter, n \in Id :
           pc'[s] = "remove" /\ n = id'[s] => Read(n)'.id = n /\ Read(n)'.by = ThisSub(s)'
    BY <1>5, <1>6, <1>7 DEF Stored, FilesHoldJobs
  <1>11. \A a \in accepted' : a[1] \in Id /\ Read(a[1])'.by = a[2] /\ Read(a[1])'.id = a[1]
    BY <1>5, <1>6 DEF Stored, FilesHoldJobs
  <1>12. held' # Empty => held' = j /\ j.state = "running"
    BY <1>1
  <1>13. FilesHoldJobs'
    BY <1>2, <1>4, <1>9, <1>10, <1>11, <1>12 DEF FilesHoldJobs
  <1>14. \A s \in Submitter : Taken(s)' <=> Taken(s)
    BY <1>5 DEF Taken
  <1>15. \A n \in Id : n # c => Read(n)'.state # "running"
    BY <1>1, <1>2, <1>5 DEF Stored, InOrder
  <1>16. \A n \in Id : n < c => Read(n)'.state \in Ended
    <2>1. \A n \in Id : n < c => n # c
      BY StoreAssumption DEF Id
    <2> QED
      BY <1>1, <1>2, <1>3, <1>5, <2>1 DEF Stored, InOrder
  <1>17. Read(c)'.state = "running" => held' = j
    BY <1>1, <1>4 DEF Ended
  <1>18. InOrder'
    BY <1>2, <1>4, <1>5, <1>8, <1>12, <1>14, <1>15, <1>16, <1>17 DEF Stored, InOrder
  <1> QED
    BY <1>13, <1>18

LEMMA StoredNext == Threads = 1 /\ Stored /\ [Next]_vars => Stored'
  <1> SUFFICES ASSUME Threads = 1, Stored, [Next]_vars PROVE Stored'
    OBVIOUS
  <1>1. Types' /\ OwnTmp'
    BY FileTypesNext, SubTypesNext, RestTypesNext, TypesAre, OwnTmpNext, PTL DEF Stored
  <1>2. FilesHoldJobs' /\ InOrder'
    <2>1. \/ SameFiles /\ Unseen
          \/ SameFiles /\ Take
          \/ \E s \in Submitter : Linked(s)
          \/ WorkerSaves
          \/ \E s \in Submitter : Start(s) /\ SameFiles
      BY Seen DEF Stored
    <2> QED
      BY <2>1, UnseenKeeps, TakeKeeps, LinkedKeeps, WorkerKeeps, StartKeeps
  <1> QED
    BY <1>1, <1>2 DEF Stored

LEMMA StoredInit == Init => Stored
  <1>1. Init => OwnTmp
    BY DEF Init, OwnTmp
  <1> QED
    BY <1>1, TypesInit, FilesHoldJobsInit DEF Stored

\* The hypothesis is the client's: a process makes one submission at a time.  The server with a
\* thread to a request does not meet it, and loses the property (the finding of store_threads).
LEMMA StoreInvariance == Threads = 1 => (Spec => []Stored)
  <1> SUFFICES ASSUME Threads = 1 PROVE Spec => []Stored
    OBVIOUS
  <1>1. Stored /\ [Next]_vars => Stored'
    BY StoredNext
  <1> QED
    BY StoredInit, <1>1, PTL DEF Spec

\* What a submitting process was told is its job is the job the file of that id holds, whoever
\* submits at the same time and wherever one dies: hard_link and rename give no two the same name.
THEOREM AcceptedStaysStored == Threads = 1 => (Spec => []AcceptedIsStored)
  <1>1. Stored => AcceptedIsStored
    BY DEF Stored, FilesHoldJobs, AcceptedIsStored
  <1> QED
    BY <1>1, StoreInvariance, PTL

-----------------------------------------------------------------------------
(* The files implement the life cycle. *)

View == [n \in Id |-> Read(n).state]

LEMMA LifecycleIds == L!Id = Id /\ L!Terminal = Ended
  BY DEF L!Id, Id, L!Terminal, Ended

LEMMA InitRefines == Init => L!AInit
  <1> SUFFICES ASSUME Init PROVE L!AInit
    OBVIOUS
  <1>1. \A n \in Id : Read(n).state = "absent"
    BY DEF Init, Read, Empty
  <1> QED
    BY <1>1, LifecycleIds DEF L!AInit

LEMMA LinkRefines ==
  ASSUME Stored, NEW s \in Submitter, Linked(s)
  PROVE  L!ANext
  <1>1. PICK c \in Id : c = id[s]
    BY DEF Stored, Types, TypeOK
  <1>2. /\ file[c] = Nothing /\ \A n \in Id : n # c => Read(n)' = Read(n)
        /\ id' = id /\ Taken(s)
    BY <1>1 DEF Linked, Taken
  <1>3. Read(c)'.state = "queued"
    <2>1. Read(id[s])'.state = "queued"
      BY DEF Linked
    <2> QED
      BY <1>1, <1>2, <2>1 DEF Read
  <1>4. Read(c).state = "absent"
    BY <1>2, Constants DEF Read
  <1>5. \A n \in Id : n < c => Read(n).state # "absent"
    <2>1. \A n \in Id : n < c => Read(n) \in Job
      BY <1>1, <1>2 DEF Stored, InOrder, FilesHoldJobs
    <2> QED
      BY <2>1, Constants
  <1>6. View' = [View EXCEPT ![c] = "queued"]
    BY <1>2, <1>3 DEF View
  <1>7. L!ASubmit(c)
    BY <1>4, <1>5, <1>6, LifecycleIds DEF L!ASubmit, View
  <1> QED
    BY <1>7, LifecycleIds DEF L!ANext

LEMMA WorkerRefines == Stored /\ WorkerSaves => L!ANext
  <1> SUFFICES ASSUME Stored, WorkerSaves PROVE L!ANext
    OBVIOUS
  <1>1. PICK j \in Job :
          /\ Saved(j) /\ held \in Job /\ j.id = held.id
          /\ \/ held.state = "queued" /\ j.state = "running"
             \/ held.state = "running" /\ j.state \in Ended
    BY DEF WorkerSaves, Ended
  <1>2. PICK c \in Id : c = j.id
    BY <1>1 DEF Saved
  <1>3. held # Empty /\ Read(c) = held
    BY <1>1, <1>2, Constants DEF Stored, FilesHoldJobs
  <1>4. Read(c)' = j /\ \A n \in Id : n # c => Read(n)' = Read(n)
    BY <1>1, <1>2 DEF Saved, Read
  <1>5. View' = [View EXCEPT ![c] = j.state]
    BY <1>4 DEF View
  <1>6. CASE held.state = "queued" /\ j.state = "running"
    <2>1. \A n \in Id : Read(n).state # "running"
      BY <1>6 DEF Stored, InOrder
    <2>2. \A n \in Id : n < c => Read(n).state # "queued"
      BY <1>1, <1>2, <1>3 DEF Stored, InOrder, Ended
    <2>3. L!AStart(c)
      BY <1>3, <1>5, <1>6, <2>1, <2>2, LifecycleIds DEF L!AStart, L!First, View
    <2> QED
      BY <2>3, LifecycleIds DEF L!ANext, L!Advance
  <1>7. CASE held.state = "running" /\ j.state \in Ended
    <2>1. L!AEnd(c)
      BY <1>3, <1>5, <1>7, LifecycleIds DEF L!AEnd, View
    <2> QED
      BY <2>1, LifecycleIds DEF L!ANext, L!Advance
  <1> QED
    BY <1>1, <1>6, <1>7

LEMMA StoreRefines == Threads = 1 /\ Stored /\ [Next]_vars => [L!ANext]_(L!avars)
  <1> SUFFICES ASSUME Threads = 1, Stored, [Next]_vars PROVE [L!ANext]_(L!avars)
    OBVIOUS
  <1>1. SameFiles => UNCHANGED L!avars
    BY DEF SameFiles, L!avars
  <1>2. \/ SameFiles
        \/ \E s \in Submitter : Linked(s)
        \/ WorkerSaves
    BY Seen DEF Stored
  <1> QED
    BY <1>1, <1>2, LinkRefines, WorkerRefines

\* To a reader of the files, submitting processes and the worker hand out consecutive ids and run
\* the jobs in that order, one at a time, with no lock between them.
THEOREM StoreImplementsLifecycle == Threads = 1 => (Spec => IdsHandedOutInOrder)
  <1> SUFFICES ASSUME Threads = 1 PROVE Spec => IdsHandedOutInOrder
    OBVIOUS
  <1>1. Spec => []Stored
    BY StoreInvariance
  <1>2. Stored /\ [Next]_vars => [L!ANext]_(L!avars)
    BY StoreRefines
  <1> QED
    BY InitRefines, <1>1, <1>2, PTL DEF Spec, IdsHandedOutInOrder, L!ASpec

-----------------------------------------------------------------------------
(* The lock of the same directory. *)

SubNext(s) == Submit(s) \/ SubmitterStep(s) \/ WorkerStep(s)
SrvNext == (\E r \in Request : ServerSubmit(r)) \/ ServerStep \/ ServerCrash

LEMMA LockCases == [LockNext]_lockVars => (\E s \in Client : SubNext(s)) \/ SrvNext \/ UNCHANGED lockVars
  BY Zenon DEF LockNext, SubNext, SrvNext

\* The lock is held by at most one process, and a held lock names a process.
LEMMA LockHolders ==
  ASSUME LockDiscipline
  PROVE  \/ lock = Free
         \/ srv = "serving"
         \/ \E s \in Client : sub[s] = "probing" \/ wrk[s] \in {"serving", "leaving"}
  <1>1. lock \in {Free, Server} \cup {ProbeOf(s) : s \in Client} \cup {WorkerOf(s) : s \in Client}
    BY DEF LockDiscipline, LockTypeOK
  <1>2. ASSUME NEW s \in Client, lock = ProbeOf(s) PROVE sub[s] = "probing"
    BY <1>2 DEF LockDiscipline
  <1>3. ASSUME NEW s \in Client, lock = WorkerOf(s) PROVE wrk[s] \in {"serving", "leaving"}
    BY <1>3 DEF LockDiscipline
  <1>4. lock = Server => srv = "serving"
    BY DEF LockDiscipline
  <1> QED
    BY <1>1, <1>2, <1>3, <1>4

LEMMA LockNames ==
  /\ \A s, t \in Client : (ProbeOf(s) = ProbeOf(t) => s = t) /\ (WorkerOf(s) = WorkerOf(t) => s = t)
  /\ \A s, t \in Client : ProbeOf(s) # WorkerOf(t)
  /\ \A s \in Client : ProbeOf(s) \notin {Free, Server} /\ WorkerOf(s) \notin {Free, Server}
  /\ Free # Server
  BY DEF ProbeOf, WorkerOf, Free, Server

LEMMA DisciplineInit == LockInit => LockDiscipline
  BY LockAssumption, LockNames DEF LockInit, LockDiscipline, LockTypeOK

LEMMA DisciplineNext == LockDiscipline /\ [LockNext]_lockVars => LockDiscipline'
  <1> SUFFICES ASSUME LockDiscipline, [LockNext]_lockVars PROVE LockDiscipline'
    OBVIOUS
  <1> USE DEF LockDiscipline, LockTypeOK, Moves
  <1>1. ASSUME NEW s \in Client, SubNext(s) PROVE LockDiscipline'
    <2>1. CASE Submit(s)
      BY <2>1 DEF Submit
    <2>2. CASE FoundRunning(s)
      BY <2>2 DEF FoundRunning
    <2>3. CASE Probe(s)
      BY <2>3, LockNames DEF Probe
    <2>4. CASE ProbeEnd(s)
      <3>1. lock = ProbeOf(s) /\ sub' = [sub EXCEPT ![s] = "spawning"]
        BY <2>4 DEF ProbeEnd
      <3>2. srv # "serving" /\ \A t \in Client : sub[t] = "probing" => t = s
        BY <3>1, LockNames
      <3>3. \A t \in Client : wrk[t] \notin {"serving", "leaving"}
        BY <3>1, LockNames
      <3>4. lock' = Free /\ UNCHANGED <<queued, wrk, srv, asked, serverCrashes>>
        BY <2>4 DEF ProbeEnd
      <3>5. LockTypeOK'
        BY <3>1, <3>4
      <3>6. \A t \in Client : sub'[t] # "probing" /\ (sub'[t] # "done" => wrk[t] = "none")
        BY <2>4, <3>1, <3>2 DEF ProbeEnd
      <3> QED
        BY <3>2, <3>3, <3>4, <3>5, <3>6, LockNames
    <2>5. CASE SpawnDetached(s)
      BY <2>5 DEF SpawnDetached
    <2>6. CASE LockWorker(s)
      <3>1. /\ lock = Free /\ lock' = WorkerOf(s) /\ wrk[s] = "locking" /\ wrk' = [wrk EXCEPT ![s] = "serving"]
            /\ UNCHANGED <<queued, sub, srv, asked, serverCrashes>>
        BY <2>6 DEF LockWorker
      <3>2. srv # "serving" /\ \A t \in Client : sub[t] # "probing" /\ wrk[t] \notin {"serving", "leaving"}
        BY <3>1, LockNames
      <3>3. LockTypeOK'
        BY <3>1
      <3>4. \A t \in Client : wrk'[t] = IF t = s THEN "serving" ELSE wrk[t]
        BY <3>1
      <3> QED
        BY <3>1, <3>2, <3>3, <3>4, LockNames
    <2>7. CASE LockTaken(s)
      BY <2>7 DEF LockTaken
    <2>8. CASE ServeJob(s)
      BY <2>8 DEF ServeJob
    <2>9. CASE IdleExit(s)
      BY <2>9 DEF IdleExit
    <2>10. CASE DropLock(s)
      BY <2>10, LockNames DEF DropLock
    <2>11. CASE Recheck(s)
      BY <2>11 DEF Recheck
    <2> QED
      BY Zenon, <1>1, <2>1, <2>2, <2>3, <2>4, <2>5, <2>6, <2>7, <2>8, <2>9, <2>10, <2>11
      DEF SubNext, SubmitterStep, WorkerStep
  <1>2. CASE SrvNext
    <2>1. ASSUME NEW r \in Request, ServerSubmit(r) PROVE LockDiscipline'
      BY <2>1 DEF ServerSubmit
    <2>2. CASE ServerLock
      BY <2>2, LockNames DEF ServerLock
    <2>3. CASE ServerServe
      BY <2>3 DEF ServerServe
    <2>4. CASE ServerCrash
      BY <2>4, LockNames, LockAssumption DEF ServerCrash
    <2> QED
      BY Zenon, <1>2, <2>1, <2>2, <2>3, <2>4 DEF SrvNext, ServerStep
  <1>3. CASE UNCHANGED lockVars
    BY <1>3 DEF lockVars
  <1> QED
    BY <1>1, <1>2, <1>3, LockCases

\* worker.rs, is_running and lock_worker: the lock says who serves, so no two processes do.
THEOREM LockIsDisciplined == LockSpec => [](LockDiscipline /\ OneServes)
  <1>1. LockDiscipline => OneServes
    BY LockNames DEF LockDiscipline, OneServes
  <1> QED
    BY DisciplineInit, DisciplineNext, <1>1, PTL DEF LockSpec

LEMMA StrandedNext == LockDiscipline /\ NoJobStranded /\ [LockNext]_lockVars => NoJobStranded'
  <1> SUFFICES ASSUME LockDiscipline, NoJobStranded, [LockNext]_lockVars PROVE NoJobStranded'
    OBVIOUS
  <1> USE DEF NoJobStranded, Attended, Moves
  <1>0. sub \in [Client -> {"new", "submitted", "probing", "spawning", "done"}]
        /\ wrk \in [Client -> {"none", "locking", "serving", "leaving", "rechecking", "gone"}]
    BY DEF LockDiscipline, LockTypeOK
  <1>1. ASSUME NEW s \in Client, SubNext(s) PROVE NoJobStranded'
    <2>1. CASE Submit(s)
      BY <1>0, <2>1 DEF Submit
    <2>2. CASE FoundRunning(s)
      BY <1>0, <2>2, LockHolders DEF FoundRunning
    <2>3. CASE Probe(s)
      BY <1>0, <2>3 DEF Probe
    <2>4. CASE ProbeEnd(s)
      BY <1>0, <2>4 DEF ProbeEnd
    <2>5. CASE SpawnDetached(s)
      BY <1>0, <2>5 DEF SpawnDetached
    <2>6. CASE LockWorker(s)
      BY <1>0, <2>6 DEF LockWorker
    <2>7. CASE LockTaken(s)
      BY <1>0, <2>7, LockHolders DEF LockTaken
    <2>8. CASE ServeJob(s)
      BY <1>0, <2>8 DEF ServeJob
    <2>9. CASE IdleExit(s)
      BY <1>0, <2>9 DEF IdleExit
    <2>10. CASE DropLock(s)
      BY <1>0, <2>10 DEF DropLock
    <2>11. CASE Recheck(s)
      BY <1>0, <2>11 DEF Recheck
    <2> QED
      BY Zenon, <1>1, <2>1, <2>2, <2>3, <2>4, <2>5, <2>6, <2>7, <2>8, <2>9, <2>10, <2>11
      DEF SubNext, SubmitterStep, WorkerStep
  <1>2. CASE SrvNext
    <2>1. srv # "off" /\ srv' # "off"
      BY <1>2 DEF SrvNext, ServerSubmit, ServerStep, ServerLock, ServerServe, ServerCrash
    <2> QED
      BY <2>1
  <1>3. CASE UNCHANGED lockVars
    BY <1>3 DEF lockVars
  <1> QED
    BY <1>1, <1>2, <1>3, LockCases

\* worker.rs, run and ensure_running: a queued job always has a process left that will serve it or
\* is about to start one, since the process that held the lock when somebody else asked looks at
\* the queue, or spawns a worker, after it has let go.
THEOREM NobodyIsStranded == LockSpec => []NoJobStranded
  <1>1. LockInit => NoJobStranded
    BY DEF LockInit, NoJobStranded
  <1> QED
    BY DisciplineInit, DisciplineNext, StrandedNext, <1>1, PTL DEF LockSpec
=============================================================================
