----------------------------- MODULE WorkerLock -----------------------------
(***************************************************************************)
(* Who works the queue: the advisory lock worker.lock, the submitters that *)
(* start a detached worker when they find nobody holding it, the workers   *)
(* that give it back when idle, and the server that keeps it for good      *)
(* (job-queue/src/worker.rs, backend.rs, server.rs).  Asking whether a     *)
(* worker runs takes the lock for a moment, so a question can itself be    *)
(* mistaken for a worker.  What a worker does with a job is JobQueue's.    *)
(***************************************************************************)
EXTENDS Naturals

CONSTANTS
  Client,            \* processes that submit one job to a local queue
  Request,           \* jobs that reach the server over HTTP
  MaxServerCrashes   \* bound: crashes of the server

ASSUME LockAssumption ==
  /\ MaxServerCrashes \in Nat /\ Client \cap Request = {}

VARIABLES
  queued,   \* jobs whose file says queued, named by who submitted them
  lock,     \* who holds worker.lock
  sub,      \* sub[s]: where submitter s is
  wrk,      \* wrk[s]: where the worker that s spawned is
  srv,      \* where the server is
  asked,    \* requests the server has accepted
  serverCrashes

lockVars == <<queued, lock, sub, wrk, srv, asked, serverCrashes>>

Free == <<"free">>
Server == <<"server">>
ProbeOf(s) == <<"probe", s>>
WorkerOf(s) == <<"worker", s>>

LockTypeOK ==
  /\ queued \subseteq Client \cup Request
  /\ lock \in {Free, Server} \cup {ProbeOf(s) : s \in Client} \cup {WorkerOf(s) : s \in Client}
  /\ sub \in [Client -> {"new", "submitted", "probing", "spawning", "done"}]
  /\ wrk \in [Client -> {"none", "locking", "serving", "leaving", "rechecking", "gone"}]
  /\ srv \in {"off", "starting", "serving"}
  /\ asked \subseteq Request /\ serverCrashes \in 0..MaxServerCrashes

\* The deployment decides whether a supervised `rewriter-queue serve` owns the queue directory.
LockInit ==
  /\ queued = {} /\ lock = Free /\ asked = {} /\ serverCrashes = 0
  /\ sub = [s \in Client |-> "new"] /\ wrk = [s \in Client |-> "none"]
  /\ srv \in {"off", "starting"}

-----------------------------------------------------------------------------
(* A submitter: Backend::submit on a local queue, then ensure_running. *)

Moves(pcs, s, from, to) == pcs[s] = from /\ pcs' = [pcs EXCEPT ![s] = to]

Submit(s) ==
  /\ Moves(sub, s, "new", "submitted")
  /\ queued' = queued \cup {s}
  /\ UNCHANGED <<lock, wrk, srv, asked, serverCrashes>>

\* is_running finds the lock taken, by a worker or by somebody else's question.
FoundRunning(s) ==
  /\ lock # Free
  /\ Moves(sub, s, "submitted", "done")
  /\ UNCHANGED <<queued, lock, wrk, srv, asked, serverCrashes>>

\* is_running takes the lock itself ...
Probe(s) ==
  /\ lock = Free /\ lock' = ProbeOf(s)
  /\ Moves(sub, s, "submitted", "probing")
  /\ UNCHANGED <<queued, wrk, srv, asked, serverCrashes>>

\* ... and drops it on returning.
ProbeEnd(s) ==
  /\ Moves(sub, s, "probing", "spawning")
  /\ lock' = Free
  /\ UNCHANGED <<queued, wrk, srv, asked, serverCrashes>>

SpawnDetached(s) ==
  /\ Moves(sub, s, "spawning", "done")
  /\ wrk' = [wrk EXCEPT ![s] = "locking"]
  /\ UNCHANGED <<queued, lock, srv, asked, serverCrashes>>

-----------------------------------------------------------------------------
(* A detached worker: worker::run. *)

\* Mutant: try_lock is not asked.
LockWorker_Always(s) ==
  /\ lock' = WorkerOf(s)
  /\ Moves(wrk, s, "locking", "serving")
  /\ UNCHANGED <<queued, sub, srv, asked, serverCrashes>>

LockWorker(s) ==
  /\ lock = Free /\ lock' = WorkerOf(s)
  /\ Moves(wrk, s, "locking", "serving")
  /\ UNCHANGED <<queued, sub, srv, asked, serverCrashes>>

\* try_lock would block: the worker leaves the queue to the holder.
LockTaken(s) ==
  /\ lock # Free
  /\ Moves(wrk, s, "locking", "gone")
  /\ UNCHANGED <<queued, lock, sub, srv, asked, serverCrashes>>

\* serve launches a queued job.
ServeJob(s) ==
  /\ wrk[s] = "serving"
  /\ \E j \in queued : queued' = queued \ {j}
  /\ UNCHANGED <<lock, sub, wrk, srv, asked, serverCrashes>>

\* Nothing queued for IDLE_EXIT: serve returns, the lock still held.
IdleExit(s) ==
  /\ queued = {}
  /\ Moves(wrk, s, "serving", "leaving")
  /\ UNCHANGED <<queued, lock, sub, srv, asked, serverCrashes>>

DropLock(s) ==
  /\ lock' = Free
  /\ Moves(wrk, s, "leaving", "rechecking")
  /\ UNCHANGED <<queued, sub, srv, asked, serverCrashes>>

\* Mutant: the worker does not look at the queue again after dropping the lock.
Recheck_Not(s) ==
  /\ Moves(wrk, s, "rechecking", "gone")
  /\ UNCHANGED <<queued, lock, sub, srv, asked, serverCrashes>>

\* A job that was queued while serve was returning: its submitter saw the lock held.
Recheck(s) ==
  /\ Moves(wrk, s, "rechecking", IF queued = {} THEN "gone" ELSE "locking")
  /\ UNCHANGED <<queued, lock, sub, srv, asked, serverCrashes>>

-----------------------------------------------------------------------------
(* The server: server::run, with worker::serve and no idle exit on a thread. *)

ServerLock ==
  /\ srv = "starting" /\ lock = Free
  /\ srv' = "serving" /\ lock' = Server
  /\ UNCHANGED <<queued, sub, wrk, asked, serverCrashes>>

\* POST /jobs queues and never calls ensure_running: the server is the worker.
ServerSubmit(r) ==
  /\ srv = "serving" /\ r \notin asked
  /\ asked' = asked \cup {r} /\ queued' = queued \cup {r}
  /\ UNCHANGED <<lock, sub, wrk, srv, serverCrashes>>

ServerServe ==
  /\ srv = "serving"
  /\ \E j \in queued : queued' = queued \ {j}
  /\ UNCHANGED <<lock, sub, wrk, srv, asked, serverCrashes>>

\* Mutant: the lock outlives the process that took it.
ServerCrash_LockKept ==
  /\ srv = "serving" /\ serverCrashes < MaxServerCrashes
  /\ srv' = "starting" /\ serverCrashes' = serverCrashes + 1
  /\ UNCHANGED <<queued, lock, sub, wrk, asked>>

\* The process dies, or serve returns an error and the process exits; its supervisor starts it
\* again.  (When the lock is taken `serve` exits as well: it stays "starting".)
ServerCrash ==
  /\ srv = "serving" /\ serverCrashes < MaxServerCrashes
  /\ srv' = "starting" /\ lock' = Free /\ serverCrashes' = serverCrashes + 1
  /\ UNCHANGED <<queued, sub, wrk, asked>>

-----------------------------------------------------------------------------

SubmitterStep(s) == FoundRunning(s) \/ Probe(s) \/ ProbeEnd(s) \/ SpawnDetached(s)
WorkerStep(s)    == \/ LockWorker(s) \/ LockTaken(s) \/ ServeJob(s)
                    \/ IdleExit(s) \/ DropLock(s) \/ Recheck(s)
ServerStep       == ServerLock \/ ServerServe

LockNext ==
  \/ \E s \in Client : Submit(s) \/ SubmitterStep(s) \/ WorkerStep(s)
  \/ \E r \in Request : ServerSubmit(r)
  \/ ServerStep \/ ServerCrash

LockSpec == LockInit /\ [][LockNext]_lockVars

\* Every process that runs goes on running, and a supervisor restarts the server; nobody has to
\* submit anything.
FairLockSpec ==
  /\ LockSpec
  /\ \A s \in Client : WF_lockVars(SubmitterStep(s)) /\ WF_lockVars(WorkerStep(s))
  /\ WF_lockVars(ServerStep)

-----------------------------------------------------------------------------

\* The lock is held by exactly the process whose place in its code says so: a probe by a submitter
\* inside is_running, a worker or a server until it has dropped it.
LockDiscipline ==
  /\ LockTypeOK
  /\ \A s \in Client : /\ lock = ProbeOf(s) <=> sub[s] = "probing"
                       /\ lock = WorkerOf(s) <=> wrk[s] \in {"serving", "leaving"}
                       /\ sub[s] # "done" => wrk[s] = "none"
  /\ lock = Server <=> srv = "serving"

\* Two processes never serve the queue at once, be it two workers or a worker and the server:
\* what JobQueue takes for granted.
OneServes ==
  /\ \A s, t \in Client :
       wrk[s] \in {"serving", "leaving"} /\ wrk[t] \in {"serving", "leaving"} => s = t
  /\ srv = "serving" => \A s \in Client : wrk[s] \notin {"serving", "leaving"}

\* Somebody who has not finished will still look at the queue, having seen or not yet checked
\* whether it is served.
Attended ==
  \/ srv # "off"
  \/ \E s \in Client : \/ sub[s] \in {"submitted", "probing", "spawning"}
                       \/ wrk[s] \in {"locking", "serving", "leaving", "rechecking"}

\* A queued job is never left behind: whatever submitters, probes and idle exits overlap, a
\* process remains that will serve it.
NoJobStranded == queued # {} => Attended

\* Every queued job is taken up.
JobsAreServed == \A j \in Client \cup Request : j \in queued ~> j \notin queued
=============================================================================
