-------------------------- MODULE MilestonesProofs --------------------------
(***************************************************************************)
(* What module Milestones promises, for all plans and answers, every depth *)
(* of splits, every budget and number of rounds and of launches.           *)
(***************************************************************************)
EXTENDS Milestones, FiniteSetTheorems, SequenceTheorems, WellFoundedInduction, TLAPS

-----------------------------------------------------------------------------
(* Steps and records. *)

LEMMA NextCases ==
    ASSUME [Next]_vars
    PROVE  \/ Launch \/ Crash \/ (main = "up" /\ EndRound)
           \/ \E id \in DOMAIN call :
                \/ AskPlan(id) \/ PlannerFails(id) \/ Review(id) \/ ReviewFails(id)
                \/ StartWave(id) \/ EndWave(id)
           \/ \E m \in DOMAIN ms :
                \/ Begin(m) \/ SplitReturns(m) \/ Worker(m) \/ SecurityReviewer(m)
                \/ MaintenanceReviewer(m) \/ AgentFails(m) \/ OutOfBudget(m) \/ FinerReturns(m)
           \/ UNCHANGED vars
  BY DEF Next, Orchestrate, CallStep, MilestoneStep

\* Attempt, without the records of the plan that decide how much of a budget there is.
Attempted(m) ==
    /\ UNCHANGED call
    /\ \E b \in Nat : ms' = [ms EXCEPT ![m].st = "worker", ![m].iter = 0, ![m].budget = b]

LEMMA AttemptIs == ASSUME NEW m, Attempt(m) PROVE Attempted(m)
  <1>1. Budgets \subseteq Nat /\ MaxIter \in Nat
    BY BoundsAssumption DEF Budgets
  <1>2. PICK b \in Budgets \cup {MaxIter} :
          ms' = [ms EXCEPT ![m].st = "worker", ![m].iter = 0, ![m].budget = b]
    BY Zenon DEF Attempt
  <1> QED
    BY <1>1, <1>2 DEF Attempt, Attempted

LEMMA BeginIs ==
    ASSUME NEW m, Begin(m)
    PROVE  /\ ms[m].st = "start"
           /\ Split(m, "split", ms[m].force) \/ Attempted(m)
           /\ UNCHANGED <<checkpoints, main, round, launches, sig, history>>
  BY AttemptIs, Zenon DEF Begin

CallFields == {"st", "plan", "sched", "wave", "dir", "force", "files"}
MsFields == {"st", "iter", "budget", "dir", "force", "files"}

Shape ==
    /\ \A id \in DOMAIN call : DOMAIN call[id] = CallFields
    /\ \A m \in DOMAIN ms : DOMAIN ms[m] = MsFields

\* What the steps of a milestone have in common: they change its record, and no call but the
\* one that splits it.
Moved(m) ==
    /\ DOMAIN ms' = DOMAIN ms /\ DOMAIN ms'[m] = MsFields
    /\ \A n \in DOMAIN ms \ {m} : ms'[n] = ms[n]
    /\ ms'[m].dir = ms[m].dir
    /\ call' = call \/ \E d, f : call' = Put(call, m, NewCall(d, f))
    /\ UNCHANGED <<scene, planned, reviewed, main, round, launches, used, unreviewed>>

LEMMA MilestoneMoves ==
    ASSUME Shape, NEW m \in DOMAIN ms,
           \/ Begin(m) \/ SplitReturns(m) \/ Worker(m) \/ SecurityReviewer(m)
           \/ MaintenanceReviewer(m) \/ AgentFails(m) \/ OutOfBudget(m) \/ FinerReturns(m)
    PROVE  Moved(m)
  <1> USE DEF Shape, MsFields, Moved, checkpoints, history
  <1>1. CASE Begin(m)
    <2>0. UNCHANGED <<checkpoints, main, round, launches, sig, history>>
      BY <1>1, BeginIs
    <2>1. CASE Split(m, "split", ms[m].force)
      <3>1. call' = Put(call, m, NewCall(ms[m].dir, ms[m].force))
        BY <2>1 DEF Split
      <3>2. \E d, f : call' = Put(call, m, NewCall(d, f))
        BY <3>1
      <3>3. ms' = [ms EXCEPT ![m].st = "split"]
        BY <2>1 DEF Split
      <3> QED
        BY <2>0, <3>2, <3>3
    <2>2. CASE Attempted(m)
      BY <2>0, <2>2 DEF Attempted
    <2> QED
      BY <1>1, <2>1, <2>2, BeginIs
  <1>2. CASE SplitReturns(m)
    <2>1. CASE Attempted(m)
      BY <1>2, <2>1 DEF Attempted, SplitReturns
    <2> QED
      BY <1>2, <2>1, AttemptIs DEF SplitReturns, Deliver
  <1>3. CASE Worker(m)
    BY <1>3 DEF Worker, NextIteration
  <1>4. CASE SecurityReviewer(m)
    BY <1>4 DEF SecurityReviewer
  <1>5. CASE MaintenanceReviewer(m)
    BY <1>5 DEF MaintenanceReviewer, Deliver, NextIteration
  <1>6. CASE AgentFails(m)
    BY <1>6 DEF AgentFails
  <1>7. CASE OutOfBudget(m)
    BY <1>7 DEF OutOfBudget, Split, Deliver
  <1>8. CASE FinerReturns(m)
    BY <1>8 DEF FinerReturns, Deliver
  <1> QED
    BY <1>1, <1>2, <1>3, <1>4, <1>5, <1>6, <1>7, <1>8

LEMMA ShapeInit == Init => Shape
  BY DEF Init, Shape, Nothing

LEMMA ShapeNext == Shape /\ [Next]_vars => Shape'
  <1> SUFFICES ASSUME Shape, [Next]_vars PROVE Shape'
    OBVIOUS
  <1> USE DEF Shape, CallFields, MsFields, Put, NewCall, NewMilestone, Nothing
  <1>1. CASE Launch
    BY <1>1 DEF Launch
  <1>2. CASE Crash
    BY <1>2 DEF Crash
  <1>3. CASE EndRound
    BY <1>3 DEF EndRound, StartRound
  <1>4. ASSUME NEW id \in DOMAIN call,
               \/ AskPlan(id) \/ PlannerFails(id) \/ Review(id) \/ ReviewFails(id)
               \/ StartWave(id) \/ EndWave(id)
        PROVE  Shape'
    BY <1>4 DEF AskPlan, PlannerFails, Review, ReviewFails, StartWave, EndWave, Follow
  <1>5. ASSUME NEW m \in DOMAIN ms,
               \/ Begin(m) \/ SplitReturns(m) \/ Worker(m) \/ SecurityReviewer(m)
               \/ MaintenanceReviewer(m) \/ AgentFails(m) \/ OutOfBudget(m) \/ FinerReturns(m)
        PROVE  Shape'
    <2>1. Moved(m)
      BY <1>5, MilestoneMoves
    <2> QED
      BY <2>1 DEF Moved
  <1>6. CASE UNCHANGED vars
    BY <1>6 DEF vars
  <1> QED
    BY <1>1, <1>2, <1>3, <1>4, <1>5, <1>6, NextCases

\* An answer that a checkpoint gave, or that becomes one, changes no other.
LEMMA CheckpointsStay ==
    ASSUME NEW saved, NEW id, NEW answers, NEW a \in Checkpoint(saved, id, answers)
    PROVE  /\ id \in DOMAIN Put(saved, id, a) /\ Put(saved, id, a)[id] = a
           /\ \A z \in DOMAIN saved : z \in DOMAIN Put(saved, id, a) /\ Put(saved, id, a)[z] = saved[z]
  BY DEF Checkpoint, Put

-----------------------------------------------------------------------------
(* A relaunch does what the launch before it did. *)

\* The plan a call follows is what the checkpoints of its plan and its review say.
PlanInv ==
    /\ \A id \in DOMAIN call :
          call[id].st = "review" => id \in DOMAIN planned /\ call[id].plan = planned[id]
    /\ \A u \in used :
          /\ u = <<u[1], u[2]>>
          /\ \/ u[1] \in unreviewed
             \/ /\ u[1] \in DOMAIN planned /\ u[1] \in DOMAIN reviewed
                /\ u[2] = IF reviewed[u[1]] = << >> THEN planned[u[1]] ELSE reviewed[u[1]]

LEMMA PlanInvInit == Init => PlanInv
  BY DEF Init, PlanInv, Nothing

LEMMA PlanInvNext == Shape /\ PlanInv /\ [Next]_vars => PlanInv'
  <1> SUFFICES ASSUME Shape, PlanInv, [Next]_vars PROVE PlanInv'
    OBVIOUS
  <1> USE DEF PlanInv, checkpoints, history
  <1>1. CASE Launch
    BY <1>1 DEF Launch, Put, NewCall, Nothing
  <1>2. CASE Crash
    BY <1>2 DEF Crash
  <1>3. CASE EndRound
    BY <1>3 DEF EndRound, StartRound, Put, NewCall
  <1>4. ASSUME NEW id \in DOMAIN call, AskPlan(id)
        PROVE  PlanInv'
    <2>1. PICK p \in Checkpoint(planned, id, Answers(id)) :
            /\ planned' = Put(planned, id, p)
            /\ call' = [call EXCEPT ![id].plan = p, ![id].st = IF p = << >> THEN "done" ELSE "review"]
      BY <1>4 DEF AskPlan
    <2>2. /\ id \in DOMAIN planned' /\ planned'[id] = p
          /\ \A z \in DOMAIN planned : z \in DOMAIN planned' /\ planned'[z] = planned[z]
      BY <2>1, CheckpointsStay
    <2> QED
      BY <1>4, <2>1, <2>2 DEF AskPlan, Shape, CallFields
  <1>5. ASSUME NEW id \in DOMAIN call, Review(id)
        PROVE  PlanInv'
    <2>1. PICK r \in Checkpoint(reviewed, id, Answers(id) \cup {<< >>}) :
            /\ reviewed' = Put(reviewed, id, r)
            /\ Follow(id, IF r = << >> THEN call[id].plan ELSE r)
      BY <1>5 DEF Review
    <2>2. /\ id \in DOMAIN reviewed' /\ reviewed'[id] = r
          /\ \A z \in DOMAIN reviewed : z \in DOMAIN reviewed' /\ reviewed'[z] = reviewed[z]
      BY <2>1, CheckpointsStay
    <2> QED
      BY <1>5, <2>1, <2>2 DEF Review, Follow, Shape, CallFields
  <1>6. ASSUME NEW id \in DOMAIN call, ReviewFails(id)
        PROVE  PlanInv'
    BY <1>6 DEF ReviewFails, Follow, Shape, CallFields
  <1>7. ASSUME NEW id \in DOMAIN call, PlannerFails(id) \/ StartWave(id) \/ EndWave(id)
        PROVE  PlanInv'
    BY <1>7 DEF PlannerFails, StartWave, EndWave, Shape, CallFields
  <1>8. ASSUME NEW m \in DOMAIN ms,
               \/ Begin(m) \/ SplitReturns(m) \/ Worker(m) \/ SecurityReviewer(m)
               \/ MaintenanceReviewer(m) \/ AgentFails(m) \/ OutOfBudget(m) \/ FinerReturns(m)
        PROVE  PlanInv'
    <2>1. Moved(m)
      BY <1>8, MilestoneMoves
    <2> QED
      BY <2>1 DEF Moved, Put, NewCall
  <1>9. CASE UNCHANGED vars
    BY <1>9 DEF vars
  <1> QED
    BY <1>1, <1>2, <1>3, <1>4, <1>5, <1>6, <1>7, <1>8, <1>9, NextCases

-----------------------------------------------------------------------------
\* An iteration that converged: its answers passed the gate and both reviews.
Converged(m, k) ==
    /\ <<m, k>> \in DOMAIN worked /\ worked[<<m, k>>] = "clean"
    /\ <<m, k>> \in DOMAIN security /\ security[<<m, k>>]
    /\ <<m, k>> \in DOMAIN maintenance /\ maintenance[<<m, k>>]

\* A milestone that converged once does not get past that iteration again.
BeforeWin(w) ==
    /\ w[2] \in Nat \ {0} /\ Converged(w[1], w[2] - 1)
    /\ w[1] \in DOMAIN ms =>
          /\ ms[w[1]].st \in Building => ms[w[1]].iter < w[2]
          /\ ms[w[1]].st = "finer" => ms[w[1]].budget < w[2]

Iterating(m) ==
    /\ ms[m].iter \in Nat /\ ms[m].budget \in Nat
    /\ ms[m].st \in {"security", "maintenance"} =>
          Iter(m) \in DOMAIN worked /\ worked[Iter(m)] = "clean"
    /\ ms[m].st = "maintenance" => Iter(m) \in DOMAIN security

WonInv == (\A m \in DOMAIN ms : Iterating(m)) /\ (\A w \in won : BeforeWin(w))

LEMMA WonInvInit == Init => WonInv
  BY DEF Init, WonInv, Nothing

LEMMA WonInvNext == Shape /\ WonInv /\ [Next]_vars => WonInv'
  <1> SUFFICES ASSUME Shape, WonInv, [Next]_vars PROVE WonInv'
    OBVIOUS
  <1> USE DEF checkpoints, history
  <1>0. ASSUME UNCHANGED <<worked, security, maintenance, won>>,
               \A m \in DOMAIN ms' :
                  \/ m \in DOMAIN ms /\ ms'[m].iter = ms[m].iter /\ ms'[m].budget = ms[m].budget
                     /\ ms'[m].st \in {ms[m].st, "split", "done", "failed"}
                  \/ ms'[m].st \in {"start", "worker"} /\ ms'[m].iter = 0 /\ ms'[m].budget \in Nat
        PROVE  WonInv'
    <2>1. ASSUME NEW m \in DOMAIN ms' PROVE Iterating(m)'
      BY <1>0, <2>1 DEF WonInv, Iterating, Iter
    <2>2. ASSUME NEW w \in won' PROVE BeforeWin(w)'
      <3>1. BeforeWin(w)
        BY <1>0 DEF WonInv
      <3> QED
        BY <1>0, <3>1 DEF BeforeWin, Converged, Building
    <2> QED
      BY <2>1, <2>2 DEF WonInv
  <1>1. CASE Launch
    BY <1>0, <1>1 DEF Launch, Nothing
  <1>2. CASE Crash \/ EndRound \/ UNCHANGED vars
    BY <1>0, <1>2 DEF Crash, EndRound, vars
  <1>3. ASSUME NEW id \in DOMAIN call, StartWave(id)
        PROVE  WonInv'
    BY <1>0, <1>3 DEF StartWave, NewMilestone
  <1>4. ASSUME NEW id \in DOMAIN call,
               AskPlan(id) \/ PlannerFails(id) \/ Review(id) \/ ReviewFails(id) \/ EndWave(id)
        PROVE  WonInv'
    BY <1>0, <1>4 DEF AskPlan, PlannerFails, Review, ReviewFails, Follow, EndWave
  <1>5. ASSUME NEW m \in DOMAIN ms, Begin(m) \/ SplitReturns(m) \/ AgentFails(m) \/ FinerReturns(m)
        PROVE  WonInv'
    <2>1. UNCHANGED <<worked, security, maintenance, won>>
      BY <1>5, BeginIs DEF SplitReturns, AgentFails, FinerReturns
    <2>2. CASE Attempted(m)
      BY <1>0, <2>1, <2>2 DEF Attempted, Shape, MsFields
    <2>3. CASE \E st \in {"split", "failed"} : ms' = [ms EXCEPT ![m].st = st]
      BY <1>0, <2>1, <2>3 DEF Shape, MsFields
    <2>4. CASE \E files : Deliver(m, files)
      BY <1>0, <2>1, <2>4 DEF Deliver, Shape, MsFields
    <2>5. CASE Begin(m)
      BY <2>5, <2>2, <2>3, BeginIs DEF Split
    <2>6. CASE SplitReturns(m)
      BY <2>6, <2>2, <2>3, <2>4, AttemptIs DEF SplitReturns
    <2> QED
      BY <1>5, <2>3, <2>4, <2>5, <2>6 DEF AgentFails, FinerReturns
  <1>6. ASSUME NEW m \in DOMAIN ms, Worker(m)
        PROVE  WonInv'
    <2>1. PICK v \in Checkpoint(worked, Iter(m), scene.verdicts) :
            /\ worked' = Put(worked, Iter(m), v)
            /\ IF v = "clean" THEN ms' = [ms EXCEPT ![m].st = "security"] ELSE NextIteration(m)
      BY <1>6 DEF Worker
    <2>2. /\ Iter(m) \in DOMAIN worked' /\ worked'[Iter(m)] = v
          /\ \A z \in DOMAIN worked : z \in DOMAIN worked' /\ worked'[z] = worked[z]
      BY <2>1, CheckpointsStay
    <2>3. /\ ms[m].st = "worker" /\ UNCHANGED <<security, maintenance, won>>
          /\ DOMAIN ms' = DOMAIN ms /\ \A n \in DOMAIN ms \ {m} : ms'[n] = ms[n]
          /\ ms'[m].budget = ms[m].budget
          /\ \/ v = "clean" /\ ms'[m].st = "security" /\ ms'[m].iter = ms[m].iter
             \/ v # "clean" /\ ms'[m].st = "worker" /\ ms'[m].iter = ms[m].iter + 1
      BY <1>6, <2>1 DEF Worker, NextIteration, Shape, MsFields
    <2>4. ASSUME NEW n \in DOMAIN ms' PROVE Iterating(n)'
      <3>1. Iterating(n)
        BY <2>3 DEF WonInv
      <3>2. CASE n = m
        BY <2>2, <2>3, <3>1, <3>2 DEF Iterating, Iter
      <3>3. CASE n # m
        BY <2>2, <2>3, <3>1, <3>3 DEF Iterating, Iter
      <3> QED
        BY <3>2, <3>3
    <2>5. ASSUME NEW w \in won' PROVE BeforeWin(w)'
      <3>1. BeforeWin(w) /\ Iterating(m)
        BY <2>3 DEF WonInv
      <3>2. Converged(w[1], w[2] - 1)'
        BY <2>2, <2>3, <3>1 DEF BeforeWin, Converged
      <3>3. ASSUME w[1] = m PROVE ms'[m].iter < w[2]
        <4>1. ms[m].iter < w[2] /\ w[2] \in Nat /\ ms[m].iter \in Nat
          BY <2>3, <3>1, <3>3 DEF BeforeWin, Iterating, Building
        <4>2. CASE ms[m].iter = w[2] - 1
          BY <2>2, <2>3, <3>2, <3>3, <4>1, <4>2 DEF Converged, Iter
        <4> QED
          BY <2>3, <4>1, <4>2
      <3> QED
        BY <2>3, <3>1, <3>2, <3>3 DEF BeforeWin
    <2> QED
      BY <2>4, <2>5 DEF WonInv
  <1>7. ASSUME NEW m \in DOMAIN ms, SecurityReviewer(m)
        PROVE  WonInv'
    <2>1. PICK v \in Checkpoint(security, Iter(m), scene.reviews) : security' = Put(security, Iter(m), v)
      BY <1>7 DEF SecurityReviewer
    <2>2. /\ Iter(m) \in DOMAIN security'
          /\ \A z \in DOMAIN security : z \in DOMAIN security' /\ security'[z] = security[z]
      BY <2>1, CheckpointsStay
    <2>3. /\ ms[m].st = "security" /\ UNCHANGED <<worked, maintenance, won>>
          /\ DOMAIN ms' = DOMAIN ms /\ \A n \in DOMAIN ms \ {m} : ms'[n] = ms[n]
          /\ ms'[m].budget = ms[m].budget /\ ms'[m].iter = ms[m].iter /\ ms'[m].st = "maintenance"
      BY <1>7 DEF SecurityReviewer, Shape, MsFields
    <2>4. ASSUME NEW n \in DOMAIN ms' PROVE Iterating(n)'
      BY <2>2, <2>3 DEF WonInv, Iterating, Iter
    <2>5. ASSUME NEW w \in won' PROVE BeforeWin(w)'
      <3>1. BeforeWin(w)
        BY <2>3 DEF WonInv
      <3>2. Converged(w[1], w[2] - 1)'
        BY <2>2, <2>3, <3>1 DEF BeforeWin, Converged
      <3> QED
        BY <2>3, <3>1, <3>2 DEF BeforeWin, Building
    <2> QED
      BY <2>4, <2>5 DEF WonInv
  <1>8. ASSUME NEW m \in DOMAIN ms, MaintenanceReviewer(m)
        PROVE  WonInv'
    <2> DEFINE Passes == maintenance'[Iter(m)] /\ security[Iter(m)]
    <2>1. PICK v \in Checkpoint(maintenance, Iter(m), scene.reviews) :
            /\ maintenance' = Put(maintenance, Iter(m), v)
            /\ IF v /\ security[Iter(m)]
               THEN Deliver(m, {m}) /\ won' = won \cup {<<m, ms[m].iter + 1>>}
               ELSE NextIteration(m) /\ UNCHANGED won
      BY <1>8, Zenon DEF MaintenanceReviewer
    <2>2. /\ Iter(m) \in DOMAIN maintenance' /\ maintenance'[Iter(m)] = v
          /\ \A z \in DOMAIN maintenance : z \in DOMAIN maintenance' /\ maintenance'[z] = maintenance[z]
      BY <2>1, CheckpointsStay
    <2>3. /\ ms[m].st = "maintenance" /\ UNCHANGED <<worked, security>>
      BY <1>8 DEF MaintenanceReviewer
    <2>4. Iter(m) \in DOMAIN worked /\ worked[Iter(m)] = "clean" /\ Iter(m) \in DOMAIN security
      BY <2>3 DEF WonInv, Iterating
    <2>5. CASE Passes
      <3>1. Deliver(m, {m}) /\ won' = won \cup {<<m, ms[m].iter + 1>>}
        BY <2>1, <2>2, <2>5, Zenon
      <3>2. /\ DOMAIN ms' = DOMAIN ms /\ \A n \in DOMAIN ms \ {m} : ms'[n] = ms[n]
            /\ ms'[m].budget = ms[m].budget /\ ms'[m].iter = ms[m].iter /\ ms'[m].st = "done"
        BY <3>1 DEF Deliver, Shape, MsFields
      <3>3. ASSUME NEW n \in DOMAIN ms' PROVE Iterating(n)'
        BY <2>3, <3>2 DEF WonInv, Iterating, Iter
      <3>4. ASSUME NEW w \in won PROVE BeforeWin(w)'
        <4>1. BeforeWin(w)
          BY DEF WonInv
        <4>2. Converged(w[1], w[2] - 1)'
          BY <2>2, <2>3, <4>1, Zenon DEF BeforeWin, Converged
        <4> QED
          BY <3>2, <4>1, <4>2 DEF BeforeWin, Building
      <3>5. ASSUME NEW w, w = <<m, ms[m].iter + 1>> PROVE BeforeWin(w)'
        <4>1. ms[m].iter \in Nat
          BY DEF WonInv, Iterating
        <4>2. <<m, ms[m].iter>> = Iter(m)
          BY DEF Iter
        <4>3. Converged(m, ms[m].iter)'
          BY <2>2, <2>3, <2>4, <2>5, <3>2, <4>2, Zenon DEF Converged
        <4>4. ms[m].iter + 1 \in Nat \ {0} /\ (ms[m].iter + 1) - 1 = ms[m].iter
          BY <4>1
        <4> QED
          BY <3>2, <3>5, <4>3, <4>4 DEF BeforeWin, Building
      <3> QED
        BY <3>1, <3>3, <3>4, <3>5 DEF WonInv
    <2>6. CASE ~Passes
      <3>1. NextIteration(m) /\ UNCHANGED won
        BY <2>1, <2>2, <2>6, Zenon
      <3>2. /\ DOMAIN ms' = DOMAIN ms /\ \A n \in DOMAIN ms \ {m} : ms'[n] = ms[n]
            /\ ms'[m].budget = ms[m].budget /\ ms'[m].iter = ms[m].iter + 1 /\ ms'[m].st = "worker"
        BY <3>1 DEF NextIteration, Shape, MsFields
      <3>3. ASSUME NEW n \in DOMAIN ms' PROVE Iterating(n)'
        BY <2>3, <3>2 DEF WonInv, Iterating, Iter
      <3>4. ASSUME NEW w \in won PROVE BeforeWin(w)'
        <4>1. BeforeWin(w) /\ Iterating(m)
          BY DEF WonInv
        <4>2. Converged(w[1], w[2] - 1)'
          BY <2>2, <2>3, <4>1, Zenon DEF BeforeWin, Converged
        <4>3. ASSUME w[1] = m PROVE ms'[m].iter < w[2]
          <5>1. ms[m].iter < w[2] /\ w[2] \in Nat /\ ms[m].iter \in Nat
            BY <2>3, <4>1, <4>3 DEF BeforeWin, Iterating, Building
          <5>2. ms[m].iter # w[2] - 1
            BY <2>3, <2>6, <4>2, <4>3, Zenon DEF Converged, Iter
          <5> QED
            BY <3>2, <5>1, <5>2
        <4> QED
          BY <3>2, <4>1, <4>2, <4>3 DEF BeforeWin
      <3> QED
        BY <3>1, <3>3, <3>4 DEF WonInv
    <2> QED
      BY <2>5, <2>6
  <1>9. ASSUME NEW m \in DOMAIN ms, OutOfBudget(m)
        PROVE  WonInv'
    <2>1. /\ ms[m].st = "worker" /\ ms[m].iter >= ms[m].budget
          /\ UNCHANGED <<worked, security, maintenance, won>>
          /\ DOMAIN ms' = DOMAIN ms /\ \A n \in DOMAIN ms \ {m} : ms'[n] = ms[n]
          /\ ms'[m].budget = ms[m].budget /\ ms'[m].iter = ms[m].iter /\ ms'[m].st \in {"finer", "done"}
      <3>1. /\ ms[m].st = "worker" /\ ms[m].iter >= ms[m].budget
            /\ UNCHANGED <<worked, security, maintenance, won>>
            /\ ms' = [ms EXCEPT ![m].st = "finer"] \/ Deliver(m, {m})
        BY <1>9, Zenon DEF OutOfBudget, OutOfIterations, Split
      <3>2. CASE ms' = [ms EXCEPT ![m].st = "finer"]
        BY <3>1, <3>2 DEF Shape, MsFields
      <3>3. CASE Deliver(m, {m})
        BY <3>1, <3>3 DEF Deliver, Shape, MsFields
      <3> QED
        BY <3>1, <3>2, <3>3
    <2>2. ASSUME NEW n \in DOMAIN ms' PROVE Iterating(n)'
      BY <2>1 DEF WonInv, Iterating, Iter
    <2>3. ASSUME NEW w \in won' PROVE BeforeWin(w)'
      <3>1. BeforeWin(w) /\ Iterating(m)
        BY <2>1 DEF WonInv
      <3>2. Converged(w[1], w[2] - 1)'
        BY <2>1, <3>1 DEF BeforeWin, Converged
      <3>3. w[1] = m => ms[m].budget < w[2]
        BY <2>1, <3>1 DEF BeforeWin, Iterating, Building
      <3> QED
        BY <2>1, <3>1, <3>2, <3>3 DEF BeforeWin, Building
    <2> QED
      BY <2>2, <2>3 DEF WonInv
  <1> QED
    BY <1>1, <1>2, <1>3, <1>4, <1>5, <1>6, <1>7, <1>8, <1>9, NextCases

\* synthesis.rs and plan_review.rs over workspace.rs, checkpoint: a launch after another follows
\* the same plans, save where a review had failed, and neither splits nor gives up on a milestone
\* that converged within the budget it has now.
THEOREM RelaunchesAgree == Spec => []ReplayAgrees
  <1>1. Init => Shape /\ PlanInv /\ WonInv
    BY ShapeInit, PlanInvInit, WonInvInit
  <1>2. Shape /\ PlanInv /\ WonInv /\ [Next]_vars => (Shape /\ PlanInv /\ WonInv)'
    BY ShapeNext, PlanInvNext, WonInvNext
  <1>3. PlanInv /\ WonInv => ReplayAgrees
    <2> SUFFICES ASSUME PlanInv, WonInv PROVE ReplayAgrees
      OBVIOUS
    <2>1. ASSUME NEW u \in used, NEW v \in used, u[1] = v[1], u[1] \notin unreviewed PROVE u = v
      BY <2>1 DEF PlanInv
    <2>2. ASSUME NEW w \in won, w[1] \in DOMAIN ms,
                 \/ ms[w[1]].st = "finer"
                 \/ ms[w[1]].st = "worker" /\ ms[w[1]].iter = ms[w[1]].budget
          PROVE  w[2] > ms[w[1]].budget
      BY <2>2 DEF WonInv, BeforeWin, Iterating, Building
    <2> QED
      BY <2>1, <2>2 DEF ReplayAgrees
  <1> QED
    BY <1>1, <1>2, <1>3, PTL DEF Spec

-----------------------------------------------------------------------------
(* Ids and plans. *)

IsId(id) == id \in [round : Nat, at : Seq(Name)]

Ids ==
    /\ scene \in Scenes
    /\ \A id \in DOMAIN planned : planned[id] \in Plans
    /\ \A id \in DOMAIN reviewed : reviewed[id] \in Plans
    /\ round \in Nat
    /\ \A id \in DOMAIN call : IsId(id) /\ call[id].plan \in Plans
    /\ \A m \in DOMAIN ms : IsId(m) /\ m.at # << >>

LEMMA PlansAre ==
    ASSUME NEW p \in Plans
    PROVE  /\ DOMAIN p = 1..Len(p) /\ Len(p) \in Nat
           /\ \A i \in DOMAIN p : p[i].name \in Name
           /\ \A i, j \in DOMAIN p : p[i].name = p[j].name => i = j
  <1>1. p \in Seq(Milestone)
    BY PlansAssumption
  <1>2. \A i, j \in DOMAIN p : p[i].name = p[j].name => i = j
    BY PlansAssumption, Zenon
  <1>3. DOMAIN p = 1..Len(p) /\ Len(p) \in Nat
    BY <1>1
  <1>4. \A i \in DOMAIN p : p[i] \in Milestone
    BY <1>1, <1>3
  <1> QED
    BY <1>2, <1>3, <1>4 DEF Milestone

LEMMA Smallest ==
    ASSUME NEW S \in SUBSET Nat, S # {}
    PROVE  \E i \in S : \A j \in S : i <= j
  <1>1. \E i \in S : \A j \in S : <<j, i>> \notin OpToRel(<, Nat)
    BY NatLessThanWellFounded, WFMin
  <1>2. \A i, j \in Nat : <<j, i>> \notin OpToRel(<, Nat) => i <= j
    BY DEF OpToRel
  <1> QED
    BY <1>1, <1>2

\* As long as milestones are left the next wave has some of them; without a cycle it has
\* what they depend on behind it.
LEMMA NextWaveIs ==
    ASSUME NEW p \in Plans, NEW sched, sched \subseteq DOMAIN p, sched # DOMAIN p
    PROVE  /\ NextWave(p, sched) # {} /\ NextWave(p, sched) \subseteq DOMAIN p \ sched
           /\ Acyclic(p) => \A i \in NextWave(p, sched) : Deps(p, i) \subseteq sched
  <1> DEFINE open == DOMAIN p \ sched
             ready == {i \in open : Deps(p, i) \subseteq sched}
  <1>1. open \in SUBSET Nat /\ open # {}
    <2>1. DOMAIN p = 1..Len(p) /\ Len(p) \in Nat
      BY PlansAre
    <2>2. DOMAIN p \subseteq Nat
      BY <2>1
    <2> QED
      BY <2>2, Zenon
  <1>2. CASE ready # {}
    <2>1. NextWave(p, sched) = ready
      BY <1>2 DEF NextWave
    <2> QED
      BY <1>2, <2>1
  <1>3. CASE ready = {}
    <2>1. NextWave(p, sched) = {CHOOSE i \in open : \A j \in open : i <= j}
      BY <1>3 DEF NextWave
    <2>2. (CHOOSE i \in open : \A j \in open : i <= j) \in open
      BY <1>1, Smallest
    <2>3. ~Acyclic(p)
      <3> SUFFICES ASSUME Acyclic(p) PROVE FALSE
        OBVIOUS
      <3>1. PICK i \in open : Deps(p, i) \cap open = {}
        BY <1>1 DEF Acyclic
      <3>2. Deps(p, i) \subseteq sched
        BY <3>1 DEF Deps
      <3> QED
        BY <1>3, <3>2
    <2> QED
      BY <2>1, <2>2, <2>3
  <1> QED
    BY <1>2, <1>3

LEMMA UnderIs ==
    ASSUME NEW id, IsId(id), NEW name \in Name
    PROVE  /\ IsId(Under(id, name)) /\ Under(id, name).at # << >>
           /\ Under(id, name).round = id.round /\ Under(id, name).at = Append(id.at, name)
  BY AppendProperties DEF IsId, Under

\* Milestones of different calls, and the milestones of one call, have different ids.
LEMMA UnderIsUnique ==
    ASSUME NEW id, IsId(id), NEW name \in Name, NEW other, IsId(other), NEW name2 \in Name,
           Under(id, name) = Under(other, name2)
    PROVE  id = other /\ name = name2
  <1>1. id.round = other.round /\ Append(id.at, name) = Append(other.at, name2)
    <2>1. ASSUME NEW d, IsId(d), NEW n PROVE Under(d, n).round = d.round /\ Under(d, n).at = Append(d.at, n)
      BY <2>1 DEF IsId, Under
    <2>2. Under(id, name).round = id.round /\ Under(id, name).at = Append(id.at, name)
      BY <2>1
    <2>3. Under(other, name2).round = other.round /\ Under(other, name2).at = Append(other.at, name2)
      BY <2>1
    <2> QED
      BY <2>2, <2>3
  <1>2. id.at = other.at /\ name = name2
    BY <1>1, AppendInjective DEF IsId
  <1> QED
    BY <1>1, <1>2 DEF IsId

LEMMA AnswersArePlans == ASSUME Ids, NEW id PROVE Answers(id) \subseteq Plans
  BY ScenesAssumption DEF Ids, Answers, SceneType

-----------------------------------------------------------------------------
(* Waves. *)

\* What a call has scheduled is built, or is being built, or failed with the call.
Scheduled(id) ==
    LET c == call[id] IN
    /\ c.wave \subseteq c.sched /\ c.sched \subseteq DOMAIN c.plan
    /\ c.st \in {"plan", "review"} => c.sched = {}
    /\ c.st = "review" => c.plan # << >>
    /\ c.st = "waves" => c.wave # {} \/ c.sched # DOMAIN c.plan
    /\ c.st # "waves" => c.wave = {}
    /\ \A i \in c.wave : At(id, i) \in DOMAIN ms
    /\ c.st \in {"waves", "done"} => \A i \in c.sched \ c.wave :
          At(id, i) \in DOMAIN ms /\ ms[At(id, i)].st = "done"
    /\ Acyclic(c.plan) => \A i \in c.wave : Deps(c.plan, i) \subseteq c.sched \ c.wave

Waves == \A id \in DOMAIN call : Scheduled(id)

LEMMA WaveIs ==
    ASSUME Ids, Waves, NEW id \in DOMAIN call, StartWave(id),
           NEW wave, wave = NextWave(call[id].plan, call[id].sched)
    PROVE  /\ wave # {} /\ wave \subseteq DOMAIN call[id].plan \ call[id].sched
           /\ Acyclic(call[id].plan) => \A i \in wave : Deps(call[id].plan, i) \subseteq call[id].sched
           /\ \A i \in wave : IsId(At(id, i)) /\ At(id, i).at # << >> /\ At(id, i).round = id.round
  <1>1. call[id].plan \in Plans /\ IsId(id)
    BY DEF Ids
  <1>2. call[id].sched \subseteq DOMAIN call[id].plan /\ call[id].sched # DOMAIN call[id].plan
    BY DEF Waves, Scheduled, StartWave
  <1>3. /\ wave # {} /\ wave \subseteq DOMAIN call[id].plan \ call[id].sched
        /\ Acyclic(call[id].plan) => \A i \in wave : Deps(call[id].plan, i) \subseteq call[id].sched
    BY <1>1, <1>2, NextWaveIs
  <1>4. \A i \in wave : call[id].plan[i].name \in Name
    BY <1>1, <1>3, PlansAre
  <1> QED
    BY <1>1, <1>3, <1>4, UnderIs DEF At

LEMMA IdsInit == Init => Ids
  BY DEF Init, Ids, Nothing

LEMMA IdsNext == Shape /\ Ids /\ Waves /\ [Next]_vars => Ids'
  <1> SUFFICES ASSUME Shape, Ids, Waves, [Next]_vars PROVE Ids'
    OBVIOUS
  <1> USE DEF checkpoints, history
  <1>0. << >> \in Plans /\ \A r \in Nat : IsId(Top(r))
    BY PlansAssumption, EmptySeq DEF IsId, Top
  <1>1. CASE Launch
    BY <1>0, <1>1 DEF Launch, Put, NewCall, Nothing, Ids
  <1>2. CASE Crash \/ UNCHANGED vars
    BY <1>2 DEF Crash, vars, Ids, IsId
  <1>3. CASE EndRound
    BY <1>0, <1>3 DEF EndRound, StartRound, Put, NewCall, Ids
  <1>4. ASSUME NEW id \in DOMAIN call, AskPlan(id)
        PROVE  Ids'
    <2>1. PICK p \in Checkpoint(planned, id, Answers(id)) :
            /\ planned' = Put(planned, id, p)
            /\ call' = [call EXCEPT ![id].plan = p, ![id].st = IF p = << >> THEN "done" ELSE "review"]
      BY <1>4 DEF AskPlan
    <2>2. p \in Plans
      BY AnswersArePlans DEF Checkpoint, Ids
    <2> QED
      BY <1>4, <2>1, <2>2 DEF AskPlan, Put, Ids, Shape, CallFields
  <1>5. ASSUME NEW id \in DOMAIN call, Review(id)
        PROVE  Ids'
    <2>1. PICK r \in Checkpoint(reviewed, id, Answers(id) \cup {<< >>}) :
            /\ reviewed' = Put(reviewed, id, r)
            /\ Follow(id, IF r = << >> THEN call[id].plan ELSE r)
      BY <1>5 DEF Review
    <2>2. r \in Plans
      BY <1>0, AnswersArePlans DEF Checkpoint, Ids
    <2> QED
      BY <1>5, <2>1, <2>2 DEF Review, Follow, Put, Ids, Shape, CallFields
  <1>6. ASSUME NEW id \in DOMAIN call, ReviewFails(id) \/ PlannerFails(id) \/ EndWave(id)
        PROVE  Ids'
    BY <1>6 DEF ReviewFails, PlannerFails, EndWave, Follow, Ids, Shape, CallFields
  <1>7. ASSUME NEW id \in DOMAIN call, StartWave(id)
        PROVE  Ids'
    <2> DEFINE wave == NextWave(call[id].plan, call[id].sched)
    <2>1. \A i \in wave : IsId(At(id, i)) /\ At(id, i).at # << >>
      BY <1>7, WaveIs
    <2>2. DOMAIN ms' = DOMAIN ms \cup {At(id, i) : i \in wave}
      BY <1>7 DEF StartWave
    <2>3. \A m \in DOMAIN ms' : IsId(m) /\ m.at # << >>
      BY <2>1, <2>2 DEF Ids
    <2>4. DOMAIN call' = DOMAIN call /\ \A c \in DOMAIN call : call'[c].plan = call[c].plan
      BY <1>7 DEF StartWave, Shape, CallFields
    <2> QED
      BY <1>7, <2>3, <2>4 DEF StartWave, Ids
  <1>8. ASSUME NEW m \in DOMAIN ms,
               \/ Begin(m) \/ SplitReturns(m) \/ Worker(m) \/ SecurityReviewer(m)
               \/ MaintenanceReviewer(m) \/ AgentFails(m) \/ OutOfBudget(m) \/ FinerReturns(m)
        PROVE  Ids'
    <2>1. Moved(m)
      BY <1>8, MilestoneMoves
    <2> QED
      BY <1>0, <2>1 DEF Moved, Put, NewCall, Ids
  <1> QED
    BY <1>1, <1>2, <1>3, <1>4, <1>5, <1>6, <1>7, <1>8, NextCases

LEMMA DoneIsDone ==
    ASSUME NEW m,
           \/ Begin(m) \/ SplitReturns(m) \/ Worker(m) \/ SecurityReviewer(m)
           \/ MaintenanceReviewer(m) \/ AgentFails(m) \/ OutOfBudget(m) \/ FinerReturns(m)
    PROVE  ms[m].st \in Building \cup {"start", "split", "finer"}
  BY BeginIs DEF SplitReturns, Worker, SecurityReviewer, MaintenanceReviewer, AgentFails,
                 OutOfBudget, FinerReturns, Building

\* A call that a step leaves alone, and whose finished milestones it leaves alone.
LEMMA ScheduledStays ==
    ASSUME NEW c, Scheduled(c), call'[c] = call[c], DOMAIN ms \subseteq DOMAIN ms',
           \A i \in call[c].sched : ms[At(c, i)].st = "done" => ms'[At(c, i)].st = "done"
    PROVE  Scheduled(c)'
  BY DEF Scheduled, At

LEMMA NewIsScheduled ==
    ASSUME NEW c, NEW d, NEW f, call'[c] = NewCall(d, f)
    PROVE  Scheduled(c)'
  BY DEF Scheduled, NewCall

LEMMA WavesInit == Init => Waves
  BY DEF Init, Waves, Nothing

LEMMA WavesNext == Shape /\ Ids /\ Waves /\ [Next]_vars => Waves'
  <1> SUFFICES ASSUME Shape, Ids, Waves, [Next]_vars, NEW c \in DOMAIN call' PROVE Scheduled(c)'
    BY DEF Waves
  <1> USE DEF checkpoints, history
  <1>0. c \in DOMAIN call => Scheduled(c)
    BY DEF Waves
  <1>1. CASE Launch
    BY <1>1, NewIsScheduled DEF Launch, Put, Nothing
  <1>2. CASE Crash \/ UNCHANGED vars
    BY <1>0, <1>2, ScheduledStays DEF Crash, vars
  <1>3. CASE EndRound
    <2>1. UNCHANGED ms /\ (call' = call \/ \E r : call' = Put(call, Top(r), NewCall(Shared, FALSE)))
      BY <1>3 DEF EndRound, StartRound
    <2> QED
      BY <1>0, <2>1, ScheduledStays, NewIsScheduled DEF Put
  <1>4. ASSUME NEW id \in DOMAIN call, AskPlan(id)
        PROVE  Scheduled(c)'
    <2>1. PICK p : call' = [call EXCEPT ![id].plan = p, ![id].st = IF p = << >> THEN "done" ELSE "review"]
      BY <1>4 DEF AskPlan
    <2>2. CASE c = id
      BY <1>0, <1>4, <2>1, <2>2 DEF AskPlan, Shape, CallFields, Scheduled
    <2>3. CASE c # id
      BY <1>0, <1>4, <2>1, <2>3, ScheduledStays DEF AskPlan
    <2> QED
      BY <2>2, <2>3
  <1>5. ASSUME NEW id \in DOMAIN call, Review(id) \/ ReviewFails(id)
        PROVE  Scheduled(c)'
    <2>1. UNCHANGED ms /\ call[id].st = "review"
      BY <1>5 DEF Review, ReviewFails
    <2>2. call[id].plan # << >>
      BY <2>1 DEF Waves, Scheduled
    <2>3. PICK p : p # << >> /\ call' = [call EXCEPT ![id].plan = p, ![id].st = "waves"]
      BY <1>5, <2>2 DEF Review, ReviewFails, Follow
    <2>4. CASE c = id
      <3>1. p \in Plans
        <4>1. Ids'
          BY IdsNext
        <4>2. call'[id].plan = p
          BY <2>3 DEF Shape, CallFields
        <4> QED
          BY <2>3, <2>4, <4>1, <4>2 DEF Ids
      <3>2. DOMAIN p # {}
        BY <2>3, <3>1, PlansAssumption
      <3> QED
        BY <1>0, <2>1, <2>3, <2>4, <3>2 DEF Shape, CallFields, Scheduled
    <2>5. CASE c # id
      BY <1>0, <2>1, <2>3, <2>5, ScheduledStays
    <2> QED
      BY <2>4, <2>5
  <1>6. ASSUME NEW id \in DOMAIN call, PlannerFails(id)
        PROVE  Scheduled(c)'
    BY <1>0, <1>6, ScheduledStays DEF PlannerFails, Shape, CallFields, Scheduled
  <1>7. ASSUME NEW id \in DOMAIN call, StartWave(id)
        PROVE  Scheduled(c)'
    <2> DEFINE wave == NextWave(call[id].plan, call[id].sched)
    <2>1. /\ wave # {} /\ wave \subseteq DOMAIN call[id].plan \ call[id].sched
          /\ Acyclic(call[id].plan) => \A i \in wave : Deps(call[id].plan, i) \subseteq call[id].sched
      BY <1>7, WaveIs
    <2>2. /\ call[id].st = "waves" /\ call[id].wave = {}
          /\ call' = [call EXCEPT ![id].wave = wave, ![id].sched = @ \cup wave]
          /\ DOMAIN ms' = DOMAIN ms \cup {At(id, i) : i \in wave}
          /\ \A m \in DOMAIN ms : (\A i \in wave : m # At(id, i)) => ms'[m] = ms[m]
      BY <1>7 DEF StartWave
    <2> HIDE DEF wave
    <2>3. ASSUME NEW i \in call[c].sched, At(c, i) \in DOMAIN ms, c \in DOMAIN call
          PROVE  ms'[At(c, i)] = ms[At(c, i)]
      <3>1. ASSUME NEW j \in wave, At(c, i) = At(id, j) PROVE FALSE
        <4>1. call[c].sched \subseteq DOMAIN call[c].plan
          BY <1>0, <2>3 DEF Scheduled
        <4>2. /\ IsId(c) /\ IsId(id) /\ call[c].plan \in Plans /\ call[id].plan \in Plans
          BY <1>7, <2>3 DEF Ids
        <4>3. call[c].plan[i].name \in Name /\ call[id].plan[j].name \in Name
          BY <2>1, <4>1, <4>2, PlansAre
        <4>4. c = id /\ call[c].plan[i].name = call[id].plan[j].name
          BY <3>1, <4>2, <4>3, UnderIsUnique DEF At
        <4>5. i = j
          BY <2>1, <4>1, <4>2, <4>4, PlansAre
        <4> QED
          BY <2>1, <4>4, <4>5
      <3> QED
        BY <2>2, <2>3, <3>1
    <2>4. CASE c = id
      <3>1. /\ call'[c].wave = wave /\ call'[c].sched = call[c].sched \cup wave
            /\ call'[c].st = "waves" /\ call'[c].plan = call[c].plan
        BY <2>2, <2>4 DEF Shape, CallFields
      <3>2. \A i : At(c, i)' = At(c, i)
        BY <3>1 DEF At
      <3>3. \A i \in call[c].sched : At(c, i) \in DOMAIN ms /\ ms[At(c, i)].st = "done"
        BY <1>0, <1>7, <2>2, <2>4 DEF Scheduled
      <3>4. \A i \in call[c].sched : At(c, i) \in DOMAIN ms' /\ ms'[At(c, i)].st = "done"
        BY <1>7, <2>2, <2>3, <2>4, <3>3
      <3>5. call[c].sched \subseteq DOMAIN call[c].plan
        BY <1>0, <1>7, <2>4 DEF Scheduled
      <3>6. \A i \in wave : At(c, i) \in DOMAIN ms'
        BY <2>2, <2>4
      <3> QED
        BY <2>1, <2>4, <3>1, <3>2, <3>4, <3>5, <3>6 DEF Scheduled
    <2>5. CASE c # id
      <3>1. c \in DOMAIN call /\ call'[c] = call[c] /\ DOMAIN ms \subseteq DOMAIN ms'
        BY <2>2, <2>5
      <3>2. \A i \in call[c].sched : At(c, i) \in DOMAIN ms =>
               (ms[At(c, i)].st = "done" => ms'[At(c, i)].st = "done")
        BY <2>3, <3>1
      <3> QED
        BY <1>0, <3>1, <3>2 DEF Scheduled, At
    <2> QED
      BY <2>4, <2>5
  <1>8. ASSUME NEW id \in DOMAIN call, EndWave(id)
        PROVE  Scheduled(c)'
    <2>1. /\ call[id].st = "waves" /\ UNCHANGED ms
          /\ \A i \in call[id].wave : ms[At(id, i)].st \in {"done", "failed"}
          /\ DOMAIN call' = DOMAIN call /\ \A d \in DOMAIN call \ {id} : call'[d] = call[d]
          /\ call'[id].wave = {} /\ call'[id].sched = call[id].sched /\ call'[id].plan = call[id].plan
          /\ \/ call'[id].st = "failed"
             \/ /\ \A i \in call[id].wave : ms[At(id, i)].st # "failed"
                /\ call'[id].st = "done" => call[id].sched = DOMAIN call[id].plan
                /\ call'[id].st = "waves" => call[id].sched # DOMAIN call[id].plan
                /\ call'[id].st \in {"done", "waves"}
      BY <1>8 DEF EndWave, Shape, CallFields
    <2>2. CASE c = id
      BY <1>0, <1>8, <2>1, <2>2 DEF Scheduled, At
    <2>3. CASE c # id
      BY <1>0, <2>1, <2>3, ScheduledStays
    <2> QED
      BY <2>2, <2>3
  <1>9. ASSUME NEW m \in DOMAIN ms,
               \/ Begin(m) \/ SplitReturns(m) \/ Worker(m) \/ SecurityReviewer(m)
               \/ MaintenanceReviewer(m) \/ AgentFails(m) \/ OutOfBudget(m) \/ FinerReturns(m)
        PROVE  Scheduled(c)'
    <2>1. Moved(m)
      BY <1>9, MilestoneMoves
    <2>2. ms[m].st # "done"
      BY <1>9, DoneIsDone DEF Building
    <2>3. CASE call' = call \/ c # m
      <3>1. c \in DOMAIN call /\ call'[c] = call[c]
        BY <2>1, <2>3 DEF Moved, Put
      <3>2. DOMAIN ms' = DOMAIN ms /\ \A n \in DOMAIN ms : ms[n].st = "done" => ms'[n].st = "done"
        BY <2>1, <2>2 DEF Moved
      <3> QED
        BY <1>0, <3>1, <3>2 DEF Scheduled, At
    <2>4. CASE call' # call /\ c = m
      BY <2>1, <2>4, NewIsScheduled DEF Moved, Put
    <2> QED
      BY <2>3, <2>4
  <1> QED
    BY <1>1, <1>2, <1>3, <1>4, <1>5, <1>6, <1>7, <1>8, <1>9, NextCases

\* synthesis.rs, schedule_waves and implement_milestones: under a plan without a cycle nothing is
\* built before what it depends on.
THEOREM DependenciesAreFirst == Spec => []DependenciesFirst
  <1>1. Init => Shape /\ Ids /\ Waves
    BY ShapeInit, IdsInit, WavesInit
  <1>2. Shape /\ Ids /\ Waves /\ [Next]_vars => (Shape /\ Ids /\ Waves)'
    BY ShapeNext, IdsNext, WavesNext
  <1>3. Waves => DependenciesFirst
    BY DEF Waves, Scheduled, DependenciesFirst
  <1> QED
    BY <1>1, <1>2, <1>3, PTL DEF Spec

-----------------------------------------------------------------------------
(* Paths in the tree of splits. *)

LEMMA BelowIs ==
    ASSUME NEW a, IsId(a), NEW b, IsId(b)
    PROVE  Below(a, b) <=> /\ a.round = b.round /\ Len(a.at) <= Len(b.at)
                           /\ \A k \in 1..Len(a.at) : b.at[k] = a.at[k]
  <1>1. /\ a.at \in Seq(Name) /\ b.at \in Seq(Name) /\ Len(a.at) \in Nat /\ Len(b.at) \in Nat
        /\ \A k \in 1..Len(b.at) : b.at[k] \in Name
    BY DEF IsId
  <1>2. ASSUME Len(a.at) <= Len(b.at)
        PROVE  SubSeq(b.at, 1, Len(a.at)) = a.at <=> \A k \in 1..Len(a.at) : b.at[k] = a.at[k]
    <2> DEFINE s == SubSeq(b.at, 1, Len(a.at))
    <2>0. \A k \in 1..Len(a.at) : b.at[k] \in Name
      BY <1>1, <1>2
    <2>1. s \in Seq(Name) /\ Len(s) = IF 1 <= Len(a.at) THEN Len(a.at) - 1 + 1 ELSE 0
      BY <1>1, <2>0, SubSeqProperties
    <2>2. \A k \in 1..(Len(a.at) - 1 + 1) : s[k] = b.at[1 + k - 1]
      BY <1>1, <2>0, SubSeqProperties
    <2>3. Len(s) = Len(a.at) /\ \A k \in 1..Len(a.at) : s[k] = b.at[k]
      BY <1>1, <2>1, <2>2
    <2>4. s = a.at <=> \A k \in 1..Len(a.at) : s[k] = a.at[k]
      BY <1>1, <2>1, <2>3, SeqEqual
    <2> QED
      BY <2>3, <2>4
  <1> QED
    BY <1>1, <1>2 DEF Below

LEMMA BelowItself == ASSUME NEW a, IsId(a) PROVE Below(a, a)
  <1>1. Len(a.at) \in Nat
    BY DEF IsId
  <1> QED
    BY <1>1, BelowIs

LEMMA BelowOfBelow ==
    ASSUME NEW a, IsId(a), NEW b, IsId(b), NEW c, IsId(c), Below(a, b), Below(b, c)
    PROVE  Below(a, c)
  <1>1. Len(a.at) \in Nat /\ Len(b.at) \in Nat /\ Len(c.at) \in Nat
    BY DEF IsId
  <1> QED
    BY <1>1, BelowIs

LEMMA UnderIsBelow ==
    ASSUME NEW id, IsId(id), NEW name \in Name
    PROVE  Below(id, Under(id, name))
  <1> DEFINE u == Under(id, name)
  <1>1. IsId(u) /\ u.round = id.round /\ u.at = Append(id.at, name)
    BY UnderIs
  <1> HIDE DEF u
  <1>2. id.at \in Seq(Name) /\ Len(id.at) \in Nat
    BY DEF IsId
  <1>3. Len(u.at) = Len(id.at) + 1 /\ \A k \in 1..Len(id.at) : u.at[k] = id.at[k]
    BY <1>1, <1>2
  <1>4. Below(id, u)
    BY <1>1, <1>2, <1>3, BelowIs
  <1> QED
    BY <1>4 DEF u

-----------------------------------------------------------------------------
(* Files. *)

\* What a milestone or a call hands on belongs to it and, once it returns, is not nothing.
Delivered(m) ==
    /\ ms[m].st \in {"split", "finer"} => m \in DOMAIN call
    /\ ms[m].st = "done" => ms[m].files # {}
    /\ \A n \in ms[m].files : IsId(n) /\ Below(m, n)

Collected(id) ==
    LET c == call[id] IN
    /\ \A n \in c.files : IsId(n) /\ Below(id, n)
    /\ c.st = "done" => c.sched = DOMAIN c.plan
    /\ c.st \in {"waves", "done"} =>
          \A i \in c.sched \ c.wave : \E n \in c.files : Below(At(id, i), n)

Files == (\A m \in DOMAIN ms : Delivered(m)) /\ (\A id \in DOMAIN call : Collected(id))

LEMMA DeliveredStays ==
    ASSUME NEW m, Delivered(m), ms'[m] = ms[m], DOMAIN call \subseteq DOMAIN call'
    PROVE  Delivered(m)'
  BY DEF Delivered

LEMMA CollectedStays ==
    ASSUME NEW id, Collected(id), call'[id] = call[id]
    PROVE  Collected(id)'
  BY DEF Collected, At

LEMMA NewIsCollected ==
    ASSUME NEW id, NEW d, NEW f, call'[id] = NewCall(d, f)
    PROVE  Collected(id)'
  BY DEF Collected, NewCall

\* Whatever a milestone's step delivers is below the milestone and not empty.
LEMMA StepDelivers ==
    ASSUME Shape, Ids, Files, NEW m \in DOMAIN ms, Moved(m),
           \/ Begin(m) \/ SplitReturns(m) \/ Worker(m) \/ SecurityReviewer(m)
           \/ MaintenanceReviewer(m) \/ AgentFails(m) \/ OutOfBudget(m) \/ FinerReturns(m)
    PROVE  Delivered(m)'
  <1> USE DEF Shape, MsFields
  <1>0. Delivered(m) /\ IsId(m) /\ Below(m, m)
    BY BelowItself DEF Files, Ids
  <1>1. ASSUME DOMAIN ms' = DOMAIN ms, ms'[m].files = ms[m].files,
               ms'[m].st \in {"split", "finer"} => m \in DOMAIN call', ms'[m].st # "done"
        PROVE  Delivered(m)'
    BY <1>0, <1>1 DEF Delivered
  <1>2. ASSUME NEW files, Deliver(m, files), files # {}, \A n \in files : IsId(n) /\ Below(m, n)
        PROVE  Delivered(m)'
    BY <1>2 DEF Deliver, Delivered
  <1>3. ASSUME NEW st \in {"split", "finer"}, NEW f, Split(m, st, f)
        PROVE  Delivered(m)'
    BY <1>1, <1>3 DEF Split, Put
  <1>4. CASE Attempted(m)
    BY <1>1, <1>4 DEF Attempted
  <1>5. ASSUME NEW st \in {"failed", "worker", "security", "maintenance"}, NEW k,
               ms' = [ms EXCEPT ![m].st = st] \/ ms' = [ms EXCEPT ![m].st = st, ![m].iter = k]
        PROVE  Delivered(m)'
    BY <1>1, <1>5
  <1>6. CASE NextIteration(m)
    BY <1>5, <1>6 DEF NextIteration
  <1>7. CASE Deliver(m, {m})
    BY <1>0, <1>2, <1>7
  <1>8. ASSUME m \in DOMAIN call, call[m].files # {}, Deliver(m, call[m].files)
        PROVE  Delivered(m)'
    <2>1. \A n \in call[m].files : IsId(n) /\ Below(m, n)
      BY <1>8 DEF Files, Collected
    <2> QED
      BY <1>2, <1>8, <2>1
  <1>a. CASE Begin(m)
    BY <1>a, <1>3, <1>4, BeginIs
  <1>b. CASE SplitReturns(m)
    <2>1. m \in DOMAIN call
      BY <1>b, <1>0 DEF SplitReturns, Delivered
    <2> QED
      BY <1>b, <2>1, <1>4, <1>5, <1>8, AttemptIs DEF SplitReturns
  <1>c. CASE Worker(m)
    BY <1>c, <1>5, <1>6 DEF Worker
  <1>d. CASE SecurityReviewer(m) \/ AgentFails(m)
    BY <1>d, <1>5 DEF SecurityReviewer, AgentFails
  <1>e. CASE MaintenanceReviewer(m)
    BY <1>e, <1>6, <1>7, Zenon DEF MaintenanceReviewer
  <1>f. CASE OutOfBudget(m)
    BY <1>f, <1>3, <1>7 DEF OutOfBudget
  <1>g. CASE FinerReturns(m)
    <2>1. m \in DOMAIN call
      BY <1>g, <1>0 DEF FinerReturns, Delivered
    <2> QED
      BY <1>g, <2>1, <1>5, <1>7, <1>8 DEF FinerReturns
  <1> QED
    BY <1>a, <1>b, <1>c, <1>d, <1>e, <1>f, <1>g

LEMMA FilesInit == Init => Files
  BY DEF Init, Files, Nothing

LEMMA FilesNext == Shape /\ Ids /\ Waves /\ Files /\ [Next]_vars => Files'
  <1> SUFFICES ASSUME Shape, Ids, Waves, Files, [Next]_vars PROVE Files'
    OBVIOUS
  <1> USE DEF checkpoints, history
  <1>1. CASE Launch
    BY <1>1, NewIsCollected DEF Launch, Put, Nothing, Files
  <1>2. CASE Crash \/ UNCHANGED vars
    BY <1>2, DeliveredStays, CollectedStays DEF Crash, vars, Files
  <1>3. CASE EndRound
    <2>1. UNCHANGED ms /\ (call' = call \/ \E r : call' = Put(call, Top(r), NewCall(Shared, FALSE)))
      BY <1>3 DEF EndRound, StartRound
    <2>2. DOMAIN call \subseteq DOMAIN call'
          /\ \A c \in DOMAIN call' : (c \in DOMAIN call /\ call'[c] = call[c])
                                     \/ \E d, f : call'[c] = NewCall(d, f)
      BY <2>1, Zenon DEF Put
    <2>3. \A m \in DOMAIN ms' : Delivered(m)'
      BY <2>1, <2>2, DeliveredStays DEF Files
    <2>4. \A c \in DOMAIN call' : Collected(c)'
      BY <2>2, CollectedStays, NewIsCollected DEF Files
    <2> QED
      BY <2>3, <2>4 DEF Files
  <1>4. ASSUME NEW id \in DOMAIN call, UNCHANGED ms, Collected(id)', DOMAIN call' = DOMAIN call,
               \A c \in DOMAIN call \ {id} : call'[c] = call[c]
        PROVE  Files'
    BY <1>4, DeliveredStays, CollectedStays DEF Files
  <1>5. ASSUME NEW id \in DOMAIN call, AskPlan(id)
        PROVE  Files'
    <2>1. PICK p \in Checkpoint(planned, id, Answers(id)) :
             call' = [call EXCEPT ![id].plan = p, ![id].st = IF p = << >> THEN "done" ELSE "review"]
      BY <1>5 DEF AskPlan
    <2>2. call[id].sched = {} /\ call[id].wave = {} /\ Collected(id)
      BY <1>5 DEF AskPlan, Waves, Scheduled, Files
    <2>3. /\ call'[id].plan = p /\ call'[id].sched = {} /\ call'[id].files = call[id].files
          /\ call'[id].st = IF p = << >> THEN "done" ELSE "review"
      BY <2>1, <2>2 DEF Shape, CallFields
    <2>4. p = << >> => DOMAIN p = {}
      OBVIOUS
    <2>5. Collected(id)'
      BY <2>2, <2>3, <2>4 DEF Collected
    <2> QED
      BY <1>4, <1>5, <2>1, <2>5 DEF AskPlan
  <1>6. ASSUME NEW id \in DOMAIN call, Review(id) \/ ReviewFails(id)
        PROVE  Files'
    <2>1. UNCHANGED ms /\ call[id].st = "review"
      BY <1>6 DEF Review, ReviewFails
    <2>2. call[id].sched = {} /\ Collected(id)
      BY <2>1 DEF Waves, Scheduled, Files
    <2>3. PICK p : call' = [call EXCEPT ![id].plan = p, ![id].st = "waves"]
      BY <1>6 DEF Review, ReviewFails, Follow
    <2>4. Collected(id)'
      BY <2>2, <2>3 DEF Collected, Shape, CallFields
    <2> QED
      BY <1>4, <2>1, <2>3, <2>4
  <1>7. ASSUME NEW id \in DOMAIN call, PlannerFails(id)
        PROVE  Files'
    <2>1. Collected(id) /\ call' = [call EXCEPT ![id].st = "failed"] /\ UNCHANGED ms
      BY <1>7 DEF PlannerFails, Files
    <2>2. Collected(id)'
      BY <2>1 DEF Collected, Shape, CallFields
    <2> QED
      BY <1>4, <2>1, <2>2
  <1>8. ASSUME NEW id \in DOMAIN call, StartWave(id)
        PROVE  Files'
    <2>1. PICK wave :
          /\ call[id].st = "waves" /\ call[id].wave = {}
          /\ call' = [call EXCEPT ![id].wave = wave, ![id].sched = @ \cup wave]
          /\ \A m \in DOMAIN ms' :
                \/ m \in DOMAIN ms /\ ms'[m] = ms[m]
                \/ \E d, f : ms'[m] = NewMilestone(d, f)
      BY <1>8 DEF StartWave
    <2>2. DOMAIN call' = DOMAIN call
      BY <2>1
    <2>3. ASSUME NEW m \in DOMAIN ms' PROVE Delivered(m)'
      <3>1. CASE m \in DOMAIN ms /\ ms'[m] = ms[m]
        BY <2>2, <3>1, DeliveredStays DEF Files
      <3>2. CASE \E d, f : ms'[m] = NewMilestone(d, f)
        BY <3>2 DEF NewMilestone, Delivered
      <3> QED
        BY <2>1, <3>1, <3>2
    <2>4. ASSUME NEW c \in DOMAIN call PROVE Collected(c)'
      <3>1. Collected(c)
        BY DEF Files
      <3>2. CASE c = id
        <4>1. /\ call'[c].wave = wave /\ call'[c].sched = call[c].sched \cup wave
              /\ call'[c].plan = call[c].plan /\ call'[c].files = call[c].files
              /\ call'[c].st = "waves"
          BY <2>1, <3>2 DEF Shape, CallFields
        <4>2. \A i : At(c, i)' = At(c, i)
          BY <4>1 DEF At
        <4> QED
          BY <2>1, <3>1, <3>2, <4>1, <4>2 DEF Collected
      <3>3. CASE c # id
        BY <2>1, <3>1, <3>3, CollectedStays
      <3> QED
        BY <3>2, <3>3
    <2> QED
      BY <2>2, <2>3, <2>4 DEF Files
  <1>9. ASSUME NEW id \in DOMAIN call, EndWave(id)
        PROVE  Files'
    <2>1. /\ call[id].st = "waves" /\ UNCHANGED ms
          /\ \A i \in call[id].wave : ms[At(id, i)].st \in {"done", "failed"}
          /\ DOMAIN call' = DOMAIN call /\ \A d \in DOMAIN call \ {id} : call'[d] = call[d]
          /\ call'[id].wave = {} /\ call'[id].sched = call[id].sched /\ call'[id].plan = call[id].plan
          /\ call'[id].files = call[id].files \cup UNION {ms[m].files : m \in {At(id, i) : i \in call[id].wave}}
          /\ \/ call'[id].st = "failed"
             \/ /\ \A i \in call[id].wave : ms[At(id, i)].st # "failed"
                /\ call'[id].st = "done" => call[id].sched = DOMAIN call[id].plan
                /\ call'[id].st \in {"done", "waves"}
      BY <1>9 DEF EndWave, Shape, CallFields
    <2>2. Scheduled(id) /\ Collected(id) /\ IsId(id) /\ call[id].plan \in Plans
      BY DEF Waves, Files, Ids
    <2>3. ASSUME NEW i \in call[id].wave
          PROVE  /\ At(id, i) \in DOMAIN ms /\ Delivered(At(id, i))
                 /\ IsId(At(id, i)) /\ Below(id, At(id, i))
      <3>1. At(id, i) \in DOMAIN ms /\ call[id].plan[i].name \in Name
        BY <2>2, PlansAre DEF Scheduled
      <3> QED
        BY <2>2, <3>1, UnderIsBelow DEF Files, Ids, At
    <2>4. ASSUME NEW n \in call'[id].files PROVE IsId(n) /\ Below(id, n)
      <3>1. CASE n \in call[id].files
        BY <2>2, <3>1 DEF Collected
      <3>2. ASSUME NEW i \in call[id].wave, n \in ms[At(id, i)].files
            PROVE  IsId(n) /\ Below(id, n)
        <4>1. IsId(n) /\ Below(At(id, i), n)
          BY <2>3, <3>2 DEF Delivered
        <4> QED
          BY <2>2, <2>3, <4>1, BelowOfBelow
      <3> QED
        BY <2>1, <3>1, <3>2
    <2>5. \A i : At(id, i)' = At(id, i)
      BY <2>1 DEF At
    <2>6. ASSUME call'[id].st \in {"waves", "done"}, NEW i \in call[id].sched
          PROVE  \E n \in call'[id].files : Below(At(id, i), n)
      <3>1. CASE i \in call[id].wave
        <4>1. ms[At(id, i)].files # {} /\ \A n \in ms[At(id, i)].files : Below(At(id, i), n)
          BY <2>1, <2>3, <2>6, <3>1 DEF Delivered
        <4>2. ms[At(id, i)].files \subseteq call'[id].files
          BY <2>1, <3>1
        <4> QED
          BY <4>1, <4>2
      <3>2. CASE i \notin call[id].wave
        BY <2>1, <2>2, <2>6, <3>2 DEF Collected
      <3> QED
        BY <3>1, <3>2
    <2>7. Collected(id)'
      BY <2>1, <2>4, <2>5, <2>6 DEF Collected
    <2> QED
      BY <1>4, <2>1, <2>7
  <1>10. ASSUME NEW m \in DOMAIN ms,
               \/ Begin(m) \/ SplitReturns(m) \/ Worker(m) \/ SecurityReviewer(m)
               \/ MaintenanceReviewer(m) \/ AgentFails(m) \/ OutOfBudget(m) \/ FinerReturns(m)
        PROVE  Files'
    <2>1. Moved(m)
      BY <1>10, MilestoneMoves
    <2>2. Delivered(m)'
      BY <1>10, <2>1, StepDelivers
    <2>3. DOMAIN call \subseteq DOMAIN call'
          /\ \A c \in DOMAIN call' : (c \in DOMAIN call /\ call'[c] = call[c])
                                     \/ \E d, f : call'[c] = NewCall(d, f)
      BY <2>1 DEF Moved, Put
    <2>4. DOMAIN ms' = DOMAIN ms /\ \A n \in DOMAIN ms \ {m} : ms'[n] = ms[n]
      BY <2>1 DEF Moved
    <2> QED
      BY <2>2, <2>3, <2>4, DeliveredStays, CollectedStays, NewIsCollected DEF Files
  <1> QED
    BY <1>1, <1>2, <1>3, <1>5, <1>6, <1>7, <1>8, <1>9, <1>10, NextCases

\* synthesis.rs, implement_milestones and implement_one_milestone: a call that returns hands on
\* something for every milestone of its plan, however they were split.
THEOREM NothingIsDropped == Spec => []NothingDropped
  <1>1. Init => Shape /\ Ids /\ Waves /\ Files
    BY ShapeInit, IdsInit, WavesInit, FilesInit
  <1>2. Shape /\ Ids /\ Waves /\ Files /\ [Next]_vars => (Shape /\ Ids /\ Waves /\ Files)'
    BY ShapeNext, IdsNext, WavesNext, FilesNext
  <1>3. Waves /\ Files => NothingDropped
    BY DEF Waves, Scheduled, Files, Collected, NothingDropped
  <1> QED
    BY <1>1, <1>2, <1>3, PTL DEF Spec

LEMMA BelowIsLonger ==
    ASSUME NEW a, IsId(a), NEW b, IsId(b), Below(a, b), a # b
    PROVE  Len(a.at) \in Nat /\ Len(b.at) \in Nat /\ Len(a.at) < Len(b.at)
  <1>1. a.at \in Seq(Name) /\ b.at \in Seq(Name) /\ Len(a.at) \in Nat /\ Len(b.at) \in Nat
    BY DEF IsId
  <1>2. a.round = b.round /\ Len(a.at) <= Len(b.at) /\ \A k \in 1..Len(a.at) : b.at[k] = a.at[k]
    BY BelowIs
  <1>3. ASSUME Len(a.at) = Len(b.at) PROVE FALSE
    <2>1. a.at = b.at
      BY <1>1, <1>2, <1>3, SeqEqual
    <2> QED
      BY <1>2, <2>1 DEF IsId
  <1> QED
    BY <1>1, <1>2, <1>3

\* What is above a milestone is its call or above its call.
LEMMA AboveUnder ==
    ASSUME NEW id, IsId(id), NEW name \in Name, NEW u, u = Under(id, name),
           NEW a, IsId(a), Below(a, u), a # u
    PROVE  Below(a, id)
  <1>1. IsId(u) /\ u.round = id.round /\ u.at = Append(id.at, name)
    BY UnderIs
  <1>2. id.at \in Seq(Name) /\ Len(id.at) \in Nat
    BY DEF IsId
  <1>3. Len(u.at) = Len(id.at) + 1 /\ \A k \in 1..Len(id.at) : u.at[k] = id.at[k]
    BY <1>1, <1>2
  <1>4. a.round = u.round /\ \A k \in 1..Len(a.at) : u.at[k] = a.at[k]
    BY <1>1, BelowIs
  <1>5. Len(a.at) \in Nat /\ Len(a.at) < Len(u.at)
    BY <1>1, BelowIsLonger
  <1>6. Len(a.at) <= Len(id.at)
    BY <1>2, <1>3, <1>5
  <1>7. \A k \in 1..Len(a.at) : id.at[k] = a.at[k]
    BY <1>2, <1>3, <1>4, <1>5, <1>6
  <1> QED
    BY <1>1, <1>4, <1>6, <1>7, BelowIs

LEMMA AllBelowTop ==
    ASSUME NEW id, IsId(id), id.at = << >>, NEW n, IsId(n), n.round = id.round
    PROVE  Below(id, n)
  <1>1. Len(id.at) = 0 /\ Len(n.at) \in Nat
    BY DEF IsId
  <1> QED
    BY <1>1, BelowIs

-----------------------------------------------------------------------------
(* Directories. *)

Active(m) == m \in DOMAIN ms /\ ms[m].st \in Building \cup {"start", "split", "finer"}
Splitting(m) == m \in DOMAIN ms /\ ms[m].st \in {"split", "finer"}

\* A call that runs is the round's, or the split of a milestone that waits for it, and builds
\* where that milestone does.
Placed(id) ==
    call[id].st \in {"plan", "review", "waves"} =>
       IF id.at = << >> THEN id.round = round /\ call[id].dir = Shared
       ELSE Splitting(id) /\ call[id].dir = ms[id].dir

\* Everything built below a call is in its wave, and below a milestone, in its split.
InWave(id) ==
    \A n : Active(n) /\ Below(id, n) /\ id # n => \E i \in call[id].wave : Below(At(id, i), n)
InSplit(a) ==
    \A n : Active(n) /\ Below(a, n) /\ a # n => Splitting(a)

\* A milestone's directory is the crate's or that of one it is below, and two that share
\* one are below each other.
Housed(m) ==
    /\ m.round = round
    /\ ms[m].dir = Shared \/ (IsId(ms[m].dir) /\ ms[m].dir.at # << >> /\ Below(ms[m].dir, m))
    /\ \A n : Active(n) /\ ms[n].dir = ms[m].dir => Below(m, n) \/ Below(n, m)

Nested ==
    /\ main = "up" => Top(round) \in DOMAIN call
    /\ \A id \in DOMAIN call : Placed(id) /\ InWave(id)
    /\ \A m \in DOMAIN ms : InSplit(m) /\ (Active(m) => Housed(m))

LEMMA NestedInit == Init => Nested
  BY DEF Init, Nested, Nothing

\* What a milestone's step does to its call: it is left alone, or it has returned, or it begins.
LEMMA StepSplits ==
    ASSUME Shape, NEW m \in DOMAIN ms,
           \/ Begin(m) \/ SplitReturns(m) \/ Worker(m) \/ SecurityReviewer(m)
           \/ MaintenanceReviewer(m) \/ AgentFails(m) \/ OutOfBudget(m) \/ FinerReturns(m)
    PROVE  \/ call' = call /\ (Splitting(m) => call[m].st \in {"done", "failed"})
           \/ /\ ms[m].st \in {"start", "worker"}
              /\ ms'[m].st \in {"split", "finer"}
              /\ \E f : call' = Put(call, m, NewCall(ms[m].dir, f))
  <1> USE DEF Splitting
  <1>1. CASE Begin(m)
    <2>1. CASE Split(m, "split", ms[m].force)
      BY <1>1, <2>1, BeginIs DEF Split, Shape, MsFields
    <2>2. CASE Attempted(m)
      BY <1>1, <2>2, BeginIs DEF Attempted
    <2> QED
      BY <1>1, <2>1, <2>2, BeginIs
  <1>2. CASE SplitReturns(m)
    BY <1>2, AttemptIs DEF SplitReturns, Attempted
  <1>3. CASE Worker(m)
    BY <1>3 DEF Worker
  <1>4. CASE SecurityReviewer(m)
    BY <1>4 DEF SecurityReviewer
  <1>5. CASE MaintenanceReviewer(m)
    BY <1>5 DEF MaintenanceReviewer
  <1>6. CASE AgentFails(m)
    BY <1>6 DEF AgentFails
  <1>7. CASE OutOfBudget(m)
    BY <1>7 DEF OutOfBudget, Split, Shape, MsFields
  <1>8. CASE FinerReturns(m)
    BY <1>8 DEF FinerReturns
  <1> QED
    BY <1>1, <1>2, <1>3, <1>4, <1>5, <1>6, <1>7, <1>8

\* A step of a milestone.
LEMMA NestedStep ==
    ASSUME Shape, Ids, Waves, Files, Nested, NEW m \in DOMAIN ms,
           \/ Begin(m) \/ SplitReturns(m) \/ Worker(m) \/ SecurityReviewer(m)
           \/ MaintenanceReviewer(m) \/ AgentFails(m) \/ OutOfBudget(m) \/ FinerReturns(m)
    PROVE  Nested'
  <1>1. Moved(m) /\ Active(m)
    BY MilestoneMoves, DoneIsDone DEF Active
  <1>2. /\ DOMAIN ms' = DOMAIN ms /\ \A n \in DOMAIN ms : ms'[n].dir = ms[n].dir
        /\ \A n \in DOMAIN ms \ {m} : ms'[n] = ms[n]
        /\ UNCHANGED <<main, round>>
    BY <1>1 DEF Moved
  <1>3. \A n : Active(n)' => Active(n)
    BY <1>1, <1>2 DEF Active
  <1>4. \/ call' = call /\ (Splitting(m) => call[m].st \in {"done", "failed"})
        \/ /\ ms[m].st \in {"start", "worker"}
           /\ ms'[m].st \in {"split", "finer"}
           /\ \E f : call' = Put(call, m, NewCall(ms[m].dir, f))
    BY StepSplits
  <1>5. m.at # << >> /\ (Splitting(m) => m \in DOMAIN call)
    BY DEF Ids, Files, Delivered, Splitting
  <1>6. ASSUME NEW n, Active(n), Below(m, n), m # n
        PROVE  FALSE
    <2>1. Splitting(m) /\ m \in DOMAIN call
      BY <1>5, <1>6 DEF Nested, InSplit
    <2>2. call[m].st \in {"done", "failed"}
      BY <1>4, <2>1 DEF Splitting
    <2>3. call[m].wave = {}
      BY <2>1, <2>2 DEF Waves, Scheduled
    <2> QED
      BY <1>6, <2>1, <2>3 DEF Nested, InWave
  <1>7. main' = "up" => Top(round') \in DOMAIN call'
    BY <1>2, <1>4 DEF Nested, Put
  <1>8. ASSUME NEW c \in DOMAIN call' PROVE Placed(c)'
    <2>1. CASE call' = call
      <3>1. Placed(c)
        BY <2>1 DEF Nested
      <3>2. CASE c = m
        <4>1. ~(call[c].st \in {"plan", "review", "waves"})
          <5> SUFFICES ASSUME call[c].st \in {"plan", "review", "waves"} PROVE FALSE
            OBVIOUS
          <5>1. Splitting(m)
            BY <1>5, <3>1, <3>2, Zenon DEF Placed
          <5> QED
            BY <1>4, <3>2, <5>1 DEF Splitting
        <4> QED
          BY <2>1, <4>1, Zenon DEF Placed
      <3>3. CASE c # m
        BY <1>2, <2>1, <3>1, <3>3 DEF Placed, Splitting
      <3> QED
        BY <3>2, <3>3
    <2>2. ASSUME NEW f, call' = Put(call, m, NewCall(ms[m].dir, f)), ms'[m].st \in {"split", "finer"}
          PROVE  Placed(c)'
      <3>1. CASE c = m
        BY <1>2, <1>5, <2>2, <3>1 DEF Placed, Splitting, Put, NewCall
      <3>2. CASE c # m
        BY <1>2, <2>2, <3>2 DEF Nested, Placed, Splitting, Put
      <3> QED
        BY <3>1, <3>2
    <2> QED
      BY <1>4, <2>1, <2>2
  <1>9. ASSUME NEW c \in DOMAIN call' PROVE InWave(c)'
    <2>1. CASE c \in DOMAIN call /\ call'[c] = call[c]
      BY <1>3, <2>1 DEF Nested, InWave, At
    <2>2. CASE c = m
      BY <1>3, <1>6, <2>2 DEF InWave
    <2> QED
      BY <1>4, <2>1, <2>2 DEF Put
  <1>10. ASSUME NEW a \in DOMAIN ms' PROVE InSplit(a)'
    <2>1. CASE a = m
      BY <1>3, <1>6, <2>1 DEF InSplit
    <2>2. CASE a # m
      BY <1>2, <1>3, <2>2 DEF Nested, InSplit, Splitting
    <2> QED
      BY <2>1, <2>2
  <1>11. ASSUME NEW n, Active(n)' PROVE Housed(n)'
    <2>1. Active(n) /\ n \in DOMAIN ms
      BY <1>3, <1>11 DEF Active
    <2>2. Housed(n)
      BY <2>1 DEF Nested
    <2> QED
      BY <1>2, <1>3, <2>1, <2>2 DEF Housed, Active
  <1> QED
    BY <1>7, <1>8, <1>9, <1>10, <1>11 DEF Nested

\* A step of a call that starts no wave: no milestone changes, and nothing is built below a
\* call whose wave is over.
LEMMA NestedCallStep ==
    ASSUME Nested, NEW id \in DOMAIN call, UNCHANGED <<ms, main, round>>,
           DOMAIN call' = DOMAIN call, \A c \in DOMAIN call \ {id} : call'[c] = call[c],
           call[id].st \in {"plan", "review", "waves"}, call'[id].dir = call[id].dir,
           ~ \E n : Active(n) /\ Below(id, n) /\ id # n
    PROVE  Nested'
  <1>1. ASSUME NEW c \in DOMAIN call PROVE Placed(c)'
    <2>1. Placed(c)
      BY DEF Nested
    <2>2. CASE c = id
      BY <2>1, <2>2 DEF Placed, Splitting
    <2>3. CASE c # id
      BY <2>1, <2>3 DEF Placed, Splitting
    <2> QED
      BY <2>2, <2>3
  <1>2. ASSUME NEW c \in DOMAIN call PROVE InWave(c)'
    <2>1. CASE c = id
      BY <2>1 DEF InWave, Active
    <2>2. CASE c # id
      BY <2>2 DEF Nested, InWave, Active, At
    <2> QED
      BY <2>1, <2>2
  <1>3. ASSUME NEW m \in DOMAIN ms PROVE InSplit(m)' /\ (Active(m)' => Housed(m)')
    BY DEF Nested, InSplit, Active, Housed, Splitting
  <1> QED
    BY <1>1, <1>2, <1>3 DEF Nested

\* A wave begins.
LEMMA NestedStartWave ==
    ASSUME Shape, Ids, Waves, Nested, NEW id \in DOMAIN call, StartWave(id)
    PROVE  Nested'
  <1> DEFINE wave == NextWave(call[id].plan, call[id].sched)
             new == {At(id, i) : i \in wave}
  <1>1. /\ wave # {} /\ wave \subseteq DOMAIN call[id].plan \ call[id].sched
        /\ \A i \in wave : IsId(At(id, i)) /\ At(id, i).at # << >> /\ At(id, i).round = id.round
    BY WaveIs
  <1>2. /\ call[id].st = "waves" /\ call[id].wave = {}
        /\ call' = [call EXCEPT ![id].wave = wave, ![id].sched = @ \cup wave]
        /\ ms' = [m \in DOMAIN ms \cup new |->
                    IF m \in new THEN NewMilestone(DirFor(id, wave, m), call[id].force) ELSE ms[m]]
        /\ UNCHANGED <<main, round>>
    BY DEF StartWave, checkpoints, history
  <1>3. /\ DOMAIN call' = DOMAIN call /\ call'[id].wave = wave /\ call'[id].plan = call[id].plan
        /\ \A c \in DOMAIN call : call'[c].st = call[c].st /\ call'[c].dir = call[c].dir
        /\ \A c \in DOMAIN call \ {id} : call'[c] = call[c]
    BY <1>2 DEF Shape, CallFields
  <1>4. /\ DOMAIN ms' = DOMAIN ms \cup new
        /\ \A m \in new : ms'[m].st = "start" /\ ms'[m].dir = DirFor(id, wave, m)
        /\ \A m \in DOMAIN ms \ new : ms'[m] = ms[m]
    BY <1>2 DEF NewMilestone
  <1>5. IsId(id) /\ call[id].plan \in Plans
    BY DEF Ids
  <1>6. ASSUME NEW i \in wave
        PROVE  call[id].plan[i].name \in Name /\ At(id, i) = Under(id, call[id].plan[i].name)
    BY <1>1, <1>5, PlansAre DEF At
  <1>7. ASSUME NEW u \in new
        PROVE  /\ IsId(u) /\ u.at # << >> /\ u.round = id.round /\ Below(id, u) /\ id # u
               /\ Below(u, u)
               /\ \A a : IsId(a) /\ Below(a, u) /\ a # u => Below(a, id)
    <2>1. PICK i \in wave : u = At(id, i)
      OBVIOUS
    <2>2. PICK name \in Name : u = Under(id, name)
      BY <1>6, <2>1
    <2>3. IsId(u) /\ u.at # << >> /\ u.round = id.round
      BY <1>1, <2>1
    <2>4. Below(id, u)
      BY <1>5, <2>2, UnderIsBelow
    <2>5. id # u
      <3>1. u.at = Append(id.at, name) /\ id.at \in Seq(Name)
        BY <1>5, <2>2, UnderIs DEF IsId
      <3>2. Len(u.at) = Len(id.at) + 1 /\ Len(id.at) \in Nat
        BY <3>1
      <3> QED
        BY <3>2
    <2>6. Below(u, u)
      BY <2>3, BelowItself
    <2>7. \A a : IsId(a) /\ Below(a, u) /\ a # u => Below(a, id)
      BY <1>5, <2>2, AboveUnder
    <2> QED
      BY <2>3, <2>4, <2>5, <2>6, <2>7
  <1> HIDE DEF wave, new
  <1>8. \A n : ~(Active(n) /\ Below(id, n) /\ id # n)
    BY <1>2 DEF Nested, InWave
  <1>9. /\ \A n : Active(n)' <=> (Active(n) \/ n \in new)
        /\ \A n : Active(n) => n \notin new /\ ms'[n] = ms[n] /\ n \in DOMAIN ms /\ IsId(n)
    <2>1. \A n : Active(n) => n \notin new /\ ms'[n] = ms[n] /\ n \in DOMAIN ms /\ IsId(n)
      BY <1>4, <1>7, <1>8 DEF Active, Ids
    <2> QED
      BY <1>4, <2>1 DEF Active
  <1>10. IF id.at = << >> THEN id.round = round /\ call[id].dir = Shared
         ELSE Splitting(id) /\ call[id].dir = ms[id].dir /\ Active(id) /\ Housed(id)
    <2>1. Placed(id)
      BY DEF Nested
    <2>2. CASE id.at = << >>
      BY <1>2, <2>1, <2>2, Zenon DEF Placed
    <2>3. CASE id.at # << >>
      <3>1. Splitting(id) /\ call[id].dir = ms[id].dir
        BY <1>2, <2>1, <2>3, Zenon DEF Placed
      <3>2. Active(id) /\ id \in DOMAIN ms
        BY <3>1 DEF Splitting, Active
      <3> QED
        BY <2>3, <3>1, <3>2 DEF Nested
    <2> QED
      BY <2>2, <2>3
  <1>11. id.round = round
    BY <1>10 DEF Housed
  \* Nothing that is being built is the call's own, unless it is what the call splits.
  <1>12. ASSUME NEW n, Active(n), Below(id, n) PROVE n = id
    BY <1>8, <1>12
  <1>13. ASSUME NEW c \in DOMAIN call PROVE Placed(c)'
    <2>1. Placed(c)
      BY DEF Nested
    <2>2. Splitting(c) => Active(c)
      BY DEF Splitting, Active
    <2>3. Splitting(c) => Splitting(c)' /\ ms'[c] = ms[c]
      BY <1>4, <1>9, <2>2 DEF Splitting
    <2>4. ASSUME (call[c].st \in {"plan", "review", "waves"})', c.at = << >>
          PROVE  c.round = round /\ call[c].dir = Shared
      BY <1>3, <2>1, <2>4, Zenon DEF Placed
    <2>5. ASSUME (call[c].st \in {"plan", "review", "waves"})', c.at # << >>
          PROVE  Splitting(c) /\ call[c].dir = ms[c].dir
      BY <1>3, <2>1, <2>5, Zenon DEF Placed
    <2> QED
      BY <1>2, <1>3, <2>3, <2>4, <2>5 DEF Placed
  <1>14. ASSUME NEW c \in DOMAIN call PROVE InWave(c)'
    <2> SUFFICES ASSUME NEW n, Active(n)', Below(c, n), c # n
                 PROVE  \E i \in call'[c].wave : Below(At(c, i)', n)
      BY DEF InWave
    <2>0. IsId(c) /\ call[c].plan \in Plans /\ Scheduled(c)
      BY DEF Ids, Waves
    <2>1. CASE Active(n)
      <3>1. c # id
        BY <1>8, <2>1
      <3> QED
        BY <1>3, <2>1, <3>1 DEF Nested, InWave, At
    <2>2. CASE n \in new /\ c = id
      <3>1. PICK i \in wave : n = At(id, i)
        BY <2>2 DEF new
      <3>2. At(c, i)' = n
        BY <1>3, <2>2, <3>1 DEF At
      <3> QED
        BY <1>3, <1>7, <2>2, <3>1, <3>2
    <2>3. CASE n \in new /\ c # id
      <3>1. Below(c, id)
        BY <1>7, <2>0, <2>3
      <3>2. Len(c.at) < Len(id.at) /\ Len(c.at) \in Nat
        BY <1>5, <2>0, <2>3, <3>1, BelowIsLonger
      <3>3. id.at # << >>
        BY <3>2
      <3>4. Active(id)
        BY <1>10, <3>3
      <3>5. PICK i \in call[c].wave : Below(At(c, i), id)
        BY <2>3, <3>1, <3>4 DEF Nested, InWave
      <3>6. call[c].plan[i].name \in Name
        BY <2>0, PlansAre DEF Scheduled
      <3>7. IsId(At(c, i))
        BY <2>0, <3>6, UnderIs DEF At
      <3>8. Below(At(c, i), n)
        BY <1>5, <1>7, <2>3, <3>5, <3>7, BelowOfBelow
      <3> QED
        BY <1>3, <2>3, <3>5, <3>8 DEF At
    <2> QED
      BY <1>9, <2>1, <2>2, <2>3
  <1>15. ASSUME NEW a \in DOMAIN ms' PROVE InSplit(a)'
    <2> SUFFICES ASSUME NEW n, Active(n)', Below(a, n), a # n
                 PROVE  Splitting(a)'
      BY DEF InSplit
    <2>0. IsId(a) /\ a.at # << >>
      BY <1>4, <1>7 DEF Ids
    <2>1. \A b : Splitting(b) => Splitting(b)'
      BY <1>4, <1>9 DEF Splitting, Active
    <2>2. CASE Active(n)
      <3>1. a \notin new
        <4> SUFFICES ASSUME a \in new PROVE FALSE
          OBVIOUS
        <4>1. Below(id, a) /\ id # a
          BY <1>7
        <4>2. Below(id, n)
          BY <1>5, <1>9, <2>0, <2>2, <4>1, BelowOfBelow
        <4>3. n = id
          BY <1>12, <2>2, <4>2
        <4>4. Len(a.at) < Len(id.at) /\ Len(id.at) < Len(a.at) /\ Len(a.at) \in Nat /\ Len(id.at) \in Nat
          BY <1>5, <2>0, <4>1, <4>3, BelowIsLonger
        <4> QED
          BY <4>4
      <3>2. a \in DOMAIN ms
        BY <1>4, <3>1
      <3> QED
        BY <2>1, <2>2, <3>2 DEF Nested, InSplit
    <2>3. CASE n \in new
      <3>1. Below(a, id)
        BY <1>7, <2>0, <2>3
      <3>2. id.at # << >> /\ a \notin new
        <4>1. CASE a = id
          BY <1>7, <2>0, <4>1
        <4>2. CASE a # id
          <5>1. Len(a.at) < Len(id.at) /\ Len(a.at) \in Nat /\ Len(id.at) \in Nat
            BY <1>5, <2>0, <3>1, <4>2, BelowIsLonger
          <5>2. a \in new => Len(id.at) < Len(a.at)
            BY <1>5, <1>7, BelowIsLonger
          <5> QED
            BY <5>1, <5>2
        <4> QED
          BY <4>1, <4>2
      <3>3. Splitting(id) /\ Active(id)
        BY <1>10, <3>2
      <3>4. a \in DOMAIN ms
        BY <1>4, <3>2
      <3>5. Splitting(a)
        BY <3>1, <3>3, <3>4 DEF Nested, InSplit
      <3> QED
        BY <2>1, <3>5
    <2> QED
      BY <1>9, <2>2, <2>3
  \* Where the new milestones build.
  <1>16. \A u \in new : ms'[u].dir = IF Cardinality(wave) = 1 THEN call[id].dir ELSE u
    BY <1>4 DEF DirFor
  <1>17. ASSUME Cardinality(wave) = 1, NEW u \in new, NEW v \in new
         PROVE  u = v
    <2>1. DOMAIN call[id].plan = 1..Len(call[id].plan) /\ Len(call[id].plan) \in Nat
      BY <1>5, PlansAre
    <2>2. IsFiniteSet(1..Len(call[id].plan))
      BY <2>1, FS_Interval
    <2>3. IsFiniteSet(wave)
      BY <1>1, <2>1, <2>2, FS_Subset
    <2>4. \E i : wave = {i}
      BY <1>17, <2>3, FS_Singleton
    <2> QED
      BY <2>4 DEF new
  <1>18. \/ call[id].dir = Shared
         \/ IsId(call[id].dir) /\ call[id].dir.at # << >> /\ Below(call[id].dir, id)
    BY <1>10, Zenon DEF Housed
  <1>19. ASSUME NEW u \in new
         PROVE  \/ ms'[u].dir = Shared
                \/ IsId(ms'[u].dir) /\ ms'[u].dir.at # << >> /\ Below(ms'[u].dir, u)
    <2>1. CASE Cardinality(wave) = 1
      <3>1. ms'[u].dir = call[id].dir
        BY <1>16, <2>1
      <3> QED
        BY <1>5, <1>7, <1>18, <3>1, BelowOfBelow
    <2>2. CASE Cardinality(wave) # 1
      BY <1>7, <1>16, <2>2
    <2> QED
      BY <2>1, <2>2
  <1>20. ASSUME NEW u \in new, NEW n, Active(n), ms'[u].dir = ms[n].dir
         PROVE  Below(u, n) \/ Below(n, u)
    <2>1. IsId(n) /\ n \in DOMAIN ms /\ Housed(n)
      BY <1>9, <1>20 DEF Nested
    <2>2. CASE Cardinality(wave) # 1
      <3>1. ms[n].dir = u /\ u # Shared
        BY <1>7, <1>16, <1>20, <2>2 DEF Shared, Top
      <3> QED
        BY <2>1, <3>1 DEF Housed
    <2>3. CASE Cardinality(wave) = 1 /\ id.at = << >>
      <3>1. n.round = id.round
        BY <1>11, <2>1 DEF Housed
      <3>2. Below(id, n)
        BY <1>5, <2>1, <2>3, <3>1, AllBelowTop
      <3>3. n = id
        BY <1>12, <1>20, <3>2
      <3> QED
        BY <2>1, <2>3, <3>3 DEF Ids
    <2>4. CASE Cardinality(wave) = 1 /\ id.at # << >>
      <3>1. Housed(id) /\ ms[id].dir = ms[n].dir
        BY <1>10, <1>16, <1>20, <2>4, Zenon
      <3>2. Below(id, n) \/ Below(n, id)
        BY <1>20, <3>1 DEF Housed
      <3>3. Below(n, id)
        BY <1>5, <1>12, <1>20, <3>2, BelowItself
      <3> QED
        BY <1>5, <1>7, <2>1, <3>3, BelowOfBelow
    <2> QED
      BY <2>2, <2>3, <2>4
  <1>21. ASSUME NEW m, Active(m)' PROVE Housed(m)'
    <2>1. CASE m \in new
      <3>1. m.round = round
        BY <1>7, <1>11, <2>1
      <3>2. ASSUME NEW n, Active(n)', ms'[n].dir = ms'[m].dir
            PROVE  Below(m, n) \/ Below(n, m)
        <4>1. CASE n \in new
          <5>1. m = n
            <6>1. CASE Cardinality(wave) = 1
              BY <1>17, <2>1, <4>1, <6>1
            <6>2. CASE Cardinality(wave) # 1
              BY <1>16, <2>1, <3>2, <4>1, <6>2
            <6> QED
              BY <6>1, <6>2
          <5> QED
            BY <1>7, <2>1, <5>1
        <4>2. CASE Active(n)
          BY <1>9, <1>20, <2>1, <3>2, <4>2
        <4> QED
          BY <1>9, <3>2, <4>1, <4>2
      <3> QED
        BY <1>2, <1>19, <2>1, <3>1, <3>2 DEF Housed
    <2>2. CASE Active(m)
      <3>1. Housed(m) /\ ms'[m] = ms[m]
        BY <1>9, <2>2 DEF Nested
      <3>2. ASSUME NEW n, Active(n)', ms'[n].dir = ms'[m].dir
            PROVE  Below(m, n) \/ Below(n, m)
        <4>1. CASE n \in new
          BY <1>20, <2>2, <3>1, <3>2, <4>1
        <4>2. CASE Active(n)
          BY <1>9, <3>1, <3>2, <4>2 DEF Housed
        <4> QED
          BY <1>9, <3>2, <4>1, <4>2
      <3> QED
        BY <1>2, <3>1, <3>2 DEF Housed
    <2> QED
      BY <1>9, <1>21, <2>1, <2>2
  <1>22. main' = "up" => Top(round') \in DOMAIN call'
    BY <1>2, <1>3 DEF Nested
  <1> QED
    BY <1>3, <1>13, <1>14, <1>15, <1>21, <1>22 DEF Nested

LEMMA NestedNext == Shape /\ Ids /\ Waves /\ Files /\ Nested /\ [Next]_vars => Nested'
  <1> SUFFICES ASSUME Shape, Ids, Waves, Files, Nested, [Next]_vars PROVE Nested'
    OBVIOUS
  <1> USE DEF checkpoints, history
  <1>1. CASE Launch
    <2>1. /\ main' = "up" /\ round' = 0 /\ DOMAIN ms' = {} /\ DOMAIN call' = {Top(0)}
          /\ call'[Top(0)] = NewCall(Shared, FALSE)
      BY <1>1 DEF Launch, Put, Nothing
    <2> QED
      BY <2>1 DEF Nested, Placed, InWave, InSplit, Active, NewCall, Top
  <1>2. CASE Crash \/ UNCHANGED vars
    <2>1. UNCHANGED <<round, call, ms>> /\ (main' = "up" => main = "up")
      BY <1>2 DEF Crash, vars
    <2> QED
      BY <2>1 DEF Nested, Placed, InWave, InSplit, Active, Housed, Splitting, At
  <1>3. CASE main = "up" /\ EndRound
    <2> DEFINE top == Top(round)
    <2>1. CASE main' # "up" /\ UNCHANGED <<round, call, ms>>
      BY <2>1 DEF Nested, Placed, InWave, InSplit, Active, Housed, Splitting, At
    <2>2. CASE call[top].st = "done" /\ StartRound(round + 1) /\ UNCHANGED ms
      <3>1. /\ top \in DOMAIN call /\ IsId(top) /\ top.at = << >> /\ top.round = round
            /\ call[top].wave = {} /\ round \in Nat
        BY <1>3, <2>2 DEF Nested, Ids, Waves, Scheduled, Top
      <3>2. ASSUME NEW n, Active(n) PROVE FALSE
        <4>1. Housed(n) /\ IsId(n) /\ n.at # << >>
          BY <3>2 DEF Nested, Active, Ids
        <4>2. Below(top, n) /\ top # n
          BY <3>1, <4>1, AllBelowTop DEF Housed
        <4> QED
          BY <3>1, <3>2, <4>2 DEF Nested, InWave
      <3>3. \A n : ~Active(n)'
        BY <2>2, <3>2 DEF Active
      <3>4. /\ round' = round + 1 /\ DOMAIN call' = DOMAIN call \cup {Top(round + 1)}
            /\ call'[Top(round + 1)] = NewCall(Shared, FALSE)
            /\ \A c \in DOMAIN call \ {Top(round + 1)} : call'[c] = call[c]
        BY <2>2 DEF StartRound, Put
      <3>5. ASSUME NEW c \in DOMAIN call' PROVE Placed(c)'
        <4>1. CASE c = Top(round + 1)
          BY <3>4, <4>1 DEF Placed, NewCall, Top
        <4>2. CASE c # Top(round + 1)
          <5>1. Placed(c) /\ IsId(c) /\ call'[c] = call[c]
            BY <3>4, <4>2 DEF Nested, Ids
          <5>2. ASSUME call[c].st \in {"plan", "review", "waves"} PROVE FALSE
            <6>1. CASE c.at = << >>
              <7>1. c.round = round
                BY <5>1, <5>2, <6>1, Zenon DEF Placed
              <7>2. c = top
                BY <5>1, <6>1, <7>1 DEF IsId, Top
              <7> QED
                BY <2>2, <5>2, <7>2
            <6>2. CASE c.at # << >>
              <7>1. Splitting(c)
                BY <5>1, <5>2, <6>2, Zenon DEF Placed
              <7> QED
                BY <3>2, <7>1 DEF Splitting, Active
            <6> QED
              BY <6>1, <6>2
          <5> QED
            BY <5>1, <5>2 DEF Placed
        <4> QED
          BY <4>1, <4>2
      <3> QED
        BY <3>3, <3>4, <3>5 DEF Nested, InWave, InSplit
    <2> QED
      BY <1>3, <2>1, <2>2 DEF EndRound
  <1>4. ASSUME NEW id \in DOMAIN call,
               AskPlan(id) \/ PlannerFails(id) \/ Review(id) \/ ReviewFails(id)
        PROVE  Nested'
    <2>1. call[id].st \in {"plan", "review"} /\ UNCHANGED <<ms, main, round>>
      BY <1>4 DEF AskPlan, PlannerFails, Review, ReviewFails
    <2>2. call[id].wave = {}
      BY <2>1 DEF Waves, Scheduled
    <2>3. \E st, p : call' = [call EXCEPT ![id].st = st] \/ call' = [call EXCEPT ![id].plan = p, ![id].st = st]
      BY <1>4 DEF AskPlan, PlannerFails, Review, ReviewFails, Follow
    <2>4. /\ DOMAIN call' = DOMAIN call /\ call'[id].dir = call[id].dir
          /\ \A c \in DOMAIN call \ {id} : call'[c] = call[c]
      BY <2>3 DEF Shape, CallFields
    <2>5. ~ \E n : Active(n) /\ Below(id, n) /\ id # n
      BY <2>2 DEF Nested, InWave
    <2> QED
      BY <2>1, <2>4, <2>5, NestedCallStep
  <1>5. ASSUME NEW id \in DOMAIN call, EndWave(id)
        PROVE  Nested'
    <2>1. /\ call[id].st = "waves" /\ UNCHANGED <<ms, main, round>>
          /\ \A i \in call[id].wave : ms[At(id, i)].st \in {"done", "failed"}
          /\ DOMAIN call' = DOMAIN call /\ \A d \in DOMAIN call \ {id} : call'[d] = call[d]
          /\ call'[id].dir = call[id].dir
      BY <1>5 DEF EndWave, Shape, CallFields
    <2>2. ASSUME NEW n, Active(n), Below(id, n), id # n PROVE FALSE
      <3>1. PICK i \in call[id].wave : Below(At(id, i), n)
        BY <2>2 DEF Nested, InWave
      <3>2. At(id, i) \in DOMAIN ms
        BY DEF Waves, Scheduled
      <3>3. At(id, i) # n
        BY <2>1, <2>2 DEF Active, Building
      <3>4. Splitting(At(id, i))
        BY <2>2, <3>1, <3>2, <3>3 DEF Nested, InSplit
      <3> QED
        BY <2>1, <3>4 DEF Splitting
    <2> QED
      BY <2>1, <2>2, NestedCallStep
  <1>6. ASSUME NEW id \in DOMAIN call, StartWave(id)
        PROVE  Nested'
    BY <1>6, NestedStartWave
  <1>7. ASSUME NEW m \in DOMAIN ms,
               \/ Begin(m) \/ SplitReturns(m) \/ Worker(m) \/ SecurityReviewer(m)
               \/ MaintenanceReviewer(m) \/ AgentFails(m) \/ OutOfBudget(m) \/ FinerReturns(m)
        PROVE  Nested'
    BY <1>7, NestedStep
  <1> QED
    BY <1>1, <1>2, <1>3, <1>4, <1>5, <1>6, <1>7, NextCases

\* synthesis.rs, implement_milestones: milestones that build at the same time do so in
\* directories of their own, however waves and splits nest.
THEOREM SiblingsAreIsolated == Spec => []Isolated
  <1>1. Init => Shape /\ Ids /\ Waves /\ Files /\ Nested
    BY ShapeInit, IdsInit, WavesInit, FilesInit, NestedInit
  <1>2. Shape /\ Ids /\ Waves /\ Files /\ Nested /\ [Next]_vars
        => (Shape /\ Ids /\ Waves /\ Files /\ Nested)'
    BY ShapeNext, IdsNext, WavesNext, FilesNext, NestedNext
  <1>3. Nested => Isolated
    <2> SUFFICES ASSUME Nested, NEW m \in DOMAIN ms, NEW n \in DOMAIN ms,
                        ms[m].st \in Building, ms[n].st \in Building, ms[m].dir = ms[n].dir,
                        m # n
                 PROVE  FALSE
      BY DEF Isolated
    <2>1. Active(m) /\ Active(n) /\ ~Splitting(m) /\ ~Splitting(n)
      BY DEF Active, Splitting, Building
    <2>2. Below(m, n) \/ Below(n, m)
      BY <2>1 DEF Nested, Housed
    <2> QED
      BY <2>1, <2>2 DEF Nested, InSplit
  <1> QED
    BY <1>1, <1>2, <1>3, PTL DEF Spec

-----------------------------------------------------------------------------
(* Types, and the bounds of splits, iterations, rounds and launches. *)

Most == Cap * MaxIter

LEMMA MostIs == Most \in Nat /\ MaxIter \in 1..Most /\ Budgets = 1..Most /\ Iterations = 0..(Most - 1)
  <1>1. MaxIter \in Nat /\ Cap \in Nat /\ MaxIter >= 1 /\ Cap >= 1
    BY BoundsAssumption
  <1>2. Most = MaxIter + (Cap - 1) * MaxIter /\ (Cap - 1) * MaxIter \in Nat
    <2>1. \A k, n \in Nat : k * n \in Nat
      OBVIOUS
    <2>2. Cap - 1 \in Nat /\ Cap = (Cap - 1) + 1
      BY <1>1
    <2>3. \A k, n \in Nat : (k + 1) * n = n + k * n
      OBVIOUS
    <2> QED
      BY <1>1, <2>1, <2>2, <2>3 DEF Most
  <1> QED
    BY <1>1, <1>2 DEF Most, Budgets, Iterations

\* An id is a call's or a milestone's by its round and its depth.
LEMMA IdIs ==
    ASSUME NEW id, IsId(id), id.round <= MaxRounds
    PROVE  /\ Len(id.at) <= MaxDepth => id \in CallId
           /\ Len(id.at) <= MaxDepth + 1 => id \in Id
           /\ Len(id.at) <= MaxDepth + 1 /\ id.at # << >> => id \in MilestoneId
  <1>1. MaxRounds \in Nat /\ MaxDepth \in Nat
    BY BoundsAssumption
  <1>2. /\ id = [round |-> id.round, at |-> id.at] /\ id.round \in Nat
        /\ id.at \in [1..Len(id.at) -> Name] /\ Len(id.at) \in Nat
    BY DEF IsId
  <1>3. ASSUME Len(id.at) <= MaxDepth + 1 PROVE id \in Id
    <2>1. Len(id.at) \in 0..(MaxDepth + 1) /\ id.round \in 0..MaxRounds
      BY <1>1, <1>2, <1>3
    <2>2. id.at \in UNION {[1..n -> Name] : n \in 0..(MaxDepth + 1)}
      BY <1>2, <2>1
    <2> QED
      BY <1>2, <2>1, <2>2, Zenon DEF Id
  <1> QED
    BY <1>1, <1>2, <1>3 DEF CallId, MilestoneId

LEMMA IdIsId ==
    ASSUME NEW id \in Id
    PROVE  IsId(id) /\ id.round \in 0..MaxRounds /\ Len(id.at) <= MaxDepth + 1
  <1>1. PICK n \in 0..(MaxDepth + 1) : id.at \in [1..n -> Name]
    BY Zenon DEF Id
  <1>2. MaxRounds \in Nat /\ MaxDepth \in Nat /\ id \in [round : 0..MaxRounds, at : {id.at}]
    BY BoundsAssumption DEF Id
  <1>3. id.at \in Seq(Name) /\ Len(id.at) = n
    BY <1>1
  <1> QED
    BY <1>2, <1>3 DEF IsId

LEMMA TopIs == \A r \in 0..MaxRounds : Top(r) \in CallId /\ Top(r) \in Id
  <1> SUFFICES ASSUME NEW r \in 0..MaxRounds PROVE Top(r) \in CallId /\ Top(r) \in Id
    OBVIOUS
  <1>1. IsId(Top(r)) /\ Top(r).round <= MaxRounds /\ Top(r).at = << >>
    BY BoundsAssumption, EmptySeq DEF IsId, Top
  <1> QED
    BY <1>1, IdIs, BoundsAssumption

LEMMA PutTyped ==
    ASSUME NEW f, NEW X, NEW Y, Partial(f, X, Y), NEW x \in X, NEW y \in Y
    PROVE  Partial(Put(f, x, y), X, Y)
  BY DEF Partial, Put

LEMMA ExceptTyped ==
    ASSUME NEW f, NEW X, NEW Y, Partial(f, X, Y), NEW g, DOMAIN g = DOMAIN f, NEW x,
           \A z \in DOMAIN f \ {x} : g[z] = f[z], g[x] \in Y
    PROVE  Partial(g, X, Y)
  BY DEF Partial

\* An iteration that has begun is one the budget pays for.
Paid(m) == ms[m].st \in {"security", "maintenance"} => ms[m].iter < ms[m].budget

Typed == TypeOK /\ \A m \in DOMAIN ms : Paid(m)

\* What workspaces, agents and history have: all but the calls and milestones of a launch.
Kept ==
    /\ scene \in Scenes
    /\ Partial(planned, CallId, Plans) /\ Partial(reviewed, CallId, Plans)
    /\ Partial(worked, MilestoneId \X Iterations, Verdicts)
    /\ Partial(security, MilestoneId \X Iterations, BOOLEAN)
    /\ Partial(maintenance, MilestoneId \X Iterations, BOOLEAN)
    /\ main \in {"down", "up", "failed", "done"}
    /\ round \in 0..MaxRounds /\ launches \in 0..MaxLaunches
    /\ Partial(sig, MilestoneId, Verdicts)
    /\ used \subseteq CallId \X Plans /\ unreviewed \subseteq CallId
    /\ won \subseteq MilestoneId \X Budgets

\* A milestone's record, and the calls.
MilestoneTyped(m) == ms[m] \in MsType /\ ms[m].iter <= ms[m].budget /\ Paid(m)
CallsTyped == Partial(call, CallId, CallType)
MilestonesTyped == \A m \in DOMAIN ms : m \in MilestoneId /\ MilestoneTyped(m)

LEMMA TypedIs == Typed <=> Kept /\ CallsTyped /\ MilestonesTyped
  BY DEF Typed, TypeOK, Kept, CallsTyped, MilestonesTyped, MilestoneTyped, Partial

LEMMA NewCallTyped ==
    ASSUME NEW d \in Id, NEW f \in BOOLEAN
    PROVE  NewCall(d, f) \in CallType
  BY PlansAssumption DEF NewCall, CallType

LEMMA TypedInit == Init => Typed
  <1> SUFFICES ASSUME Init PROVE Typed
    OBVIOUS
  <1>1. 0 \in 0..MaxRounds /\ 0 \in 0..MaxLaunches
    BY BoundsAssumption
  <1> QED
    BY <1>1 DEF Init, Nothing, Typed, TypeOK, Partial

\* What checkpoints and agents answer.
LEMMA AnswersTyped ==
    ASSUME scene \in Scenes
    PROVE  /\ scene.verdicts \subseteq Verdicts /\ scene.reviews \subseteq BOOLEAN
           /\ scene.launches \in 0..MaxLaunches
           /\ \A id : Answers(id) \cup {<< >>} \subseteq Plans
  BY ScenesAssumption, PlansAssumption DEF SceneType, Answers

LEMMA CheckpointTyped ==
    ASSUME NEW saved, NEW X, NEW Y, Partial(saved, X, Y), NEW id, NEW answers,
           answers \subseteq Y
    PROVE  Checkpoint(saved, id, answers) \subseteq Y
  BY DEF Partial, Checkpoint

\* The step of a call that changes its record only.
LEMMA CallTyped ==
    ASSUME CallsTyped, NEW id \in DOMAIN call, DOMAIN call' = DOMAIN call,
           \A c \in DOMAIN call \ {id} : call'[c] = call[c], call'[id] \in CallType
    PROVE  CallsTyped'
  BY ExceptTyped DEF CallsTyped

\* The step of a milestone that changes its record only.
LEMMA RecordTyped ==
    ASSUME MilestonesTyped, NEW m \in DOMAIN ms, DOMAIN ms' = DOMAIN ms,
           \A n \in DOMAIN ms \ {m} : ms'[n] = ms[n], MilestoneTyped(m)'
    PROVE  MilestonesTyped'
  BY DEF MilestonesTyped, MilestoneTyped, Paid

\* How the steps of a milestone change its record.
LEMMA RecordSteps ==
    ASSUME Shape, MilestonesTyped, NEW m \in DOMAIN ms
    PROVE  /\ \A st \in {"split", "finer", "failed", "worker"} :
                ms' = [ms EXCEPT ![m].st = st] => MilestonesTyped'
           /\ \A files \in SUBSET MilestoneId : Deliver(m, files) => MilestonesTyped'
           /\ Attempt(m) => MilestonesTyped'
           /\ NextIteration(m) /\ ms[m].iter < ms[m].budget => MilestonesTyped'
           /\ \A st \in {"security", "maintenance"} :
                ms' = [ms EXCEPT ![m].st = st] /\ ms[m].iter < ms[m].budget => MilestonesTyped'
  <1> USE DEF Shape, MsFields
  <1>1. /\ MilestoneTyped(m) /\ ms[m] \in MsType /\ Most \in Nat
        /\ ms[m].iter \in 0..Most /\ ms[m].budget \in 0..Most
        /\ ms[m].iter <= ms[m].budget
    BY MostIs DEF MilestonesTyped, MilestoneTyped, MsType
  <1>2. ASSUME NEW st \in {"split", "finer", "failed", "worker"}, ms' = [ms EXCEPT ![m].st = st]
        PROVE  MilestonesTyped'
    <2>1. ms'[m] = [ms[m] EXCEPT !.st = st]
      BY <1>2
    <2>2. ms'[m] \in MsType
      BY <1>1, <2>1 DEF MsType, Building
    <2>3. ms'[m].st = st /\ ms'[m].iter = ms[m].iter /\ ms'[m].budget = ms[m].budget
      BY <1>1, <2>1 DEF MsType
    <2>4. MilestoneTyped(m)'
      BY <1>1, <2>2, <2>3 DEF MilestoneTyped, Paid
    <2> QED
      BY <1>2, <2>4, RecordTyped
  <1>3. ASSUME NEW files \in SUBSET MilestoneId, Deliver(m, files)
        PROVE  MilestonesTyped'
    <2>1. ms'[m] = [ms[m] EXCEPT !.st = "done", !.files = files]
      BY <1>3 DEF Deliver
    <2>2. MilestoneTyped(m)'
      BY <1>1, <2>1 DEF MilestoneTyped, MsType, Paid
    <2> QED
      BY <1>3, <2>2, RecordTyped DEF Deliver
  <1>4. ASSUME Attempt(m)
        PROVE  MilestonesTyped'
    <2>1. PICK b \in Budgets \cup {MaxIter} :
            ms' = [ms EXCEPT ![m].st = "worker", ![m].iter = 0, ![m].budget = b]
      BY <1>4, Zenon DEF Attempt
    <2>2. ms'[m] = [ms[m] EXCEPT !.st = "worker", !.iter = 0, !.budget = b]
      BY <2>1
    <2>3. b \in Budgets /\ b \in Nat
      BY MostIs
    <2>4. ms'[m] \in MsType
      BY <1>1, <2>2, <2>3 DEF MsType, Building
    <2>5. ms'[m].st = "worker" /\ ms'[m].iter = 0 /\ ms'[m].budget = b
      BY <1>1, <2>2 DEF MsType
    <2>6. MilestoneTyped(m)'
      BY <2>3, <2>4, <2>5 DEF MilestoneTyped, Paid
    <2> QED
      BY <2>1, <2>6, RecordTyped
  <1>5. ASSUME NextIteration(m), ms[m].iter < ms[m].budget
        PROVE  MilestonesTyped'
    <2>1. ms'[m] = [ms[m] EXCEPT !.st = "worker", !.iter = ms[m].iter + 1]
      BY <1>5 DEF NextIteration
    <2>2. ms[m].iter + 1 \in Budgets
      BY <1>1, <1>5, MostIs
    <2>3. ms'[m] \in MsType
      BY <1>1, <2>1, <2>2 DEF MsType, Building
    <2>4. ms'[m].st = "worker" /\ ms'[m].iter = ms[m].iter + 1 /\ ms'[m].budget = ms[m].budget
      BY <1>1, <2>1 DEF MsType
    <2>5. MilestoneTyped(m)'
      BY <1>1, <1>5, <2>3, <2>4 DEF MilestoneTyped, Paid
    <2> QED
      BY <1>5, <2>5, RecordTyped DEF NextIteration
  <1>6. ASSUME NEW st \in {"security", "maintenance"}, ms' = [ms EXCEPT ![m].st = st],
               ms[m].iter < ms[m].budget
        PROVE  MilestonesTyped'
    <2>1. ms'[m] = [ms[m] EXCEPT !.st = st]
      BY <1>6
    <2>2. MilestoneTyped(m)'
      BY <1>1, <1>6, <2>1 DEF MilestoneTyped, MsType, Paid, Building
    <2> QED
      BY <1>6, <2>2, RecordTyped
  <1> QED
    BY <1>2, <1>3, <1>4, <1>5, <1>6

LEMMA SplitTyped ==
    ASSUME Shape, Ids, Typed, NEW m \in DOMAIN ms, MaySplit(m), NEW st \in {"split", "finer"},
           NEW force \in BOOLEAN, Split(m, st, force)
    PROVE  CallsTyped' /\ MilestonesTyped'
  <1>1. CallsTyped /\ MilestonesTyped /\ m \in MilestoneId /\ ms[m].dir \in Id
    BY TypedIs DEF MilestonesTyped, MilestoneTyped, MsType
  <1>2. m \in CallId
    BY <1>1, BoundsAssumption DEF MaySplit, CallId, MilestoneId
  <1>3. NewCall(ms[m].dir, force) \in CallType
    BY <1>1, NewCallTyped
  <1> QED
    BY <1>1, <1>2, <1>3, PutTyped, RecordSteps DEF Split, CallsTyped

\* The ids of a wave are milestones'.
LEMMA WaveTyped ==
    ASSUME Ids, Waves, Typed, NEW id \in DOMAIN call, StartWave(id),
           NEW i \in NextWave(call[id].plan, call[id].sched)
    PROVE  At(id, i) \in MilestoneId /\ At(id, i) \in Id
  <1>1. id \in CallId /\ call[id].plan \in Plans
    BY TypedIs DEF CallsTyped, Partial, Ids
  <1>2. /\ IsId(id) /\ id.round \in 0..MaxRounds /\ Len(id.at) <= MaxDepth
    BY <1>1, IdIsId DEF CallId
  <1>3. call[id].plan[i].name \in Name
    BY <1>1, WaveIs, PlansAre
  <1>4. /\ IsId(At(id, i)) /\ At(id, i).at # << >> /\ At(id, i).round = id.round
        /\ At(id, i).at = Append(id.at, call[id].plan[i].name)
    BY <1>2, <1>3, UnderIs DEF At
  <1>5. Len(At(id, i).at) = Len(id.at) + 1 /\ Len(id.at) \in Nat
    BY <1>2, <1>3, <1>4, AppendProperties DEF IsId
  <1> QED
    BY <1>2, <1>4, <1>5, IdIs, BoundsAssumption

LEMMA StartWaveTyped ==
    ASSUME Shape, Ids, Waves, Typed, NEW id \in DOMAIN call, StartWave(id)
    PROVE  Typed'
  <1> DEFINE c == call[id]
             wave == NextWave(c.plan, c.sched)
             new == {At(id, i) : i \in wave}
  <1>1. /\ call' = [call EXCEPT ![id].wave = wave, ![id].sched = c.sched \cup wave]
        /\ ms' = [m \in DOMAIN ms \cup new |->
                    IF m \in new THEN NewMilestone(DirFor(id, wave, m), c.force) ELSE ms[m]]
        /\ UNCHANGED <<checkpoints, main, round, launches, sig, history>>
    BY DEF StartWave
  <1>2. wave \subseteq DOMAIN c.plan /\ \A m \in new : m \in MilestoneId /\ m \in Id
    BY WaveIs, WaveTyped
  <1> HIDE DEF wave, new
  <1>3. c \in CallType /\ CallsTyped /\ MilestonesTyped /\ Kept
    BY TypedIs DEF CallsTyped, Partial
  <1>4. DOMAIN c.plan \subseteq Nat
    <2>1. DOMAIN c.plan = 1..Len(c.plan) /\ Len(c.plan) \in Nat
      BY PlansAre DEF Ids
    <2> QED
      BY <2>1
  <1>5. call'[id] = [c EXCEPT !.wave = wave, !.sched = c.sched \cup wave]
    BY <1>1 DEF Shape, CallFields
  <1>6. call'[id] \in CallType
    BY <1>2, <1>3, <1>4, <1>5 DEF CallType
  <1>7. CallsTyped'
    BY <1>1, <1>3, <1>6, CallTyped
  <1>8. ASSUME NEW m \in DOMAIN ms' PROVE m \in MilestoneId /\ MilestoneTyped(m)'
    <2>1. CASE m \in new
      <3>1. ms'[m] = NewMilestone(DirFor(id, wave, m), c.force)
        BY <1>1, <2>1
      <3>2. DirFor(id, wave, m) \in Id /\ c.force \in BOOLEAN
        BY <1>2, <1>3, <2>1 DEF DirFor, CallType
      <3> QED
        BY <1>2, <2>1, <3>1, <3>2 DEF NewMilestone, MilestoneTyped, MsType, Paid
    <2>2. CASE m \notin new
      BY <1>1, <1>3, <2>2 DEF MilestonesTyped, MilestoneTyped, Paid
    <2> QED
      BY <2>1, <2>2
  <1>9. Kept'
    BY <1>1, <1>3 DEF Kept, checkpoints, history
  <1> QED
    BY <1>7, <1>8, <1>9, TypedIs DEF MilestonesTyped, Typed, TypeOK, Kept, CallsTyped, MilestoneTyped, Partial

LEMMA EndWaveTyped ==
    ASSUME Shape, Waves, Typed, NEW id \in DOMAIN call, EndWave(id)
    PROVE  CallsTyped'
  <1> DEFINE c == call[id]
             wave == {At(id, i) : i \in c.wave}
             files == c.files \cup UNION {ms[m].files : m \in wave}
  <1>1. PICK st \in {"failed", "done", "waves"} :
          call' = [call EXCEPT ![id].st = st, ![id].wave = {}, ![id].files = files]
    BY Zenon DEF EndWave
  <1>2. c \in CallType /\ CallsTyped /\ MilestonesTyped
    BY TypedIs DEF CallsTyped, Partial
  <1>3. files \in SUBSET MilestoneId
    <2>1. \A m \in wave : m \in DOMAIN ms
      BY DEF Waves, Scheduled
    <2>2. \A m \in wave : ms[m].files \subseteq MilestoneId
      BY <1>2, <2>1 DEF MilestonesTyped, MilestoneTyped, MsType
    <2>3. c.files \subseteq MilestoneId
      BY <1>2 DEF CallType
    <2> QED
      BY <2>2, <2>3
  <1> HIDE DEF files
  <1>4. call'[id] = [c EXCEPT !.st = st, !.wave = {}, !.files = files]
    BY <1>1 DEF Shape, CallFields
  <1>5. call'[id] \in CallType
    BY <1>2, <1>3, <1>4 DEF CallType
  <1> QED
    BY <1>1, <1>2, <1>5, CallTyped

LEMMA CallStepTyped ==
    ASSUME Shape, Ids, Waves, Typed, NEW id \in DOMAIN call,
           AskPlan(id) \/ PlannerFails(id) \/ Review(id) \/ ReviewFails(id) \/ EndWave(id)
    PROVE  Kept' /\ CallsTyped' /\ UNCHANGED ms
  <1> USE DEF checkpoints, history
  <1>1. /\ Kept /\ CallsTyped /\ id \in CallId /\ call[id] \in CallType /\ call[id].plan \in Plans
        /\ << >> \in Plans
    BY TypedIs, PlansAssumption DEF CallsTyped, Partial, Ids
  <1>2. \A i : Answers(i) \cup {<< >>} \subseteq Plans
    BY <1>1, AnswersTyped DEF Kept
  <1>3. ASSUME NEW plan \in Plans, Follow(id, plan)
        PROVE  CallsTyped' /\ used' \subseteq CallId \X Plans
    <2>1. call'[id] = [call[id] EXCEPT !.plan = plan, !.st = "waves"]
      BY <1>3 DEF Follow, Shape, CallFields
    <2>2. call'[id] \in CallType
      BY <1>1, <2>1 DEF CallType
    <2>3. CallsTyped'
      BY <1>1, <1>3, <2>2, CallTyped DEF Follow
    <2>4. used \subseteq CallId \X Plans /\ <<id, plan>> \in CallId \X Plans
      BY <1>1 DEF Kept
    <2> QED
      BY <1>3, <2>3, <2>4 DEF Follow
  <1>4. ASSUME AskPlan(id)
        PROVE  Kept' /\ CallsTyped' /\ UNCHANGED ms
    <2>1. PICK p \in Checkpoint(planned, id, Answers(id)) :
            /\ planned' = Put(planned, id, p)
            /\ call' = [call EXCEPT ![id].plan = p, ![id].st = IF p = << >> THEN "done" ELSE "review"]
      BY <1>4 DEF AskPlan
    <2>2. p \in Plans
      BY <1>1, <1>2, CheckpointTyped DEF Kept
    <2>3. Partial(planned', CallId, Plans)
      BY <1>1, <2>1, <2>2, PutTyped DEF Kept
    <2>4. PICK st \in {"done", "review"} : call' = [call EXCEPT ![id].plan = p, ![id].st = st]
      BY <2>1, Zenon
    <2>5. call'[id] = [call[id] EXCEPT !.plan = p, !.st = st]
      BY <2>4 DEF Shape, CallFields
    <2>6. call'[id] \in CallType
      BY <1>1, <2>2, <2>5 DEF CallType
    <2>7. CallsTyped'
      BY <1>1, <2>4, <2>6, CallTyped
    <2> QED
      BY <1>1, <1>4, <2>3, <2>7 DEF AskPlan, Kept
  <1>5. ASSUME PlannerFails(id)
        PROVE  Kept' /\ CallsTyped' /\ UNCHANGED ms
    <2>1. call'[id] = [call[id] EXCEPT !.st = "failed"]
      BY <1>5 DEF PlannerFails, Shape, CallFields
    <2>2. call'[id] \in CallType
      BY <1>1, <2>1 DEF CallType
    <2>3. CallsTyped'
      BY <1>1, <1>5, <2>2, CallTyped DEF PlannerFails
    <2> QED
      BY <1>1, <1>5, <2>3 DEF PlannerFails, Kept
  <1>6. ASSUME Review(id)
        PROVE  Kept' /\ CallsTyped' /\ UNCHANGED ms
    <2>1. PICK r \in Checkpoint(reviewed, id, Answers(id) \cup {<< >>}) :
            /\ reviewed' = Put(reviewed, id, r)
            /\ Follow(id, IF r = << >> THEN call[id].plan ELSE r)
      BY <1>6 DEF Review
    <2>2. r \in Plans
      BY <1>1, <1>2, CheckpointTyped DEF Kept
    <2>3. Partial(reviewed', CallId, Plans)
      BY <1>1, <2>1, <2>2, PutTyped DEF Kept
    <2>4. CallsTyped' /\ used' \subseteq CallId \X Plans
      BY <1>1, <1>3, <2>1, <2>2
    <2> QED
      BY <1>1, <1>6, <2>3, <2>4 DEF Review, Kept
  <1>7. ASSUME ReviewFails(id)
        PROVE  Kept' /\ CallsTyped' /\ UNCHANGED ms
    <2>1. CallsTyped' /\ used' \subseteq CallId \X Plans
      BY <1>1, <1>3, <1>7 DEF ReviewFails
    <2> QED
      BY <1>1, <1>7, <2>1 DEF ReviewFails, Kept
  <1>8. ASSUME EndWave(id)
        PROVE  Kept' /\ CallsTyped' /\ UNCHANGED ms
    BY <1>1, <1>8, EndWaveTyped DEF EndWave, Kept
  <1> QED
    BY <1>4, <1>5, <1>6, <1>7, <1>8

LEMMA IterTyped ==
    ASSUME MilestonesTyped, NEW m \in DOMAIN ms, ms[m].iter < ms[m].budget
    PROVE  /\ Iter(m) \in MilestoneId \X Iterations
           /\ <<m, ms[m].iter + 1>> \in MilestoneId \X Budgets
  <1>1. m \in MilestoneId /\ ms[m].iter \in 0..Most /\ ms[m].budget \in 0..Most /\ Most \in Nat
    BY MostIs DEF MilestonesTyped, MilestoneTyped, MsType
  <1>2. ms[m].iter \in Iterations /\ ms[m].iter + 1 \in Budgets
    BY <1>1, MostIs
  <1> QED
    BY <1>1, <1>2 DEF Iter

LEMMA MilestoneStepTyped ==
    ASSUME Shape, Ids, Files, Typed, NEW m \in DOMAIN ms,
           \/ Begin(m) \/ SplitReturns(m) \/ Worker(m) \/ SecurityReviewer(m)
           \/ MaintenanceReviewer(m) \/ AgentFails(m) \/ OutOfBudget(m) \/ FinerReturns(m)
    PROVE  Kept' /\ CallsTyped' /\ MilestonesTyped'
  <1> USE DEF checkpoints, history
  <1>1. Kept /\ CallsTyped /\ MilestonesTyped
    BY TypedIs
  <1>2. /\ m \in MilestoneId /\ MilestoneTyped(m) /\ ms[m].force \in BOOLEAN /\ ms[m].dir \in Id
        /\ ms[m].iter \in Nat /\ ms[m].budget \in Nat
    BY <1>1, MostIs DEF MilestonesTyped, MilestoneTyped, MsType
  <1>3. \A files \in SUBSET MilestoneId : Deliver(m, files) => MilestonesTyped'
    BY <1>1, RecordSteps
  <1>4. /\ {m} \in SUBSET MilestoneId
        /\ ms[m].st \in {"split", "finer"} => call[m].files \in SUBSET MilestoneId
    BY <1>1, <1>2 DEF Files, Delivered, CallsTyped, Partial, CallType
  <1>5. CASE Begin(m)
    <2>1. Kept'
      BY <1>1, <1>5 DEF Begin, Kept
    <2>2. CASE Entry(m).hard /\ MaySplit(m)
      <3>1. Split(m, "split", ms[m].force)
        BY <1>5, <2>2 DEF Begin
      <3> QED
        BY <1>2, <2>1, <2>2, <3>1, SplitTyped
    <2>3. CASE ~(Entry(m).hard /\ MaySplit(m))
      <3>1. Attempt(m) /\ UNCHANGED call
        BY <1>5, <2>3 DEF Begin, Attempt
      <3> QED
        BY <1>1, <2>1, <3>1, RecordSteps DEF CallsTyped
    <2> QED
      BY <2>2, <2>3
  <1>6. CASE SplitReturns(m)
    <2>1. Kept' /\ UNCHANGED call /\ ms[m].st = "split"
      BY <1>1, <1>6 DEF SplitReturns, Kept, Attempt
    <2>2. MilestonesTyped'
      BY <1>1, <1>3, <1>4, <1>6, <2>1, RecordSteps DEF SplitReturns
    <2> QED
      BY <1>1, <2>1, <2>2 DEF CallsTyped
  <1>7. CASE Worker(m)
    <2>1. PICK v \in Checkpoint(worked, Iter(m), scene.verdicts) :
            /\ worked' = Put(worked, Iter(m), v) /\ sig' = Put(sig, m, v)
            /\ IF v = "clean" THEN ms' = [ms EXCEPT ![m].st = "security"] ELSE NextIteration(m)
      BY <1>7 DEF Worker
    <2>2. ms[m].iter < ms[m].budget
      BY <1>2, <1>7 DEF Worker, OutOfIterations
    <2>3. v \in Verdicts /\ Iter(m) \in MilestoneId \X Iterations
      BY <1>1, <2>2, AnswersTyped, CheckpointTyped, IterTyped DEF Kept
    <2>4. Partial(worked', MilestoneId \X Iterations, Verdicts) /\ Partial(sig', MilestoneId, Verdicts)
      BY <1>1, <1>2, <2>1, <2>3, PutTyped DEF Kept
    <2>5. Kept' /\ CallsTyped'
      BY <1>1, <1>7, <2>4 DEF Worker, Kept, CallsTyped
    <2>6. MilestonesTyped'
      BY <1>1, <2>1, <2>2, RecordSteps
    <2> QED
      BY <2>5, <2>6
  <1>8. CASE SecurityReviewer(m)
    <2>1. PICK v \in Checkpoint(security, Iter(m), scene.reviews) : security' = Put(security, Iter(m), v)
      BY <1>8 DEF SecurityReviewer
    <2>2. ms[m].iter < ms[m].budget
      BY <1>2, <1>8 DEF SecurityReviewer, MilestoneTyped, Paid
    <2>3. v \in BOOLEAN /\ Iter(m) \in MilestoneId \X Iterations
      BY <1>1, <2>2, AnswersTyped, CheckpointTyped, IterTyped DEF Kept
    <2>4. Partial(security', MilestoneId \X Iterations, BOOLEAN)
      BY <1>1, <2>1, <2>3, PutTyped DEF Kept
    <2>5. Kept' /\ CallsTyped'
      BY <1>1, <1>8, <2>4 DEF SecurityReviewer, Kept, CallsTyped
    <2>6. MilestonesTyped'
      BY <1>1, <1>8, <2>2, RecordSteps DEF SecurityReviewer
    <2> QED
      BY <2>5, <2>6
  <1>9. CASE MaintenanceReviewer(m)
    <2>1. PICK v \in Checkpoint(maintenance, Iter(m), scene.reviews) :
            /\ maintenance' = Put(maintenance, Iter(m), v)
            /\ \/ Deliver(m, {m}) /\ won' = won \cup {<<m, ms[m].iter + 1>>}
               \/ NextIteration(m) /\ UNCHANGED won
      BY <1>9, Zenon DEF MaintenanceReviewer
    <2>2. ms[m].iter < ms[m].budget
      BY <1>2, <1>9 DEF MaintenanceReviewer, MilestoneTyped, Paid
    <2>3. v \in BOOLEAN /\ Iter(m) \in MilestoneId \X Iterations
      BY <1>1, <2>2, AnswersTyped, CheckpointTyped, IterTyped DEF Kept
    <2>4. Partial(maintenance', MilestoneId \X Iterations, BOOLEAN)
      BY <1>1, <2>1, <2>3, PutTyped DEF Kept
    <2>5. won' \subseteq MilestoneId \X Budgets
      BY <1>1, <2>1, <2>2, IterTyped DEF Kept
    <2>6. Kept' /\ CallsTyped'
      BY <1>1, <1>9, <2>4, <2>5 DEF MaintenanceReviewer, Kept, CallsTyped
    <2>7. MilestonesTyped'
      BY <1>1, <1>3, <1>4, <2>1, <2>2, RecordSteps
    <2> QED
      BY <2>6, <2>7
  <1>10. CASE AgentFails(m)
    <2>1. Kept' /\ CallsTyped'
      BY <1>1, <1>10 DEF AgentFails, Kept, CallsTyped
    <2> QED
      BY <1>1, <1>10, <2>1, RecordSteps DEF AgentFails
  <1>11. CASE OutOfBudget(m)
    <2>1. Kept'
      BY <1>1, <1>11 DEF OutOfBudget, Kept
    <2>2. CASE ~SplitCannotHelp(m) /\ MaySplit(m)
      BY <1>11, <2>1, <2>2, SplitTyped DEF OutOfBudget
    <2>3. CASE ~(~SplitCannotHelp(m) /\ MaySplit(m))
      BY <1>1, <1>3, <1>4, <1>11, <2>1, <2>3 DEF OutOfBudget, CallsTyped
    <2> QED
      BY <2>2, <2>3
  <1>12. CASE FinerReturns(m)
    <2>1. Kept' /\ UNCHANGED call /\ ms[m].st = "finer"
      BY <1>1, <1>12 DEF FinerReturns, Kept
    <2>2. MilestonesTyped'
      BY <1>1, <1>3, <1>4, <1>12, <2>1, RecordSteps DEF FinerReturns
    <2> QED
      BY <1>1, <2>1, <2>2 DEF CallsTyped
  <1> QED
    BY <1>5, <1>6, <1>7, <1>8, <1>9, <1>10, <1>11, <1>12

LEMMA TypedNext == Shape /\ Ids /\ Waves /\ Files /\ Typed /\ [Next]_vars => Typed'
  <1> SUFFICES ASSUME Shape, Ids, Waves, Files, Typed, [Next]_vars PROVE Typed'
    OBVIOUS
  <1> USE DEF checkpoints, history
  <1>0. Kept /\ CallsTyped /\ MilestonesTyped
    BY TypedIs
  <1>1. Kept' /\ CallsTyped' /\ MilestonesTyped' => Typed'
    BY DEF Typed, TypeOK, Kept, CallsTyped, MilestonesTyped, MilestoneTyped, Partial
  <1>2. NewCall(Shared, FALSE) \in CallType
    <2>1. 0 \in 0..MaxRounds
      BY BoundsAssumption
    <2>2. Shared \in Id
      BY <2>1, TopIs DEF Shared
    <2> QED
      BY <2>2, NewCallTyped
  <1>3. CASE Launch
    <2>1. Top(0) \in CallId /\ 0 \in 0..MaxRounds
      BY TopIs, BoundsAssumption
    <2>2. launches' \in 0..MaxLaunches
      BY <1>0, <1>3, AnswersTyped, BoundsAssumption DEF Launch, Kept
    <2>3. CallsTyped'
      BY <1>2, <1>3, <2>1 DEF Launch, Put, Nothing, CallsTyped, Partial
    <2>4. MilestonesTyped' /\ Partial(sig', MilestoneId, Verdicts)
      BY <1>3 DEF Launch, Nothing, MilestonesTyped, Partial
    <2>5. Kept'
      BY <1>0, <1>3, <2>1, <2>2, <2>4 DEF Launch, Kept
    <2> QED
      BY <1>1, <2>3, <2>4, <2>5
  <1>4. CASE Crash \/ UNCHANGED vars
    <2>1. Kept' /\ UNCHANGED <<call, ms>>
      BY <1>0, <1>4 DEF Crash, vars, Kept
    <2> QED
      BY <1>0, <1>1, <2>1 DEF CallsTyped, MilestonesTyped, MilestoneTyped, Paid
  <1>5. CASE EndRound
    <2>1. UNCHANGED ms /\ MilestonesTyped'
      BY <1>0, <1>5 DEF EndRound, MilestonesTyped, MilestoneTyped, Paid
    <2>2. CASE UNCHANGED <<round, call>>
      BY <1>0, <1>1, <1>5, <2>1, <2>2 DEF EndRound, Kept, CallsTyped
    <2>3. CASE round < MaxRounds /\ StartRound(round + 1)
      <3>1. round + 1 \in 0..MaxRounds
        BY <1>0, <2>3, BoundsAssumption DEF Kept
      <3>2. CallsTyped'
        BY <1>0, <1>2, <2>3, <3>1, TopIs, PutTyped DEF StartRound, CallsTyped
      <3>3. Kept'
        BY <1>0, <1>5, <2>3, <3>1 DEF EndRound, StartRound, Kept
      <3> QED
        BY <1>1, <2>1, <3>2, <3>3
    <2> QED
      BY <1>5, <2>2, <2>3 DEF EndRound
  <1>6. ASSUME NEW id \in DOMAIN call,
               AskPlan(id) \/ PlannerFails(id) \/ Review(id) \/ ReviewFails(id) \/ EndWave(id)
        PROVE  Typed'
    <2>1. Kept' /\ CallsTyped' /\ UNCHANGED ms
      BY <1>6, CallStepTyped
    <2> QED
      BY <1>0, <1>1, <2>1 DEF MilestonesTyped, MilestoneTyped, Paid
  <1>7. ASSUME NEW id \in DOMAIN call, StartWave(id)
        PROVE  Typed'
    BY <1>7, StartWaveTyped
  <1>8. ASSUME NEW m \in DOMAIN ms,
               \/ Begin(m) \/ SplitReturns(m) \/ Worker(m) \/ SecurityReviewer(m)
               \/ MaintenanceReviewer(m) \/ AgentFails(m) \/ OutOfBudget(m) \/ FinerReturns(m)
        PROVE  Typed'
    BY <1>1, <1>8, MilestoneStepTyped
  <1> QED
    BY <1>3, <1>4, <1>5, <1>6, <1>7, <1>8, NextCases

\* synthesis.rs, plan_review.rs and split_guard.rs: every variable has its type. No split is deeper
\* than MAX_SPLIT_DEPTH, no milestone past its budget, no review of an iteration the budget does
\* not pay for, and no round past MAX_GAP_FILL_ROUNDS.
THEOREM MilestonesTypeCorrect == Spec => []TypeOK
  <1>1. Init => Shape /\ Ids /\ Waves /\ Files /\ Typed
    BY ShapeInit, IdsInit, WavesInit, FilesInit, TypedInit
  <1>2. Shape /\ Ids /\ Waves /\ Files /\ Typed /\ [Next]_vars
        => (Shape /\ Ids /\ Waves /\ Files /\ Typed)'
    BY ShapeNext, IdsNext, WavesNext, FilesNext, TypedNext
  <1>3. Typed => TypeOK
    BY DEF Typed
  <1> QED
    BY <1>1, <1>2, <1>3, PTL DEF Spec
=============================================================================
