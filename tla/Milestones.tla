----------------------------- MODULE Milestones -----------------------------
(***************************************************************************)
(* How the crate is planned and implemented before it is integrated: plans *)
(* of milestones and their review, waves of milestones that are built at   *)
(* the same time, the loop of worker, quality gate and two reviewers, the  *)
(* split of milestones that are hard or do not converge, and the rounds    *)
(* that look for what the plan forgot (ai-org-orchestrator/src/            *)
(* synthesis.rs, plan_review.rs, split_guard.rs, estimation.rs).  A launch *)
(* may die at any step; the next one starts over and is answered by the    *)
(* checkpoints of workspace.rs.                                            *)
(*                                                                         *)
(* What agents answer is the environment's choice; an answer cut off by a  *)
(* crash is some other answer.  A worker's answer is what the gate makes   *)
(* of it: clean, or the errors it shows.  How many iterations the history  *)
(* of all jobs predicts for an agentic milestone is a choice, too.         *)
(* Prompts, patterns and logs are left out.                                *)
(***************************************************************************)
EXTENDS Naturals, Sequences, FiniteSets

CONSTANTS
    Name,        \* the names planners give to milestones
    Plans,       \* the plans they make
    Scenes,      \* what the agents of a run answer, see SceneType
    MaxIter,     \* the iteration budget of a milestone
    Cap,         \* AGENTIC_ITERATION_BUDGET_CAP_MULTIPLIER
    MaxDepth,    \* MAX_SPLIT_DEPTH
    MaxRounds,   \* MAX_GAP_FILL_ROUNDS
    MaxLaunches  \* bound: how often the orchestrator is launched

\* A milestone of a plan; deps holds the names of its DEPENDS_ON line, which may
\* be no milestone's.
Milestone == [name : Name, hard : BOOLEAN, agentic : BOOLEAN, deps : SUBSET (Name \cup {"other"})]

\* Planners name the milestones of a plan apart; NONE is the empty plan.
ASSUME PlansAssumption ==
    /\ Plans \subseteq Seq(Milestone)
    /\ << >> \in Plans
    /\ \A p \in Plans : \A i, j \in DOMAIN p : p[i].name = p[j].name => i = j

ASSUME BoundsAssumption ==
    /\ MaxIter \in Nat \ {0} /\ Cap \in Nat \ {0}
    /\ MaxDepth \in Nat /\ MaxRounds \in Nat /\ MaxLaunches \in Nat

Verdicts == {"clean", "e1", "e2"}   \* the gate passes, or shows these errors

\* The plans for a whole crate, for a gap in it and for the split of a milestone,
\* and what the gate and the reviewers say of the code.
SceneType == [first : SUBSET Plans, gap : SUBSET Plans, split : SUBSET Plans,
              verdicts : SUBSET Verdicts, reviews : SUBSET BOOLEAN, launches : 0..MaxLaunches]
ASSUME ScenesAssumption == Scenes \subseteq SceneType

\* An id: the round of planning (0 is the first plan) and the names below it.
\* A call of implement_milestones has the id of the milestone it splits.
Id == [round : 0..MaxRounds, at : UNION {[1..n -> Name] : n \in 0..(MaxDepth + 1)}]
Top(r) == [round |-> r, at |-> << >>]
Under(id, name) == [id EXCEPT !.at = Append(@, name)]
Parent(id) == [id EXCEPT !.at = SubSeq(@, 1, Len(@) - 1)]
CallId == {id \in Id : Len(id.at) <= MaxDepth}
MilestoneId == {id \in Id : id.at # << >>}
Below(id, m) ==
    id.round = m.round /\ Len(m.at) >= Len(id.at) /\ SubSeq(m.at, 1, Len(id.at)) = id.at

Budgets == 1..(Cap * MaxIter)
Iterations == 0..(Cap * MaxIter - 1)
\* The crate's directory: the shared one, or the one of a milestone.
Shared == Top(0)

VARIABLES
    scene,      \* what the agents of this run answer
    planned,    \* the checkpoints {id}/plan there are
    reviewed,   \* the checkpoints {id}/plan-review; << >> approves the plan
    worked,     \* the checkpoints {id}/iter/{n}/worker
    security,   \* the checkpoints {id}/iter/{n}/security
    maintenance,\* the checkpoints {id}/iter/{n}/maintenance
    main,       \* where the launch is
    round,      \* and its round of planning
    launches,   \* how many there were
    call,       \* the calls of implement_milestones of this launch
    ms,         \* the milestones of this launch
    sig,        \* Manager::gate_signatures
    used,       \* the plans calls have followed, in any launch (history)
    unreviewed, \* the calls that went on without their review (history)
    won         \* the milestones that converged, and in how many iterations (history)

checkpoints == <<scene, planned, reviewed, worked, security, maintenance>>
history == <<used, unreviewed, won>>
vars == <<checkpoints, main, round, launches, call, ms, sig, history>>

\* f, with y at x.
Put(f, x, y) == [z \in DOMAIN f \cup {x} |-> IF z = x THEN y ELSE f[z]]
Nothing == [x \in {} |-> x]

NewCall(dir, force) ==
    [st |-> "plan", plan |-> << >>, sched |-> {}, wave |-> {}, dir |-> dir,
     force |-> force, files |-> {}]
NewMilestone(dir, force) ==
    [st |-> "start", iter |-> 0, budget |-> 0, dir |-> dir, force |-> force, files |-> {}]
Building == {"worker", "security", "maintenance"}

Init ==
    /\ scene \in Scenes
    /\ planned = Nothing /\ reviewed = Nothing
    /\ worked = Nothing /\ security = Nothing /\ maintenance = Nothing
    /\ main = "down" /\ round = 0 /\ launches = 0
    /\ call = Nothing /\ ms = Nothing /\ sig = Nothing
    /\ used = {} /\ unreviewed = {} /\ won = {}

\* Mutant: the agent is asked whether or not there is a checkpoint.
Checkpoint_Always(saved, id, answers) == answers

\* Workspace::checkpoint: what the workspace holds, else an answer of the agent.
Checkpoint(saved, id, answers) == IF id \in DOMAIN saved THEN {saved[id]} ELSE answers

-----------------------------------------------------------------------------
(* Launches, and the rounds of fill_scope_gaps *)

StartRound(r) ==
    /\ round' = r
    /\ call' = Put(call, Top(r), NewCall(Shared, FALSE))

Launch ==
    /\ main \in {"down", "failed"} /\ launches < scene.launches
    /\ main' = "up" /\ launches' = launches + 1 /\ round' = 0
    /\ call' = Put(Nothing, Top(0), NewCall(Shared, FALSE))
    /\ ms' = Nothing /\ sig' = Nothing
    /\ UNCHANGED <<checkpoints, history>>

\* A round that added nothing is the last, and so is the last one there may be.
EndRound ==
    LET c == call[Top(round)] IN
    /\ \/ c.st = "failed" /\ main' = "failed" /\ UNCHANGED <<round, call>>
       \/ /\ c.st = "done" /\ (round = MaxRounds \/ (round > 0 /\ c.files = {}))
          /\ main' = "done" /\ UNCHANGED <<round, call>>
       \/ /\ c.st = "done" /\ round < MaxRounds /\ (round > 0 => c.files # {})
          /\ StartRound(round + 1) /\ UNCHANGED main
    /\ UNCHANGED <<checkpoints, launches, ms, sig, history>>

Crash ==
    /\ main = "up" /\ main' = "down"
    /\ UNCHANGED <<checkpoints, round, launches, call, ms, sig, history>>

-----------------------------------------------------------------------------
(* implement_milestones: a plan, its review, its waves *)

Answers(id) ==
    IF id.at # << >> THEN scene.split ELSE IF id.round = 0 THEN scene.first ELSE scene.gap

\* A plan without milestones is not reviewed and leaves nothing to do.
AskPlan(id) ==
    /\ call[id].st = "plan"
    /\ \E p \in Checkpoint(planned, id, Answers(id)) :
          /\ planned' = Put(planned, id, p)
          /\ call' = [call EXCEPT ![id].plan = p, ![id].st = IF p = << >> THEN "done" ELSE "review"]
    /\ UNCHANGED <<scene, reviewed, worked, security, maintenance,
                   main, round, launches, ms, sig, history>>

PlannerFails(id) ==
    /\ call[id].st = "plan" /\ id \notin DOMAIN planned
    /\ call' = [call EXCEPT ![id].st = "failed"]
    /\ UNCHANGED <<checkpoints, main, round, launches, ms, sig, history>>

Follow(id, plan) ==
    /\ call' = [call EXCEPT ![id].plan = plan, ![id].st = "waves"]
    /\ used' = used \cup {<<id, plan>>}

Review(id) ==
    /\ call[id].st = "review"
    /\ \E r \in Checkpoint(reviewed, id, Answers(id) \cup {<< >>}) :
          /\ reviewed' = Put(reviewed, id, r)
          /\ Follow(id, IF r = << >> THEN call[id].plan ELSE r)
    /\ UNCHANGED <<scene, planned, worked, security, maintenance,
                   main, round, launches, ms, sig, unreviewed, won>>

\* A review that fails leaves the plan as written, and no checkpoint.
ReviewFails(id) ==
    /\ call[id].st = "review" /\ id \notin DOMAIN reviewed
    /\ Follow(id, call[id].plan)
    /\ unreviewed' = unreviewed \cup {id}
    /\ UNCHANGED <<checkpoints, main, round, launches, ms, sig, won>>

\* schedule_waves: names that are not in the plan are no dependencies.
Deps(p, i) == {j \in DOMAIN p : p[j].name \in p[i].deps}

\* Mutant: milestones are put into waves in plan order, ready or not.
NextWave_PlanOrder(p, sched) ==
    {CHOOSE i \in DOMAIN p \ sched : \A j \in DOMAIN p \ sched : i <= j}

\* Everything whose dependencies are scheduled; else the first milestone alone.
NextWave(p, sched) ==
    LET open == DOMAIN p \ sched
        ready == {i \in open : Deps(p, i) \subseteq sched}
    IN IF ready # {} THEN ready ELSE {CHOOSE i \in open : \A j \in open : i <= j}

At(id, i) == Under(id, call[id].plan[i].name)

\* Mutant: milestones of a wave build where their call does.
DirFor_Shared(id, wave, m) == call[id].dir

\* A milestone alone builds where its call does, the ones of a fan-out on their own.
DirFor(id, wave, m) == IF Cardinality(wave) = 1 THEN call[id].dir ELSE m

StartWave(id) ==
    LET c == call[id]
        wave == NextWave(c.plan, c.sched)
    IN /\ c.st = "waves" /\ c.wave = {}
       /\ call' = [call EXCEPT ![id].wave = wave, ![id].sched = @ \cup wave]
       /\ LET new == {At(id, i) : i \in wave} IN
          ms' = [m \in DOMAIN ms \cup new |->
                    IF m \in new THEN NewMilestone(DirFor(id, wave, m), c.force) ELSE ms[m]]
       /\ UNCHANGED <<checkpoints, main, round, launches, sig, history>>

\* All threads of a wave are joined; one that failed fails the call.
EndWave(id) ==
    LET c == call[id]
        wave == {At(id, i) : i \in c.wave}
    IN /\ c.st = "waves" /\ c.wave # {}
       /\ \A m \in wave : ms[m].st \in {"done", "failed"}
       /\ call' = [call EXCEPT
             ![id].st = IF \E m \in wave : ms[m].st = "failed" THEN "failed"
                        ELSE IF c.sched = DOMAIN c.plan THEN "done" ELSE "waves",
             ![id].wave = {},
             ![id].files = @ \cup UNION {ms[m].files : m \in wave}]
       /\ UNCHANGED <<checkpoints, main, round, launches, ms, sig, history>>

-----------------------------------------------------------------------------
(* implement_one_milestone: split, attempt, split again *)

Entry(m) ==
    LET plan == call[Parent(m)].plan IN
    plan[CHOOSE i \in DOMAIN plan : plan[i].name = m.at[Len(m.at)]]
MaySplit(m) == Len(m.at) <= MaxDepth

Split(m, st, force) ==
    /\ call' = Put(call, m, NewCall(ms[m].dir, force))
    /\ ms' = [ms EXCEPT ![m].st = st]

\* The budget is the flat one, or what the history predicts for an agentic milestone.
Attempt(m) ==
    /\ \E b \in IF ms[m].force \/ Entry(m).agentic THEN Budgets ELSE {MaxIter} :
          ms' = [ms EXCEPT ![m].st = "worker", ![m].iter = 0, ![m].budget = b]
    /\ UNCHANGED call

Begin(m) ==
    /\ ms[m].st = "start"
    /\ IF Entry(m).hard /\ MaySplit(m) THEN Split(m, "split", ms[m].force) ELSE Attempt(m)
    /\ UNCHANGED <<checkpoints, main, round, launches, sig, history>>

Deliver(m, files) == ms' = [ms EXCEPT ![m].st = "done", ![m].files = files]

\* Mutant: a split is returned whatever came out of it.
SplitReturns_Empty(m) ==
    /\ ms[m].st = "split"
    /\ \/ call[m].st = "done" /\ Deliver(m, call[m].files) /\ UNCHANGED call
       \/ call[m].st = "failed" /\ ms' = [ms EXCEPT ![m].st = "failed"] /\ UNCHANGED call
    /\ UNCHANGED <<checkpoints, main, round, launches, sig, history>>

\* A hard milestone that nobody would split is attempted as it is.
SplitReturns(m) ==
    /\ ms[m].st = "split"
    /\ \/ call[m].st = "done" /\ call[m].files # {} /\ Deliver(m, call[m].files) /\ UNCHANGED call
       \/ call[m].st = "done" /\ call[m].files = {} /\ Attempt(m)
       \/ call[m].st = "failed" /\ ms' = [ms EXCEPT ![m].st = "failed"] /\ UNCHANGED call
    /\ UNCHANGED <<checkpoints, main, round, launches, sig, history>>

\* Mutant: a rejected iteration is repeated under its own ids.
NextIteration_Same(m) == ms' = [ms EXCEPT ![m].st = "worker"]

NextIteration(m) == ms' = [ms EXCEPT ![m].st = "worker", ![m].iter = @ + 1]

OutOfIterations(m) == ms[m].iter >= ms[m].budget

Iter(m) == <<m, ms[m].iter>>

\* run_with_dual_review: the worker's answer goes through the quality gate ...
Worker(m) ==
    /\ ms[m].st = "worker" /\ ~OutOfIterations(m)
    /\ \E v \in Checkpoint(worked, Iter(m), scene.verdicts) :
          /\ worked' = Put(worked, Iter(m), v)
          /\ sig' = Put(sig, m, v)
          /\ IF v = "clean" THEN ms' = [ms EXCEPT ![m].st = "security"] ELSE NextIteration(m)
    /\ UNCHANGED <<scene, planned, reviewed, security, maintenance,
                   main, round, launches, call, history>>

\* ... to the security reviewer ...
SecurityReviewer(m) ==
    /\ ms[m].st = "security"
    /\ \E v \in Checkpoint(security, Iter(m), scene.reviews) :
          security' = Put(security, Iter(m), v)
    /\ ms' = [ms EXCEPT ![m].st = "maintenance"]
    /\ UNCHANGED <<scene, planned, reviewed, worked, maintenance,
                   main, round, launches, call, sig, history>>

\* ... and the maintenance reviewer; it takes both to pass.
MaintenanceReviewer(m) ==
    /\ ms[m].st = "maintenance"
    /\ \E v \in Checkpoint(maintenance, Iter(m), scene.reviews) :
          /\ maintenance' = Put(maintenance, Iter(m), v)
          /\ IF v /\ security[Iter(m)]
             THEN Deliver(m, {m}) /\ won' = won \cup {<<m, ms[m].iter + 1>>}
             ELSE NextIteration(m) /\ UNCHANGED won
    /\ UNCHANGED <<scene, planned, reviewed, worked, security,
                   main, round, launches, call, sig, used, unreviewed>>

\* Where no checkpoint answers, the agent's call may fail, and the milestone with it.
AgentFails(m) ==
    /\ \/ ms[m].st = "worker" /\ ~OutOfIterations(m) /\ Iter(m) \notin DOMAIN worked
       \/ ms[m].st = "security" /\ Iter(m) \notin DOMAIN security
       \/ ms[m].st = "maintenance" /\ Iter(m) \notin DOMAIN maintenance
    /\ ms' = [ms EXCEPT ![m].st = "failed"]
    /\ UNCHANGED <<checkpoints, main, round, launches, call, sig, history>>

\* split_cannot_help: the milestone fails as the one it was split from did.
SplitCannotHelp(m) ==
    {m, Parent(m)} \subseteq DOMAIN sig /\ sig[m] # "clean" /\ sig[m] = sig[Parent(m)]

\* Out of iterations: split finer, or take the best effort.
OutOfBudget(m) ==
    /\ ms[m].st = "worker" /\ OutOfIterations(m)
    /\ IF ~SplitCannotHelp(m) /\ MaySplit(m)
       THEN Split(m, "finer", TRUE)
       ELSE Deliver(m, {m}) /\ UNCHANGED call
    /\ UNCHANGED <<checkpoints, main, round, launches, sig, history>>

\* An empty split leaves the attempt before it.
FinerReturns(m) ==
    /\ ms[m].st = "finer"
    /\ \/ call[m].st = "done" /\ Deliver(m, IF call[m].files # {} THEN call[m].files ELSE {m})
       \/ call[m].st = "failed" /\ ms' = [ms EXCEPT ![m].st = "failed"]
    /\ UNCHANGED <<checkpoints, main, round, launches, call, sig, history>>

-----------------------------------------------------------------------------

CallStep(id) ==
    \/ AskPlan(id) \/ PlannerFails(id) \/ Review(id) \/ ReviewFails(id)
    \/ StartWave(id) \/ EndWave(id)

MilestoneStep(m) ==
    \/ Begin(m) \/ SplitReturns(m) \/ Worker(m) \/ SecurityReviewer(m)
    \/ MaintenanceReviewer(m) \/ AgentFails(m) \/ OutOfBudget(m) \/ FinerReturns(m)

Orchestrate ==
    /\ main = "up"
    /\ \/ EndRound
       \/ \E id \in DOMAIN call : CallStep(id)
       \/ \E m \in DOMAIN ms : MilestoneStep(m)

Next == Launch \/ Crash \/ Orchestrate
Spec == Init /\ [][Next]_vars

\* The orchestrator goes on with what it has begun, and every agent's call returns.
FairSpec == Spec /\ WF_vars(Orchestrate)

-----------------------------------------------------------------------------
(* Properties *)

CallType ==
    [st : {"plan", "review", "waves", "done", "failed"}, plan : Plans,
     sched : SUBSET Nat, wave : SUBSET Nat, dir : Id,
     force : BOOLEAN, files : SUBSET MilestoneId]
MsType ==
    [st : Building \cup {"start", "split", "finer", "done", "failed"},
     iter : {0} \cup Budgets, budget : {0} \cup Budgets, dir : Id,
     force : BOOLEAN, files : SUBSET MilestoneId]

\* f gives some of X a value in Y.
Partial(f, X, Y) == DOMAIN f \subseteq X /\ \A x \in DOMAIN f : f[x] \in Y

\* Every variable has its type, and no milestone goes past its budget.
TypeOK ==
    /\ scene \in Scenes
    /\ Partial(planned, CallId, Plans) /\ Partial(reviewed, CallId, Plans)
    /\ Partial(worked, MilestoneId \X Iterations, Verdicts)
    /\ Partial(security, MilestoneId \X Iterations, BOOLEAN)
    /\ Partial(maintenance, MilestoneId \X Iterations, BOOLEAN)
    /\ main \in {"down", "up", "failed", "done"}
    /\ round \in 0..MaxRounds /\ launches \in 0..MaxLaunches
    /\ Partial(call, CallId, CallType) /\ Partial(ms, MilestoneId, MsType)
    /\ \A m \in DOMAIN ms : ms[m].iter <= ms[m].budget
    /\ Partial(sig, MilestoneId, Verdicts)
    /\ used \subseteq CallId \X Plans /\ unreviewed \subseteq CallId
    /\ won \subseteq MilestoneId \X Budgets

\* No two milestones build in one directory at the same time, whatever nests
\* in what: the gate clears away sources it was not given (quality_gate).
Isolated ==
    \A m, n \in {m \in DOMAIN ms : ms[m].st \in Building} : ms[m].dir = ms[n].dir => m = n

\* The dependencies of a plan have no cycle.
Acyclic(p) == \A S \in SUBSET DOMAIN p : S # {} => \E i \in S : Deps(p, i) \cap S = {}

\* Under a plan without a cycle no milestone starts before the ones it depends
\* on are done (schedule_waves and the join after every wave).
DependenciesFirst ==
    \A id \in DOMAIN call : Acyclic(call[id].plan) =>
        \A i \in call[id].wave : \A j \in Deps(call[id].plan, i) :
            At(id, j) \in DOMAIN ms /\ ms[At(id, j)].st = "done"

\* When a call returns, every milestone of the plan it followed is in the crate,
\* as one piece or in pieces: nothing is lost to a split that came back empty.
NothingDropped ==
    \A id \in DOMAIN call : call[id].st = "done" =>
        \A i \in DOMAIN call[id].plan : \E m \in call[id].files : Below(At(id, i), m)

\* A later launch does what an earlier one did: it follows the same plans, save
\* where a review had failed, and a milestone that converged within the budget
\* it is given now is not split or accepted as a best effort.
ReplayAgrees ==
    /\ \A u, v \in used : (u[1] = v[1] /\ u[1] \notin unreviewed) => u = v
    /\ \A w \in won : w[1] \in DOMAIN ms =>
          LET m == ms[w[1]] IN
          (m.st = "finer" \/ (m.st = "worker" /\ m.iter = m.budget)) => w[2] > m.budget

\* A launch ends: no split, iteration, wave or round goes on forever.
EveryLaunchEnds == main = "up" ~> main # "up"
=============================================================================
