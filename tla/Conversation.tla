---------------------------- MODULE Conversation ----------------------------
(***************************************************************************)
(* The agents of a run on top of the provider registry: plain calls        *)
(* (Manager::run_on_slot), tool-calling conversations with their turn      *)
(* budget, circuit breaker and second, high-effort answer                  *)
(* (Manager::run_agentic), and the fan_out tool, which runs copies of the  *)
(* conversation in threads of their own and waits for all of them          *)
(* (ai-org-orchestrator/src/manager.rs and tools.rs).                      *)
(*                                                                         *)
(* What a model answers is the environment's choice.  The tools that read  *)
(* or write files end in one step and are not told apart.  The pool of     *)
(* threads is Caller: fan_out itself takes as many threads as it has tasks *)
(* and nests to any depth, so the pool is a bound of the instance.         *)
(***************************************************************************)
EXTENDS Registry

CONSTANTS
    MaxTurns,  \* AGENTIC_MAX_TURNS
    TurnBump   \* CIRCUIT_BREAKER_TURN_BUMP

ASSUME TurnAssumption == MaxTurns \in Nat /\ TurnBump \in Nat

\* The tier an agent's calls need: what writes code, what reads and designs,
\* and the rest, which only gives verdicts.
AgentTier(agent) ==
    CASE agent \in {"TargetImplementer", "AgenticImplementer", "MergeAgent", "SystemTestWriter",
                    "DebugImplementer"} -> Heavy
      [] agent \in {"MissionArchitect", "InductiveReasoner", "SchemaArchitect",
                    "MilestonePlanner", "PlanReviewer", "TestEngineer", "AcceptanceCriteria",
                    "TurnBudgetSupervisor", "PostRunAnalyst", "IncrementPlanner",
                    "MaintenanceReviewer", "ProductionReadinessReviewer"} -> Light
      [] OTHER -> Micro

\* How much downstream work is lost with a call of the agent; the calls of depth
\* 0, with which nothing is lost, are those that explore.
AgentDepth(agent) ==
    CASE agent \in {"MissionArchitect", "InductiveReasoner", "IncrementPlanner"} -> 3
      [] agent \in {"MergeAgent", "SchemaArchitect", "MilestonePlanner", "PlanReviewer"} -> 2
      [] agent \in {"TargetImplementer", "AgenticImplementer", "DebugImplementer",
                    "ContractReviewer", "TestEngineer", "MaintenanceReviewer",
                    "ProductionReadinessReviewer", "AcceptanceCriteria",
                    "SystemTestWriter"} -> 1
      [] OTHER -> 0

\* What a call of an agent asks of the registry: small is whether its prompt is
\* under 3500 tokens.
KindOf(agent, small, tools, hint) ==
    [tier |-> AgentTier(agent), small |-> small, tools |-> tools,
     shallow |-> AgentDepth(agent) = 0, hint |-> hint]

VARIABLE conv  \* the call each thread is in, with its conversation's state

vars == <<rvars, conv>>

NoParent == "nobody"

Phases == {"idle",     \* the thread runs nothing
           "plain",    \* one call of a toolless agent
           "loop",     \* at the head of the conversation's loop
           "turn",     \* a turn is asked at low effort
           "answer",   \* the final answer is asked again at high effort
           "breaker",  \* TurnBudgetSupervisor writes its directive
           "tools",    \* the turn's tool calls are carried out
           "fan",      \* fan_out waits for its copies
           "done", "failed"}

ConvType == [phase : Phases, kind : KindType, turn : Nat, limit : Nat,
             tripped : BOOLEAN, pin : Names \cup {NoName},
             served : SUBSET (Nat \ {0}), asked : Nat,
             parent : Caller \cup {NoParent}]

Fresh(phase, k, parent) ==
    [phase |-> phase, kind |-> k, turn |-> 0, limit |-> MaxTurns, tripped |-> FALSE,
     pin |-> NoName, served |-> {}, asked |-> 0, parent |-> parent]

NoCall == Fresh("idle", NoKind, NoParent)

Ended(a) == conv[a].phase \in {"done", "failed"}
Idle(a) == conv[a].phase = "idle"

Init ==
    /\ RegistryInit
    /\ conv = [a \in Caller |-> NoCall]

-----------------------------------------------------------------------------
\* A stage of the run calls an agent in one of its own threads.
StartPlain(a) ==
    /\ Idle(a)
    /\ \E k \in kinds :
         /\ ~k.tools
         /\ Submit(a, k, NoName)
         /\ conv' = [conv EXCEPT ![a] = Fresh("plain", k, NoParent)]

StartConversation(a) ==
    /\ Idle(a)
    /\ \E k \in kinds :
         /\ k.tools
         /\ conv' = [conv EXCEPT ![a] = Fresh("loop", k, NoParent)]
    /\ UNCHANGED rvars

PlainEnds(a) ==
    /\ conv[a].phase = "plain"
    /\ req[a].state \in {"ok", "failed"}
    /\ conv' = [conv EXCEPT ![a].phase = IF req[a].state = "ok" THEN "done" ELSE "failed"]
    /\ Take(a)

\* Mutant: every turn is routed afresh.
AskUnpinnedTurn(a) ==
    /\ conv[a].phase = "loop"
    /\ conv[a].turn < conv[a].limit
    /\ Submit(a, conv[a].kind, NoName)
    /\ conv' = [conv EXCEPT ![a].phase = "turn", ![a].asked = @ + 1]

\* The next turn: routed afresh the first time, pinned from then on.
AskTurn(a) ==
    /\ conv[a].phase = "loop"
    /\ conv[a].turn < conv[a].limit
    /\ Submit(a, conv[a].kind, conv[a].pin)
    /\ conv' = [conv EXCEPT ![a].phase = "turn", ![a].asked = @ + 1]

\* Mutant: the breaker does not remember that it tripped.
TripAgain(a) ==
    /\ conv[a].phase = "loop"
    /\ conv[a].turn >= conv[a].limit
    /\ \E small \in BOOLEAN :
         Submit(a, KindOf("TurnBudgetSupervisor", small, FALSE, FALSE), NoName)
    /\ conv' = [conv EXCEPT ![a].phase = "breaker", ![a].asked = @ + 1]

\* The budget is used up for the first time: a call of its own, outside the
\* conversation, asks for a directive.
TripBreaker(a) ==
    /\ conv[a].phase = "loop"
    /\ conv[a].turn >= conv[a].limit
    /\ ~conv[a].tripped
    /\ \E small \in BOOLEAN :
         Submit(a, KindOf("TurnBudgetSupervisor", small, FALSE, FALSE), NoName)
    /\ conv' = [conv EXCEPT ![a].phase = "breaker", ![a].tripped = TRUE, ![a].asked = @ + 1]

\* Its answer, or a generic directive when it failed, extends the budget.
Extend(a) ==
    /\ conv[a].phase = "breaker"
    /\ req[a].state \in {"ok", "failed"}
    /\ conv' = [conv EXCEPT ![a].phase = "loop", ![a].limit = @ + TurnBump]
    /\ Take(a)

OutOfTurns(a) ==
    /\ conv[a].phase = "loop"
    /\ conv[a].turn >= conv[a].limit
    /\ conv[a].tripped
    /\ conv' = [conv EXCEPT ![a].phase = "failed"]
    /\ UNCHANGED rvars

\* A turn failed for good: the conversation fails with it, wherever it was.
TurnFails(a) ==
    /\ conv[a].phase \in {"turn", "answer"}
    /\ req[a].state = "failed"
    /\ conv' = [conv EXCEPT ![a].phase = "failed"]
    /\ Take(a)

\* A turn that calls no tool is the answer, asked again on the same provider.
AskAgain(a) ==
    /\ conv[a].phase = "turn"
    /\ req[a].state = "ok"
    /\ LET name == fleet[req[a].by].name
       IN  /\ Submit(a, conv[a].kind, name)
           /\ conv' = [conv EXCEPT ![a].phase = "answer", ![a].pin = name,
                                   ![a].served = @ \cup {req[a].by}, ![a].asked = @ + 1]

\* The answer asked again calls no tool either.
Answer(a) ==
    /\ conv[a].phase = "answer"
    /\ req[a].state = "ok"
    /\ conv' = [conv EXCEPT ![a].phase = "done", ![a].served = @ \cup {req[a].by}]
    /\ Take(a)

\* A turn, or the answer asked again, calls tools.
CallTools(a) ==
    /\ conv[a].phase \in {"turn", "answer"}
    /\ req[a].state = "ok"
    /\ conv' = [conv EXCEPT ![a].phase = "tools",
                            ![a].pin = IF @ = NoName THEN fleet[req[a].by].name ELSE @,
                            ![a].served = @ \cup {req[a].by}]
    /\ Take(a)

NextTurn(a) ==
    /\ conv[a].phase = "tools"
    /\ conv' = [conv EXCEPT ![a].phase = "loop", ![a].turn = @ + 1]
    /\ UNCHANGED rvars

\* A tool panics (read_file cuts a long text off inside a character): in a copy
\* that is the end of its thread, and one failed result.  Elsewhere it ends the run.
ToolPanics(a) ==
    /\ conv[a].phase = "tools"
    /\ conv[a].parent # NoParent
    /\ conv' = [conv EXCEPT ![a].phase = "failed"]
    /\ UNCHANGED rvars

\* One of the tool calls is fan_out, at most one a turn here: copies of the
\* same agent, each with a whole turn budget of its own.
FanOut(a) ==
    /\ conv[a].phase = "tools"
    /\ \E S \in SUBSET {b \in Caller : Idle(b)} :
         /\ S # {}
         /\ conv' = [b \in Caller |->
                       IF b = a THEN [conv[a] EXCEPT !.phase = "fan"]
                       ELSE IF b \in S THEN Fresh("loop", conv[a].kind, a)
                       ELSE conv[b]]
    /\ UNCHANGED rvars

Children(a) == {b \in Caller : conv[b].parent = a}

\* All copies have ended, failed ones included, which makes one tool result:
\* the turn is complete.
Join(a) ==
    /\ conv[a].phase = "fan"
    /\ \A b \in Children(a) : Ended(b)
    /\ conv' = [b \in Caller |->
                  IF b = a THEN [conv[a] EXCEPT !.phase = "loop", !.turn = @ + 1]
                  ELSE IF conv[b].parent = a THEN NoCall
                  ELSE conv[b]]
    /\ UNCHANGED rvars

\* The caller of the agent takes the result.
Return(a) ==
    /\ Ended(a)
    /\ conv[a].parent = NoParent
    /\ conv' = [conv EXCEPT ![a] = NoCall]
    /\ UNCHANGED rvars

RegistryStep(a) == Serve(a) /\ UNCHANGED conv

\* The steps of a thread that is running something.  Whether the model calls
\* fan_out is its choice, so that is no step the thread owes.
Step(a) ==
    \/ RegistryStep(a)
    \/ PlainEnds(a)
    \/ AskTurn(a)
    \/ TripBreaker(a)
    \/ Extend(a)
    \/ OutOfTurns(a)
    \/ TurnFails(a)
    \/ AskAgain(a)
    \/ Answer(a)
    \/ CallTools(a)
    \/ NextTurn(a)
    \/ Join(a)

Next == \E a \in Caller :
    \/ Step(a)
    \/ StartPlain(a)
    \/ StartConversation(a)
    \/ FanOut(a)
    \/ ToolPanics(a)
    \/ Return(a)

Spec == Init /\ [][Next]_vars

\* Threads that have started run on; what is started, and what it starts in
\* turn, is nobody's obligation.
FairSpec == Spec /\ \A a \in Caller : WF_vars(Step(a))

-----------------------------------------------------------------------------
(* Properties *)

\* Every variable has its type; a request that is being served has a provider
\* left to ask and every slot was used at most once in the recency order.
TypeOK ==
    /\ fleet \in Seq(SlotType)
    /\ kinds \subseteq KindType
    /\ older \subseteq Slots \X Slots
    /\ tick \in 0..(ExploreEvery - 1)
    /\ passed \in [Slots -> Nat]
    /\ req \in [Caller -> Requests]
    /\ conv \in [Caller -> ConvType]
    /\ \A s, t \in Slots : StalerThan(s, t) => ~StalerThan(t, s)
    /\ \A c \in Caller : req[c].state \in {"calling"} => req[c].queue # << >>

UniqueNames == \A s, t \in Slots : fleet[s].name = fleet[t].name => s = t

\* A conversation, whose history is in one provider's wire format, never
\* leaves the provider of its first turn, through retries, the circuit
\* breaker, the second answer and other threads' calls; where names are
\* unique that is one slot, and one that can serve it.
OneProvider == \A a \in Caller :
    \A s \in conv[a].served :
        /\ \A t \in conv[a].served : fleet[t].name = fleet[s].name
        /\ UniqueNames => conv[a].served = {s} /\ Eligible(s, conv[a].kind)

\* The turn budget bounds what a conversation costs: with the one extension
\* and the answers asked twice it makes at most two calls a turn and one for
\* the directive.
TurnBudget == \A a \in Caller :
    /\ conv[a].turn <= MaxTurns + TurnBump
    /\ conv[a].asked <= 2 * (MaxTurns + TurnBump) + 1

\* However the scores rank it, a provider is not forgotten: the explorations
\* that pass it over before it is used again are at most as many as the other
\* providers, times the threads that may be exploring at once.
NoSlotForgotten == \A s \in Slots :
    passed[s] <= (Len(fleet) - 1) * Cardinality(Caller)

\* The doc of complete_pinned: a conversation continues on the SAME provider
\* that served an earlier turn.  Fails where two slots have one name (MCTwins).
SameProvider == \A a \in Caller :
    \A s, t \in conv[a].served : s = t

\* Every call of an agent ends, with an answer or an error: no retry, turn,
\* circuit breaker or wait for copies keeps it for ever.
EveryCallEnds == \A a \in Caller :
    conv[a].phase # "idle" ~> Ended(a) \/ Idle(a)
=============================================================================
