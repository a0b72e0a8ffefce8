------------------------------ MODULE Registry ------------------------------
(***************************************************************************)
(* The provider registry that every model call of a run goes through       *)
(* (inference-providers/src/registry.rs).  Many agents call it at once:    *)
(* complete picks a provider afresh, falling through to the next one on an *)
(* error and retrying the whole round a bounded number of times, while     *)
(* complete_pinned stays with the provider a conversation began with.      *)
(*                                                                         *)
(* The score of a provider is data (prices, latencies, decaying error      *)
(* rates), so the order it sorts the candidates into is any order.  What   *)
(* is kept of the metrics is when each slot was last used, which decides   *)
(* the exploring rounds.  Waiting between two rounds has no length here.   *)
(***************************************************************************)
EXTENDS Fleet, FiniteSets

CONSTANTS
    Caller,        \* threads that hold a reference to the registry
    Runs,          \* of each run: its configuration, what its environment adds,
                   \* the providers that are down, whether the probes are skipped,
                   \* and what its requests ask for
    ExploreEvery,  \* EXPLORE_EVERY
    MaxRateLimit,  \* MAX_GLOBAL_RETRIES
    MaxTransient,  \* TRANSIENT_BACKOFF_SECS.len()
    MaxLoading     \* MAX_LOADING_WAITS

Names == {"anthropic", "claude_cli", "gemini", "groq", "gx10", "lmstudio", "ollama", "openai"}
NoName == "none"

\* A slot: its provider's name (not unique: two entries of one configuration,
\* or an entry and an environment key, may give the same) and kind, whether it
\* is available and takes tools, its largest tier, and whether it passed the
\* context probe.
SlotType == [name : Names, kind : DOMAIN Backend, available : BOOLEAN, tools : BOOLEAN,
             tier : 0..Heavy, contextOk : BOOLEAN]

\* A request: its tier, whether its prompt is under 3500 tokens, whether it
\* offers tools, whether it is of depth 0, and whether it carries a slot hint.
KindType == [tier : Tiers, small : BOOLEAN, tools : BOOLEAN,
             shallow : BOOLEAN, hint : BOOLEAN]

\* What an idle caller's request asks for, which nothing reads.
NoKind == [tier |-> 1, small |-> TRUE, tools |-> FALSE, shallow |-> FALSE, hint |-> FALSE]

ASSUME CallerAssumption == IsFiniteSet(Caller)
ASSUME RunsAssumption == \A r \in Runs :
    /\ r.kinds \subseteq KindType
    /\ \A slots \in RunQq(BuildRegistry(r.config, r.env, r.down), r.skipQq) :
         slots \in Seq(SlotType) \ {<< >>}
ASSUME BudgetAssumption ==
    /\ ExploreEvery \in Nat \ {0}
    /\ MaxRateLimit \in Nat
    /\ MaxTransient \in Nat
    /\ MaxLoading \in Nat

VARIABLES
    fleet,   \* Registry::slots, fixed once built and probed
    kinds,   \* what the requests of this run ask for, fixed
    older,   \* <<s, t>>: slot s was last used before slot t, one that has not been
             \* used at all being before every one that has
    tick,    \* explore_tick, modulo ExploreEvery
    req,     \* the request each caller has in flight
    passed   \* explorations that passed a slot over since it was last used
             \* (a history variable)

rvars == <<fleet, kinds, older, tick, req, passed>>

Slots == 1..Len(fleet)

Budgets == {"rate", "transient", "loading"}
MaxRetries == [rate |-> MaxRateLimit, transient |-> MaxTransient, loading |-> MaxLoading]

\* The budgets an error may be retried from, in the order they are tried: a
\* loading server that has used up its long budget is a server error.
Budget == [rate_limit   |-> <<"rate">>,
           loading      |-> <<"loading", "transient">>,
           server_error |-> <<"transient">>,
           fatal        |-> << >>]

NoRetries == [b \in Budgets |-> 0]

Requests == [state : {"idle", "routing", "calling", "ok", "failed"},
             kind : KindType, pin : Names \cup {NoName},
             queue : Seq(Nat \ {0}), by : Nat,
             retries : [Budgets -> Nat]]

\* What a caller holds between two calls; the locals of the loops live only
\* while it runs.
NoRequest == [state |-> "idle", kind |-> NoKind, pin |-> NoName,
              queue |-> << >>, by |-> 0, retries |-> NoRetries]

\* An error is an error to the caller: which one it was, only the log says.
Failed == [NoRequest EXCEPT !.state = "failed"]

-----------------------------------------------------------------------------
\* A slot is used: every metric update that pushes an error sample sets
\* last_used to now.
Touch(s) ==
    /\ older' = {p \in older : p[1] # s} \cup ((Slots \ {s}) \X {s})
    /\ passed' = [passed EXCEPT ![s] = 0]

NotTouched == UNCHANGED <<older, passed>>

Eligible(s, k) ==
    /\ fleet[s].available
    /\ fleet[s].contextOk \/ k.small
    /\ fleet[s].tier >= k.tier
    /\ k.tools => fleet[s].tools

\* The sets of candidates a request may find, as servers come and go.
Candidates(k) ==
    LET eligible == {s \in Slots : Eligible(s, k)}
        unsure == {s \in eligible : ComesAndGoes(fleet[s])}
    IN  {eligible \ gone : gone \in SUBSET unsure}

\* The orders a score may sort a set of slots into.
Rankings(S) ==
    {q \in [1..Cardinality(S) -> S] : \A i, j \in DOMAIN q : q[i] = q[j] => i = j}

\* Whether s was last used before t.
StalerThan(s, t) == <<s, t>> \in older

\* Mutant: the exploring round starts with the most recently used.
Freshest(S) == {s \in S : \A t \in S : ~StalerThan(s, t)}

\* The slots the exploring round may put first: of those never used the one
\* that ranks first, so any, and else the least recently used.
Stalest(S) == {s \in S : \A t \in S : ~StalerThan(t, s)}

Explores(k) == ~k.hint /\ k.shallow

-----------------------------------------------------------------------------
RegistryInit ==
    /\ \E r \in Runs :
         /\ fleet \in RunQq(BuildRegistry(r.config, r.env, r.down), r.skipQq)
         /\ kinds = r.kinds
    /\ older = {}
    /\ tick = 0
    /\ passed = [s \in Slots |-> 0]
    /\ req = [c \in Caller |-> NoRequest]

\* complete (pin = NoName) or complete_pinned is called.
Submit(c, k, pin) ==
    /\ req' = [req EXCEPT ![c] = [NoRequest EXCEPT !.state = "routing", !.kind = k, !.pin = pin]]
    /\ UNCHANGED <<fleet, kinds, older, tick, passed>>

\* The result of the call has been taken.
Take(c) ==
    /\ req' = [req EXCEPT ![c] = NoRequest]
    /\ UNCHANGED <<fleet, kinds, older, tick, passed>>

\* try_complete orders the candidates.  A hinted request starts elsewhere in
\* the ranking and a deep one takes it as it is; of the others, every
\* ExploreEvery-th starts with the stalest candidate.
Route(c) ==
    LET k == req[c].kind
        exploring == Explores(k) /\ tick = ExploreEvery - 1
    IN  /\ req[c].state = "routing"
        /\ req[c].pin = NoName
        /\ tick' = IF Explores(k) THEN (tick + 1) % ExploreEvery ELSE tick
        /\ \E S \in Candidates(k) \ {{}} : \E q \in Rankings(S) :
             /\ exploring => q[1] \in Stalest(S)
             /\ req' = [req EXCEPT ![c].state = "calling", ![c].queue = q]
             /\ passed' = [s \in Slots |->
                             IF exploring /\ s \in S \ {q[1]} THEN passed[s] + 1 ELSE passed[s]]
        /\ UNCHANGED <<fleet, kinds, older>>

\* No provider is eligible: an Unavailable error that nothing retries.
NoCandidate(c) ==
    /\ req[c].state = "routing"
    /\ req[c].pin = NoName
    /\ {} \in Candidates(req[c].kind)
    /\ req' = [req EXCEPT ![c] = Failed]
    /\ UNCHANGED <<fleet, kinds, older, tick, passed>>

\* complete_pinned takes the first slot of that name; it is not filtered again.
RoutePinned(c) ==
    LET named == {s \in Slots : fleet[s].name = req[c].pin}
    IN  /\ req[c].state = "routing"
        /\ req[c].pin # NoName
        /\ \E s \in named :
             /\ \A t \in named : s <= t
             /\ req' = [req EXCEPT ![c].state = "calling", ![c].queue = <<s>>]
        /\ UNCHANGED <<fleet, kinds, older, tick, passed>>

\* The provider at the head of the queue answers.
Answered(c) ==
    /\ req[c].state = "calling"
    /\ req[c].queue # << >>
    /\ Touch(Head(req[c].queue))
    /\ req' = [req EXCEPT ![c] = [NoRequest EXCEPT !.state = "ok", !.by = Head(req[c].queue)]]
    /\ UNCHANGED <<fleet, kinds, tick>>

\* It fails and complete falls through to the next one.
FallThrough(c) ==
    /\ req[c].state = "calling"
    /\ Len(req[c].queue) > 1
    /\ Touch(Head(req[c].queue))
    /\ req' = [req EXCEPT ![c].queue = Tail(@)]
    /\ UNCHANGED <<fleet, kinds, tick>>

\* What the provider asked last, the last one of the round, may fail with.
LastErrors(c) == ErrorsOf(fleet[Head(req[c].queue)].kind)

Spent(c, b) == req[c].retries[b] >= MaxRetries[b]

\* Mutant: the retries are not counted.
UncountedRetry(c) ==
    /\ req[c].state = "calling"
    /\ Len(req[c].queue) = 1
    /\ \E e \in LastErrors(c) : Budget[e] # << >>
    /\ req' = [req EXCEPT ![c].state = "routing", ![c].queue = << >>]
    /\ Touch(Head(req[c].queue))
    /\ UNCHANGED <<fleet, kinds, tick>>

\* The last provider of the round fails, and its error is the round's: the
\* error's first budget that is not spent pays for another round.  A pinned
\* provider's metrics show the failure only if it was a rate limit.
Retry(c) ==
    /\ req[c].state = "calling"
    /\ Len(req[c].queue) = 1
    /\ \E e \in LastErrors(c) :
         /\ \E i \in DOMAIN Budget[e] :
              /\ ~Spent(c, Budget[e][i])
              /\ \A j \in 1..(i - 1) : Spent(c, Budget[e][j])
              /\ req' = [req EXCEPT ![c].state = "routing", ![c].queue = << >>,
                                    ![c].retries[Budget[e][i]] = @ + 1]
         /\ IF req[c].pin = NoName \/ e = "rate_limit"
            THEN Touch(Head(req[c].queue)) ELSE NotTouched
    /\ UNCHANGED <<fleet, kinds, tick>>

\* No budget of the error is left: it is the caller's.
GiveBack(c) ==
    /\ req[c].state = "calling"
    /\ Len(req[c].queue) = 1
    /\ \E e \in LastErrors(c) :
         /\ \A i \in DOMAIN Budget[e] : Spent(c, Budget[e][i])
         /\ req' = [req EXCEPT ![c] = Failed]
    /\ Touch(Head(req[c].queue))
    /\ UNCHANGED <<fleet, kinds, tick>>

Serve(c) ==
    \/ Route(c)
    \/ NoCandidate(c)
    \/ RoutePinned(c)
    \/ Answered(c)
    \/ FallThrough(c)
    \/ Retry(c)
    \/ GiveBack(c)
=============================================================================
