------------------------- MODULE ConversationProofs -------------------------
(***************************************************************************)
(* What modules Conversation and Contract promise, for all fleets,         *)
(* requests, budgets and threads, and all drafts, replies and rounds.      *)
(***************************************************************************)
EXTENDS Conversation, Contract, FiniteSetTheorems, WellFoundedInduction, TLAPS

-----------------------------------------------------------------------------
(* What the proofs need of the types. *)

ConvFields == {"phase", "kind", "turn", "limit", "tripped", "pin", "served", "asked", "parent"}
ReqFields == {"state", "kind", "pin", "queue", "by", "retries"}

Shape ==
    /\ DOMAIN conv = Caller /\ \A a \in Caller : DOMAIN conv[a] = ConvFields
    /\ DOMAIN req = Caller /\ \A a \in Caller : DOMAIN req[a] = ReqFields

LEMMA NextCases ==
    ASSUME [Next]_vars
    PROVE  \/ \E a \in Caller :
                \/ RegistryStep(a) \/ PlainEnds(a) \/ AskTurn(a) \/ TripBreaker(a) \/ Extend(a)
                \/ OutOfTurns(a) \/ TurnFails(a) \/ AskAgain(a) \/ Answer(a) \/ CallTools(a)
                \/ NextTurn(a) \/ Join(a) \/ StartPlain(a) \/ StartConversation(a)
                \/ FanOut(a) \/ ToolPanics(a) \/ Return(a)
           \/ UNCHANGED vars
    BY Zenon DEF Next, Step

LEMMA ShapeInit == Init => Shape
    BY DEF Init, RegistryInit, Shape, NoCall, Fresh, NoRequest, ConvFields, ReqFields

\* A request is replaced as a whole, or loses and gains what its step says.
LEMMA ReqShape ==
    ASSUME Shape, NEW a \in Caller,
           RegistryStep(a) \/ Take(a) \/ (\E k, pin : Submit(a, k, pin)) \/ UNCHANGED rvars
    PROVE  DOMAIN req' = Caller /\ \A b \in Caller : DOMAIN req'[b] = ReqFields
    <1> USE DEF Shape, ReqFields, NoRequest, Failed
    <1>1. CASE Route(a)
        BY <1>1 DEF Route
    <1>2. CASE NoCandidate(a)
        BY <1>2 DEF NoCandidate
    <1>3. CASE RoutePinned(a)
        BY <1>3 DEF RoutePinned
    <1>4. CASE Answered(a)
        BY <1>4 DEF Answered
    <1>5. CASE FallThrough(a)
        BY <1>5 DEF FallThrough
    <1>6. CASE Retry(a)
        BY <1>6 DEF Retry
    <1>7. CASE GiveBack(a)
        BY <1>7 DEF GiveBack
    <1>8. CASE Take(a)
        BY <1>8 DEF Take
    <1>9. CASE \E k, pin : Submit(a, k, pin)
        BY <1>9 DEF Submit
    <1>10. CASE UNCHANGED rvars
        BY <1>10 DEF rvars
    <1> QED
        BY <1>1, <1>2, <1>3, <1>4, <1>5, <1>6, <1>7, <1>8, <1>9, <1>10 DEF RegistryStep, Serve

LEMMA ShapeNext == Shape /\ [Next]_vars => Shape'
    <1> SUFFICES ASSUME Shape, [Next]_vars PROVE Shape'
        OBVIOUS
    <1>1. ASSUME NEW a \in Caller,
                 \/ RegistryStep(a) \/ PlainEnds(a) \/ AskTurn(a) \/ TripBreaker(a) \/ Extend(a)
                 \/ OutOfTurns(a) \/ TurnFails(a) \/ AskAgain(a) \/ Answer(a) \/ CallTools(a)
                 \/ NextTurn(a) \/ Join(a) \/ StartPlain(a) \/ StartConversation(a)
                 \/ FanOut(a) \/ ToolPanics(a) \/ Return(a)
          PROVE  Shape'
        <2>1. RegistryStep(a) \/ Take(a) \/ (\E k, pin : Submit(a, k, pin)) \/ UNCHANGED rvars
            BY <1>1 DEF PlainEnds, AskTurn, TripBreaker, Extend, OutOfTurns, TurnFails, AskAgain, Answer,
               CallTools, NextTurn, Join, StartPlain, StartConversation, FanOut, ToolPanics, Return
        <2>2. DOMAIN conv' = Caller /\ \A b \in Caller : DOMAIN conv'[b] = ConvFields
            <3> USE DEF Shape, ConvFields
            <3>1. RegistryStep(a) => UNCHANGED conv
                BY DEF RegistryStep
            <3>2. CASE PlainEnds(a) \/ AskTurn(a) \/ TripBreaker(a) \/ Extend(a) \/ OutOfTurns(a) \/ TurnFails(a)
                BY <3>2 DEF PlainEnds, AskTurn, TripBreaker, Extend, OutOfTurns, TurnFails
            <3>3. CASE AskAgain(a) \/ Answer(a) \/ CallTools(a) \/ NextTurn(a) \/ ToolPanics(a)
                BY <3>3 DEF AskAgain, Answer, CallTools, NextTurn, ToolPanics
            <3>4. CASE StartPlain(a) \/ StartConversation(a) \/ Return(a)
                BY <3>4 DEF StartPlain, StartConversation, Return, Fresh, NoCall
            <3>5. CASE FanOut(a)
                BY <3>5 DEF FanOut, Fresh
            <3>6. CASE Join(a)
                BY <3>6 DEF Join, Fresh, NoCall
            <3> QED
                BY <1>1, <3>1, <3>2, <3>3, <3>4, <3>5, <3>6
        <2> QED
            BY <2>1, <2>2, ReqShape DEF Shape
    <1>2. CASE UNCHANGED vars
        BY <1>2 DEF vars, rvars, Shape
    <1> QED
        BY Zenon, <1>1, <1>2, NextCases

-----------------------------------------------------------------------------
(* The turn budget. *)

One(b) == IF b THEN 1 ELSE 0

\* A call: its calls so far are paid for by the turns it has made, the one it is in and the
\* directive.
Bounded(c) ==
    /\ c.turn \in Nat /\ c.asked \in Nat /\ c.tripped \in BOOLEAN
    /\ c.limit = IF c.tripped /\ c.phase # "breaker" THEN MaxTurns + TurnBump ELSE MaxTurns
    /\ c.phase = "breaker" => c.tripped
    /\ c.phase \in {"loop", "breaker"} => c.turn <= c.limit /\ c.asked <= 2 * c.turn + One(c.tripped)
    /\ c.phase = "turn" => c.turn < c.limit /\ c.asked <= 2 * c.turn + 1 + One(c.tripped)
    /\ c.phase \in {"answer", "tools", "fan"} =>
         c.turn < c.limit /\ c.asked <= 2 * c.turn + 2 + One(c.tripped)
    /\ c.turn <= MaxTurns + TurnBump /\ c.asked <= 2 * (MaxTurns + TurnBump) + 1

AllBounded == \A a \in Caller : Bounded(conv[a])

LEMMA FreshIsBounded ==
    ASSUME NEW phase \in {"idle", "plain", "loop"}, NEW k, NEW parent
    PROVE  Bounded(Fresh(phase, k, parent))
    BY TurnAssumption DEF Bounded, Fresh, One

LEMMA BoundedInit == Init => AllBounded
    BY FreshIsBounded DEF Init, AllBounded, NoCall

LEMMA BoundedNext == Shape /\ AllBounded /\ [Next]_vars => AllBounded'
    <1> SUFFICES ASSUME Shape, AllBounded, [Next]_vars PROVE AllBounded'
        OBVIOUS
    <1>1. ASSUME NEW a \in Caller,
                 \/ RegistryStep(a) \/ PlainEnds(a) \/ AskTurn(a) \/ TripBreaker(a) \/ Extend(a)
                 \/ OutOfTurns(a) \/ TurnFails(a) \/ AskAgain(a) \/ Answer(a) \/ CallTools(a)
                 \/ NextTurn(a) \/ Join(a) \/ StartPlain(a) \/ StartConversation(a)
                 \/ FanOut(a) \/ ToolPanics(a) \/ Return(a)
          PROVE  AllBounded'
        <2> USE TurnAssumption DEF Shape, AllBounded, ConvFields
        <2>1. CASE RegistryStep(a)
            BY <2>1 DEF RegistryStep
        <2>2. CASE PlainEnds(a)
            BY <2>2 DEF PlainEnds, Bounded
        <2>3. CASE AskTurn(a)
            BY <2>3 DEF AskTurn, Bounded, One
        <2>4. CASE TripBreaker(a)
            BY <2>4 DEF TripBreaker, Bounded, One
        <2>5. CASE Extend(a)
            BY <2>5 DEF Extend, Bounded, One
        <2>6. CASE OutOfTurns(a)
            BY <2>6 DEF OutOfTurns, Bounded
        <2>7. CASE TurnFails(a)
            BY <2>7 DEF TurnFails, Bounded
        <2>8. CASE AskAgain(a)
            <3>1. /\ conv[a].phase = "turn" /\ conv'[a].phase = "answer" /\ conv'[a].asked = conv[a].asked + 1
                  /\ conv'[a].turn = conv[a].turn /\ conv'[a].limit = conv[a].limit
                  /\ conv'[a].tripped = conv[a].tripped
                  /\ DOMAIN conv' = Caller /\ \A b \in Caller \ {a} : conv'[b] = conv[b]
                BY <2>8 DEF AskAgain
            <3>2. Bounded(conv[a])
                OBVIOUS
            <3>3. Bounded(conv'[a])
                BY <3>1, <3>2 DEF Bounded, One
            <3> QED
                BY <3>1, <3>3
        <2>9. CASE Answer(a)
            BY <2>9 DEF Answer, Bounded
        <2>10. CASE CallTools(a)
            <3>1. /\ conv[a].phase \in {"turn", "answer"} /\ conv'[a].phase = "tools"
                  /\ conv'[a].asked = conv[a].asked /\ conv'[a].turn = conv[a].turn
                  /\ conv'[a].limit = conv[a].limit /\ conv'[a].tripped = conv[a].tripped
                  /\ DOMAIN conv' = Caller /\ \A b \in Caller \ {a} : conv'[b] = conv[b]
                BY <2>10 DEF CallTools
            <3>2. Bounded(conv[a])
                OBVIOUS
            <3>3. Bounded(conv'[a])
                BY <3>1, <3>2 DEF Bounded, One
            <3> QED
                BY <3>1, <3>3
        <2>11. CASE NextTurn(a)
            BY <2>11 DEF NextTurn, Bounded
        <2>12. CASE Join(a)
            BY <2>12, FreshIsBounded DEF Join, Bounded, NoCall
        <2>13. CASE StartPlain(a)
            BY <2>13, FreshIsBounded DEF StartPlain
        <2>14. CASE StartConversation(a)
            BY <2>14, FreshIsBounded DEF StartConversation
        <2>15. CASE FanOut(a)
            BY <2>15, FreshIsBounded DEF FanOut, Bounded
        <2>16. CASE ToolPanics(a)
            BY <2>16 DEF ToolPanics, Bounded
        <2>17. CASE Return(a)
            BY <2>17, FreshIsBounded DEF Return, NoCall
        <2> QED
            BY <1>1, <2>1, <2>2, <2>3, <2>4, <2>5, <2>6, <2>7, <2>8, <2>9, <2>10, <2>11, <2>12, <2>13,
               <2>14, <2>15, <2>16, <2>17
    <1>2. CASE UNCHANGED vars
        BY <1>2 DEF vars, AllBounded
    <1> QED
        BY Zenon, <1>1, <1>2, NextCases

\* manager.rs, run_agentic_inner: what a conversation costs is bounded by its turn budget, through
\* the circuit breaker, the second answers and the copies it starts, which have budgets of their own.
THEOREM ConversationsAreBounded == Spec => []TurnBudget
    <1>1. AllBounded => TurnBudget
        BY DEF AllBounded, Bounded, TurnBudget
    <1> QED
        BY ShapeInit, ShapeNext, BoundedInit, BoundedNext, <1>1, PTL DEF Spec

-----------------------------------------------------------------------------
(* The provider of a conversation. *)

FleetOK == fleet \in Seq(SlotType)

\* A slot the conversation may be served by next.
Good(c, s) ==
    /\ s \in Slots
    /\ c.pin # NoName => fleet[s].name = c.pin
    /\ c.pin = NoName => Eligible(s, c.kind)

\* The call a conversation has in flight.
Asked(c, r) ==
    /\ r.state \in {"routing", "calling"} => r.pin = c.pin /\ r.kind = c.kind
    /\ r.state = "calling" => r.queue \in Seq(Slots) /\ \A i \in DOMAIN r.queue : Good(c, r.queue[i])
    /\ r.state = "ok" => Good(c, r.by)

\* What has served it so far is one provider, and it is pinned to it from the first turn on.
Pinned(c) ==
    /\ c.pin = NoName <=> c.served = {}
    /\ c.served \subseteq Slots
    /\ \A s \in c.served : fleet[s].name = c.pin /\ (UniqueNames => Eligible(s, c.kind))
    /\ c.phase = "answer" => c.pin # NoName

AllPinned == FleetOK /\ \A a \in Caller :
    /\ Pinned(conv[a])
    /\ conv[a].phase \in {"turn", "answer"} => Asked(conv[a], req[a])

LEMMA PinnedImplies == AllPinned => OneProvider
    <1> SUFFICES ASSUME AllPinned, NEW a \in Caller, NEW s \in conv[a].served
                 PROVE  /\ \A t \in conv[a].served : fleet[t].name = fleet[s].name
                        /\ UniqueNames => conv[a].served = {s} /\ Eligible(s, conv[a].kind)
        BY DEF OneProvider
    <1> QED
        BY DEF AllPinned, Pinned, UniqueNames

LEMMA FleetInit == RegistryInit => FleetOK
    BY RunsAssumption DEF RegistryInit, FleetOK

\* A slot that serves the conversation is, from then on, the one it is pinned to.
LEMMA ServedStaysPinned ==
    ASSUME FleetOK, NEW c, Pinned(c), NEW s, Good(c, s)
    PROVE  /\ fleet[s].name # NoName
           /\ \A t \in c.served : fleet[t].name = fleet[s].name
           /\ UniqueNames => Eligible(s, c.kind)
    <1>1. s \in Slots /\ fleet[s].name \in Names
        <2>1. fleet[s] \in SlotType
            BY DEF FleetOK, Good, Slots
        <2> QED
            BY <2>1 DEF Good, SlotType
    <1>2. fleet[s].name # NoName
        BY <1>1 DEF Names, NoName
    <1>3. CASE c.pin = NoName
        BY <1>2, <1>3 DEF Pinned, Good
    <1>4. CASE c.pin # NoName
        BY <1>1, <1>2, <1>4 DEF Pinned, Good, UniqueNames
    <1> QED
        BY <1>3, <1>4

LEMMA FleetSame == ASSUME [Next]_vars PROVE fleet' = fleet
    <1>1. ASSUME NEW a \in Caller, RegistryStep(a) PROVE fleet' = fleet
        BY <1>1 DEF RegistryStep, Serve, Route, NoCandidate, RoutePinned, Answered, FallThrough, Retry, GiveBack
    <1> QED
        BY <1>1, NextCases DEF PlainEnds, AskTurn, TripBreaker, Extend, OutOfTurns, TurnFails, AskAgain, Answer,
           CallTools, NextTurn, Join, StartPlain, StartConversation, FanOut, ToolPanics, Return, Take, Submit,
           rvars, vars

\* A ranking of candidates is a sequence of slots that can serve the request.
LEMMA RankedAreEligible ==
    ASSUME NEW k, NEW S \in Candidates(k), NEW q \in Rankings(S), fleet \in Seq(SlotType)
    PROVE  q \in Seq(Slots) /\ \A i \in DOMAIN q : q[i] \in Slots /\ Eligible(q[i], k)
    <1>1. S \subseteq Slots /\ \A s \in S : Eligible(s, k)
        BY DEF Candidates
    <1>2. IsFiniteSet(Slots)
        BY FS_Interval DEF Slots
    <1>3. Cardinality(S) \in Nat
        BY <1>1, <1>2, FS_Subset, FS_CardinalityType
    <1>4. q \in [1..Cardinality(S) -> S]
        BY DEF Rankings
    <1> QED
        BY <1>1, <1>3, <1>4

LEMMA AskedStays ==
    ASSUME Shape, FleetOK, NEW a \in Caller, Serve(a), Asked(conv[a], req[a])
    PROVE  Asked(conv[a], req'[a])
    <1> USE DEF Shape, ReqFields, Asked, NoRequest, Failed
    <1>1. CASE Route(a)
        <2>1. PICK S \in Candidates(req[a].kind) \ {{}} :
                  \E q \in Rankings(S) : req' = [req EXCEPT ![a].state = "calling", ![a].queue = q]
            BY <1>1 DEF Route
        <2>2. PICK q \in Rankings(S) : req' = [req EXCEPT ![a].state = "calling", ![a].queue = q]
            BY <2>1
        <2> QED
            BY <1>1, <2>1, <2>2, RankedAreEligible DEF Route, Good, FleetOK
    <1>2. CASE NoCandidate(a)
        BY <1>2 DEF NoCandidate
    <1>3. CASE RoutePinned(a)
        <2>1. PICK s \in Slots : fleet[s].name = req[a].pin /\ req[a].pin # NoName
                  /\ req' = [req EXCEPT ![a].state = "calling", ![a].queue = <<s>>]
            BY <1>3 DEF RoutePinned
        <2> QED
            BY <1>3, <2>1 DEF RoutePinned, Good
    <1>4. CASE Answered(a)
        BY <1>4 DEF Answered
    <1>5. CASE FallThrough(a)
        BY <1>5 DEF FallThrough
    <1>6. CASE Retry(a)
        BY <1>6 DEF Retry
    <1>7. CASE GiveBack(a)
        BY <1>7 DEF GiveBack
    <1> QED
        BY <1>1, <1>2, <1>3, <1>4, <1>5, <1>6, <1>7 DEF Serve

\* What a step owes: a thread's conversation stays pinned and its call its own.
Kept(a) ==
    /\ Pinned(conv'[a])
    /\ conv'[a].phase \in {"turn", "answer"} => Asked(conv'[a], req'[a])

LEMMA PinnedNext == Shape /\ AllPinned /\ [Next]_vars => AllPinned'
    <1> SUFFICES ASSUME Shape, AllPinned, [Next]_vars PROVE AllPinned'
        OBVIOUS
    <1>0. FleetOK /\ \A b \in Caller : /\ Pinned(conv[b])
                                       /\ conv[b].phase \in {"turn", "answer"} => Asked(conv[b], req[b])
        BY DEF AllPinned
    <1>1. ASSUME NEW a \in Caller,
                 \/ RegistryStep(a) \/ PlainEnds(a) \/ AskTurn(a) \/ TripBreaker(a) \/ Extend(a)
                 \/ OutOfTurns(a) \/ TurnFails(a) \/ AskAgain(a) \/ Answer(a) \/ CallTools(a)
                 \/ NextTurn(a) \/ Join(a) \/ StartPlain(a) \/ StartConversation(a)
                 \/ FanOut(a) \/ ToolPanics(a) \/ Return(a)
          PROVE  \A b \in Caller : Kept(b)
        <2> USE <1>0 DEF Kept, Shape, ConvFields, ReqFields
        <2>1. CASE RegistryStep(a)
            <3>1. UNCHANGED conv /\ Serve(a)
                BY <2>1 DEF RegistryStep
            <3>2. \A b \in Caller \ {a} : req'[b] = req[b]
                BY <3>1 DEF Serve, Route, NoCandidate, RoutePinned, Answered, FallThrough, Retry, GiveBack
            <3>3. conv[a].phase \in {"turn", "answer"} => Asked(conv[a], req'[a])
                BY <3>1, AskedStays
            <3> QED
                BY <3>1, <3>2, <3>3
        <2>2. CASE PlainEnds(a)
            BY <2>2 DEF PlainEnds, Take, Pinned
        <2>3. CASE AskTurn(a)
            BY <2>3 DEF AskTurn, Submit, NoRequest, Pinned, Asked
        <2>4. CASE TripBreaker(a)
            BY <2>4 DEF TripBreaker, Submit, Pinned
        <2>5. CASE Extend(a)
            BY <2>5 DEF Extend, Take, Pinned
        <2>6. CASE OutOfTurns(a)
            BY <2>6 DEF OutOfTurns, rvars, Pinned
        <2>7. CASE TurnFails(a)
            BY <2>7 DEF TurnFails, Take, Pinned
        <2>8. CASE AskAgain(a)
            <3>1. Good(conv[a], req[a].by) /\ Pinned(conv[a])
                BY <2>8 DEF AskAgain, Asked
            <3>2. /\ fleet[req[a].by].name # NoName
                  /\ \A t \in conv[a].served : fleet[t].name = fleet[req[a].by].name
                  /\ UniqueNames => Eligible(req[a].by, conv[a].kind)
                BY <3>1, ServedStaysPinned
            <3>3. /\ conv'[a].served = conv[a].served \cup {req[a].by} /\ conv'[a].kind = conv[a].kind
                  /\ conv'[a].pin = fleet[req[a].by].name /\ conv'[a].phase = "answer"
                  /\ \A b \in Caller \ {a} : conv'[b] = conv[b] /\ req'[b] = req[b]
                  /\ req'[a].state = "routing" /\ req'[a].pin = conv'[a].pin /\ req'[a].kind = conv'[a].kind
                BY <2>8 DEF AskAgain, Submit, NoRequest
            <3> QED
                BY <3>1, <3>2, <3>3 DEF Pinned, Good, Asked
        <2>9. CASE Answer(a) \/ CallTools(a)
            <3>1. Good(conv[a], req[a].by) /\ Pinned(conv[a])
                BY <2>9 DEF Answer, CallTools, Asked
            <3>2. /\ fleet[req[a].by].name # NoName
                  /\ \A t \in conv[a].served : fleet[t].name = fleet[req[a].by].name
                  /\ UniqueNames => Eligible(req[a].by, conv[a].kind)
                BY <3>1, ServedStaysPinned
            <3>3. /\ conv'[a].served = conv[a].served \cup {req[a].by} /\ conv'[a].kind = conv[a].kind
                  /\ conv'[a].phase \in {"done", "tools"}
                  /\ \A b \in Caller \ {a} : conv'[b] = conv[b] /\ req'[b] = req[b]
                BY <2>9 DEF Answer, CallTools, Take
            <3>4. conv'[a].pin = fleet[req[a].by].name
                BY <2>9, <3>1 DEF Answer, CallTools, Pinned, Good
            <3> QED
                BY <3>1, <3>2, <3>3, <3>4 DEF Pinned, Good
        <2>10. CASE NextTurn(a)
            BY <2>10 DEF NextTurn, rvars, Pinned
        <2>11. CASE Join(a)
            BY <2>11 DEF Join, rvars, Pinned, NoCall, Fresh
        <2>12. CASE StartPlain(a)
            BY <2>12 DEF StartPlain, Submit, Pinned, Fresh
        <2>13. CASE StartConversation(a)
            BY <2>13 DEF StartConversation, rvars, Pinned, Fresh
        <2>14. CASE FanOut(a)
            BY <2>14 DEF FanOut, rvars, Pinned, Fresh
        <2>15. CASE ToolPanics(a)
            BY <2>15 DEF ToolPanics, rvars, Pinned
        <2>16. CASE Return(a)
            BY <2>16 DEF Return, rvars, Pinned, NoCall, Fresh
        <2> QED
            BY Zenon, <1>1, <2>1, <2>2, <2>3, <2>4, <2>5, <2>6, <2>7, <2>8, <2>9, <2>10, <2>11, <2>12, <2>13,
               <2>14, <2>15, <2>16
    <1>2. ASSUME UNCHANGED vars PROVE \A b \in Caller : Kept(b)
        BY <1>0, <1>2 DEF vars, rvars, Kept
    <1>3. \A b \in Caller : Kept(b)
        BY Zenon, <1>1, <1>2, <1>0, NextCases
    <1>4. fleet' = fleet
        BY FleetSame
    <1> QED
        BY <1>0, <1>3, <1>4 DEF AllPinned, Kept, FleetOK, Pinned, Asked, Good, UniqueNames, Eligible, Slots

\* registry.rs and manager.rs, complete_pinned and run_agentic_inner: a conversation stays with the
\* provider of its first turn, which its wire format is for.
THEOREM ConversationsAreFaithful == Spec => []OneProvider
    <1>1. Init => AllPinned
        BY FleetInit DEF Init, AllPinned, Pinned, NoCall, Fresh
    <1> QED
        BY ShapeInit, ShapeNext, <1>1, PinnedNext, PinnedImplies, PTL DEF Spec

-----------------------------------------------------------------------------
(* The explorations that pass a slot over. *)

\* The slot that an unpinned request asks next: when that call ends, however it ends, the slot
\* has been used.
AsksNext(c, t) ==
    /\ req[c].state = "calling" /\ req[c].pin = NoName
    /\ req[c].queue # << >> /\ Head(req[c].queue) = t

\* What the explorations that passed s over are charged to: a thread and the slot it preferred.  While
\* s is not used that pair is not charged again: the thread is busy with the slot, and then the slot
\* has been used since s was.
Charged(s) == {p \in Caller \X (Slots \ {s}) : StalerThan(s, p[2]) \/ AsksNext(p[1], p[2])}

PassedIsCharged ==
    /\ passed \in [Slots -> Nat]
    /\ \A s \in Slots : passed[s] <= Cardinality(Charged(s))

\* Only a thread in one of these phases has a request.
Quiet == \A a \in Caller :
    conv[a].phase \notin {"plain", "turn", "answer", "breaker"} => req[a].state = "idle"

LEMMA FewPairs ==
    ASSUME NEW n \in Nat, NEW s \in 1..n, NEW P \in SUBSET (Caller \X ((1..n) \ {s}))
    PROVE  IsFiniteSet(P) /\ Cardinality(P) \in Nat /\ Cardinality(P) <= (n - 1) * Cardinality(Caller)
    <1> DEFINE others == (1..n) \ {s}
    <1>1. IsFiniteSet(1..n) /\ Cardinality(1..n) = n
        BY FS_Interval
    <1>2. IsFiniteSet(others) /\ Cardinality(others) = n - 1
        BY <1>1, FS_RemoveElement
    <1>3. IsFiniteSet(Caller \X others) /\ Cardinality(Caller \X others) = Cardinality(Caller) * (n - 1)
        BY <1>2, FS_Product, CallerAssumption
    <1>4. IsFiniteSet(P) /\ Cardinality(P) \in Nat /\ Cardinality(P) <= Cardinality(Caller \X others)
        BY <1>3, FS_Subset, FS_CardinalityType
    <1>5. Cardinality(Caller) \in Nat
        BY CallerAssumption, FS_CardinalityType
    <1> QED
        BY <1>3, <1>4, <1>5

LEMMA PassedIsFew == FleetOK /\ PassedIsCharged => NoSlotForgotten
    <1> SUFFICES ASSUME FleetOK, PassedIsCharged, NEW s \in Slots
                 PROVE  passed[s] <= (Len(fleet) - 1) * Cardinality(Caller)
        BY DEF NoSlotForgotten
    <1>1. Len(fleet) \in Nat /\ Slots = 1..Len(fleet) /\ Cardinality(Caller) \in Nat
        BY CallerAssumption, FS_CardinalityType DEF FleetOK, Slots
    <1>2. Charged(s) \in SUBSET (Caller \X (Slots \ {s}))
        BY DEF Charged
    <1>3. Cardinality(Charged(s)) \in Nat /\ Cardinality(Charged(s)) <= (Len(fleet) - 1) * Cardinality(Caller)
        BY <1>1, <1>2, FewPairs
    <1>4. passed[s] \in Nat /\ passed[s] <= Cardinality(Charged(s))
        BY DEF PassedIsCharged
    <1> DEFINE bound == (Len(fleet) - 1) * Cardinality(Caller)
    <1>5. bound \in Int
        BY <1>1
    <1> HIDE DEF bound
    <1>6. Cardinality(Charged(s)) <= bound
        BY <1>3 DEF bound
    <1>7. passed[s] <= bound
        BY <1>3, <1>4, <1>5, <1>6
    <1> QED
        BY <1>7 DEF bound

\* What a step owes a slot: a use of it, or no exploration without a charge of its own.
Pays(s) ==
    \/ passed'[s] = 0
    \/ passed'[s] = passed[s] /\ Charged(s) \subseteq Charged(s)'
    \/ /\ passed'[s] = passed[s] + 1 /\ Charged(s) \subseteq Charged(s)'
       /\ \E p \in Charged(s)' : p \notin Charged(s)

LEMMA PaidIsCharged ==
    ASSUME FleetOK, fleet' = fleet, PassedIsCharged, passed' = [s \in Slots |-> passed'[s]],
           \A s \in Slots : Pays(s)
    PROVE  PassedIsCharged'
    <1>1. Len(fleet) \in Nat /\ Slots = 1..Len(fleet) /\ Slots' = Slots
        BY DEF FleetOK, Slots
    <1>2. ASSUME NEW s \in Slots
          PROVE  passed'[s] \in Nat /\ passed'[s] <= Cardinality(Charged(s)')
        <2>1. PICK C : C = Charged(s)
            OBVIOUS
        <2>2. PICK D : D = Charged(s)'
            OBVIOUS
        <2>3. C \in SUBSET (Caller \X (Slots \ {s})) /\ D \in SUBSET (Caller \X (Slots \ {s}))
            BY <1>1, <2>1, <2>2 DEF Charged
        <2>4. IsFiniteSet(C) /\ Cardinality(C) \in Nat /\ IsFiniteSet(D) /\ Cardinality(D) \in Nat
            BY <1>1, <2>3, FewPairs
        <2>5. passed[s] \in Nat /\ passed[s] <= Cardinality(C)
            BY <2>1 DEF PassedIsCharged
        <2>6. CASE passed'[s] = 0
            BY <2>2, <2>4, <2>6
        <2>7. CASE passed'[s] = passed[s] /\ C \subseteq D
            <3>1. Cardinality(C) <= Cardinality(D)
                BY <2>4, <2>7, FS_Subset
            <3> QED
                BY <2>2, <2>4, <2>5, <2>7, <3>1
        <2>8. ASSUME passed'[s] = passed[s] + 1, C \subseteq D, NEW p \in D, p \notin C
              PROVE  passed'[s] \in Nat /\ passed'[s] <= Cardinality(D)
            <3>1. IsFiniteSet(C \cup {p}) /\ Cardinality(C \cup {p}) = Cardinality(C) + 1
                BY <2>4, <2>8, FS_AddElement
            <3>2. Cardinality(C \cup {p}) <= Cardinality(D)
                BY <2>4, <2>8, FS_Subset
            <3> QED
                BY <2>4, <2>5, <2>8, <3>1, <3>2
        <2> QED
            BY <2>1, <2>2, <2>6, <2>7, <2>8 DEF Pays
    <1>3. passed' \in [Slots -> Nat]
        BY <1>2
    <1> QED
        BY <1>1, <1>2, <1>3 DEF PassedIsCharged

\* The end of an unpinned request's call is a use of the slot that was asked.
LEMMA UsePays ==
    ASSUME PassedIsCharged, fleet' = fleet, NEW a \in Caller, NEW t, Touch(t),
           \A u : AsksNext(a, u) => u = t, \A b \in Caller \ {a} : req'[b] = req[b]
    PROVE  \A s \in Slots : Pays(s)
    <1> SUFFICES ASSUME NEW s \in Slots PROVE Pays(s)
        OBVIOUS
    <1>1. CASE s = t
        BY <1>1 DEF Touch, PassedIsCharged, Pays
    <1>2. CASE s # t
        <2>1. passed'[s] = passed[s]
            BY <1>2 DEF Touch, PassedIsCharged
        <2>2. ASSUME NEW p \in Charged(s) PROVE p \in Charged(s)'
            <3>1. p \in Caller \X (Slots \ {s}) /\ p = <<p[1], p[2]>> /\ Slots' = Slots
                BY DEF Charged, Slots
            <3>2. CASE StalerThan(s, p[2])
                <4>1. StalerThan(s, p[2])'
                    BY <1>2, <3>2 DEF StalerThan, Touch
                <4> QED
                    BY <3>1, <4>1 DEF Charged
            <3>3. CASE AsksNext(p[1], p[2]) /\ p[1] = a
                <4>1. StalerThan(s, p[2])'
                    BY <1>2, <3>3 DEF StalerThan, Touch
                <4> QED
                    BY <3>1, <4>1 DEF Charged
            <3>4. CASE AsksNext(p[1], p[2]) /\ p[1] # a
                <4>1. AsksNext(p[1], p[2])'
                    BY <3>1, <3>4 DEF AsksNext
                <4> QED
                    BY <3>1, <4>1 DEF Charged
            <3> QED
                BY <3>2, <3>3, <3>4 DEF Charged
        <2> QED
            BY <2>1, <2>2 DEF Pays
    <1> QED
        BY <1>1, <1>2

\* Nothing is used and nothing explores.
LEMMA StillPays ==
    ASSUME UNCHANGED <<fleet, older, passed>>, NEW a \in Caller, \A u : ~AsksNext(a, u),
           \A b \in Caller \ {a} : req'[b] = req[b]
    PROVE  \A s \in Slots : Pays(s)
    <1> SUFFICES ASSUME NEW s \in Slots, NEW p \in Charged(s) PROVE p \in Charged(s)'
        BY DEF Pays
    <1>1. p \in Caller \X (Slots \ {s}) /\ Slots' = Slots
        BY DEF Charged, Slots
    <1>2. StalerThan(s, p[2]) => StalerThan(s, p[2])'
        BY DEF StalerThan
    <1>3. AsksNext(p[1], p[2]) => AsksNext(p[1], p[2])'
        BY <1>1 DEF AsksNext
    <1> QED
        BY <1>1, <1>2, <1>3 DEF Charged

\* An exploration passes over the slots that are no staler than the one it prefers, which the thread
\* asks from here on.
LEMMA RoutePays ==
    ASSUME Shape, FleetOK, PassedIsCharged, NEW a \in Caller, Route(a)
    PROVE  \A s \in Slots : Pays(s)
    <1> DEFINE k == req[a].kind
               exploring == Explores(k) /\ tick = ExploreEvery - 1
    <1>1. PICK S \in Candidates(k) \ {{}} : \E q \in Rankings(S) :
             /\ exploring => q[1] \in Stalest(S)
             /\ req' = [req EXCEPT ![a].state = "calling", ![a].queue = q]
             /\ passed' = [s \in Slots |->
                             IF exploring /\ s \in S \ {q[1]} THEN passed[s] + 1 ELSE passed[s]]
        BY DEF Route
    <1>2. PICK q \in Rankings(S) :
             /\ exploring => q[1] \in Stalest(S)
             /\ req' = [req EXCEPT ![a].state = "calling", ![a].queue = q]
             /\ passed' = [s \in Slots |->
                             IF exploring /\ s \in S \ {q[1]} THEN passed[s] + 1 ELSE passed[s]]
        BY <1>1
    <1>3. /\ req[a].state = "routing" /\ req[a].pin = NoName /\ UNCHANGED <<fleet, older>>
          /\ Slots' = Slots
        BY DEF Route, Slots
    <1>4. S \subseteq Slots /\ q \in Seq(Slots) /\ q # << >> /\ Head(q) = q[1]
        <2>1. S \subseteq Slots /\ S # {} /\ q \in [1..Cardinality(S) -> S]
            BY DEF Candidates, Rankings
        <2>2. IsFiniteSet(S) /\ Cardinality(S) \in Nat /\ Cardinality(S) # 0
            <3>1. Len(fleet) \in Nat
                BY DEF FleetOK
            <3>2. IsFiniteSet(Slots)
                BY <3>1, FS_Interval DEF Slots
            <3>3. IsFiniteSet(S)
                BY <2>1, <3>2, FS_Subset
            <3> QED
                BY <2>1, <3>3, FS_CardinalityType, FS_EmptySet
        <2> QED
            BY <2>1, <2>2
    <1>5. /\ req'[a].state = "calling" /\ req'[a].pin = NoName /\ req'[a].queue = q
          /\ \A b \in Caller \ {a} : req'[b] = req[b]
        BY <1>2, <1>3 DEF Shape, ReqFields
    <1> SUFFICES ASSUME NEW s \in Slots PROVE Pays(s)
        OBVIOUS
    <1>6. Charged(s) \subseteq Charged(s)'
        <2> SUFFICES ASSUME NEW p \in Charged(s) PROVE p \in Charged(s)'
            OBVIOUS
        <2>1. p \in Caller \X (Slots \ {s})
            BY DEF Charged
        <2>2. StalerThan(s, p[2]) => StalerThan(s, p[2])'
            BY <1>3 DEF StalerThan
        <2>3. AsksNext(p[1], p[2]) => AsksNext(p[1], p[2])'
            BY <1>3, <1>5, <2>1 DEF AsksNext
        <2> QED
            BY <1>3, <2>1, <2>2, <2>3 DEF Charged
    <1>7. CASE exploring /\ s \in S \ {q[1]}
        <2>1. q[1] \in S /\ q[1] \in Slots \ {s} /\ ~StalerThan(s, q[1])
            BY <1>2, <1>4, <1>7 DEF Stalest
        <2>2. PICK p : p = <<a, q[1]>>
            OBVIOUS
        <2>3. p \in Caller \X (Slots \ {s}) /\ p[1] = a /\ p[2] = q[1]
            BY <2>1, <2>2
        <2>4. p \notin Charged(s)
            BY <1>3, <2>1, <2>3 DEF Charged, AsksNext
        <2>5. AsksNext(p[1], p[2])'
            BY <1>4, <1>5, <2>3 DEF AsksNext
        <2>6. p \in Charged(s)'
            BY <1>3, <2>3, <2>5 DEF Charged
        <2>7. passed'[s] = passed[s] + 1
            BY <1>2, <1>7
        <2> QED
            BY <1>6, <2>4, <2>6, <2>7 DEF Pays
    <1>8. CASE ~(exploring /\ s \in S \ {q[1]})
        BY <1>2, <1>6, <1>8 DEF Pays
    <1> QED
        BY <1>7, <1>8

LEMMA ServePays ==
    ASSUME Shape, FleetOK, PassedIsCharged, NEW a \in Caller, Serve(a)
    PROVE  \A s \in Slots : Pays(s)
    <1>0. \A u : AsksNext(a, u) => u = Head(req[a].queue)
        BY DEF AsksNext
    <1>1. fleet' = fleet /\ \A b \in Caller \ {a} : req'[b] = req[b]
        BY DEF Shape, Serve, Route, NoCandidate, RoutePinned, Answered, FallThrough, Retry, GiveBack
    <1>2. CASE Route(a)
        BY <1>2, RoutePays
    <1>3. CASE NoCandidate(a)
        BY <1>1, <1>3, StillPays DEF NoCandidate, AsksNext
    <1>4. CASE RoutePinned(a)
        BY <1>1, <1>4, StillPays DEF RoutePinned, AsksNext
    <1>5. CASE Touch(Head(req[a].queue))
        BY <1>0, <1>1, <1>5, UsePays
    <1>6. CASE req[a].pin # NoName /\ NotTouched
        BY <1>1, <1>6, StillPays DEF AsksNext, NotTouched
    <1> QED
        BY <1>2, <1>3, <1>4, <1>5, <1>6 DEF Serve, Answered, FallThrough, Retry, GiveBack

LEMMA QuietNext == Shape /\ Quiet /\ [Next]_vars => Quiet'
    <1> SUFFICES ASSUME Shape, Quiet, [Next]_vars PROVE Quiet'
        OBVIOUS
    <1>1. ASSUME NEW a \in Caller,
                 \/ RegistryStep(a) \/ PlainEnds(a) \/ AskTurn(a) \/ TripBreaker(a) \/ Extend(a)
                 \/ OutOfTurns(a) \/ TurnFails(a) \/ AskAgain(a) \/ Answer(a) \/ CallTools(a)
                 \/ NextTurn(a) \/ Join(a) \/ StartPlain(a) \/ StartConversation(a)
                 \/ FanOut(a) \/ ToolPanics(a) \/ Return(a)
          PROVE  Quiet'
        <2> USE DEF Shape, Quiet, ConvFields, ReqFields
        <2>1. CASE RegistryStep(a)
            <3>1. req[a].state \in {"routing", "calling"} /\ \A b \in Caller \ {a} : req'[b] = req[b]
                BY <2>1 DEF RegistryStep, Serve, Route, NoCandidate, RoutePinned, Answered, FallThrough,
                   Retry, GiveBack
            <3> QED
                BY <2>1, <3>1 DEF RegistryStep
        <2>2. CASE PlainEnds(a) \/ Extend(a) \/ TurnFails(a) \/ Answer(a) \/ CallTools(a)
            <3>1. req'[a].state = "idle" /\ \A b \in Caller \ {a} : req'[b] = req[b] /\ conv'[b] = conv[b]
                BY <2>2 DEF PlainEnds, Extend, TurnFails, Answer, CallTools, Take, NoRequest
            <3> QED
                BY <3>1
        <2>3. CASE StartPlain(a) \/ AskTurn(a) \/ TripBreaker(a) \/ AskAgain(a)
            <3>1. CASE StartPlain(a)
                BY <3>1 DEF StartPlain, Submit, Fresh
            <3>2. CASE AskTurn(a)
                BY <3>2 DEF AskTurn, Submit
            <3>3. CASE TripBreaker(a)
                BY <3>3 DEF TripBreaker, Submit
            <3>4. CASE AskAgain(a)
                BY <3>4 DEF AskAgain, Submit
            <3> QED
                BY <2>3, <3>1, <3>2, <3>3, <3>4
        <2>4. CASE OutOfTurns(a) \/ NextTurn(a) \/ StartConversation(a) \/ ToolPanics(a) \/ Return(a)
            BY <2>4 DEF OutOfTurns, NextTurn, StartConversation, ToolPanics, Return, Fresh, NoCall, Idle,
               Ended, rvars
        <2>5. CASE FanOut(a)
            BY <2>5 DEF FanOut, Idle, Fresh, rvars
        <2>6. CASE Join(a)
            BY <2>6 DEF Join, Children, Ended, NoCall, Fresh, rvars
        <2> QED
            BY Zenon, <1>1, <2>1, <2>2, <2>3, <2>4, <2>5, <2>6
    <1>2. CASE UNCHANGED vars
        BY <1>2 DEF vars, rvars, Quiet
    <1> QED
        BY Zenon, <1>1, <1>2, NextCases

LEMMA PassedNext == Shape /\ FleetOK /\ Quiet /\ PassedIsCharged /\ [Next]_vars => PassedIsCharged'
    <1> SUFFICES ASSUME Shape, FleetOK, Quiet, PassedIsCharged, [Next]_vars PROVE PassedIsCharged'
        OBVIOUS
    <1>1. ASSUME NEW a \in Caller,
                 \/ RegistryStep(a) \/ PlainEnds(a) \/ AskTurn(a) \/ TripBreaker(a) \/ Extend(a)
                 \/ OutOfTurns(a) \/ TurnFails(a) \/ AskAgain(a) \/ Answer(a) \/ CallTools(a)
                 \/ NextTurn(a) \/ Join(a) \/ StartPlain(a) \/ StartConversation(a)
                 \/ FanOut(a) \/ ToolPanics(a) \/ Return(a)
          PROVE  PassedIsCharged'
        <2>1. CASE RegistryStep(a)
            <3>1. Serve(a) /\ fleet' = fleet
                BY <2>1, FleetSame DEF RegistryStep
            <3>2. passed' = [s \in Slots |-> passed'[s]]
                BY <3>1 DEF Serve, Route, NoCandidate, RoutePinned, Answered, FallThrough, Retry, GiveBack,
                   Touch, NotTouched, PassedIsCharged
            <3> QED
                BY <3>1, <3>2, ServePays, PaidIsCharged
        <2>2. CASE \/ PlainEnds(a) \/ AskTurn(a) \/ TripBreaker(a) \/ Extend(a) \/ TurnFails(a)
                   \/ AskAgain(a) \/ Answer(a) \/ CallTools(a) \/ StartPlain(a)
            <3>0. Take(a) \/ \E k, pin : Submit(a, k, pin)
                BY <2>2 DEF PlainEnds, AskTurn, TripBreaker, Extend, TurnFails, AskAgain, Answer, CallTools,
                   StartPlain
            <3>1. UNCHANGED <<fleet, older, passed>> /\ \A b \in Caller \ {a} : req'[b] = req[b]
                BY <3>0 DEF Take, Submit, Shape
            <3>2. req[a].state # "calling"
                <4>1. \/ req[a].state \in {"ok", "failed"}
                      \/ conv[a].phase \notin {"plain", "turn", "answer", "breaker"}
                    BY <2>2 DEF PlainEnds, AskTurn, TripBreaker, Extend, TurnFails, AskAgain, Answer,
                       CallTools, StartPlain, Idle
                <4> QED
                    BY <4>1 DEF Quiet
            <3>3. passed' = [s \in Slots |-> passed'[s]]
                BY <3>1 DEF PassedIsCharged
            <3> QED
                BY <3>1, <3>2, <3>3, StillPays, PaidIsCharged DEF AsksNext
        <2>3. CASE \/ OutOfTurns(a) \/ NextTurn(a) \/ Join(a) \/ StartConversation(a) \/ FanOut(a)
                   \/ ToolPanics(a) \/ Return(a)
            <3>1. UNCHANGED rvars
                BY <2>3 DEF OutOfTurns, NextTurn, Join, StartConversation, FanOut, ToolPanics, Return
            <3> QED
                BY <3>1 DEF rvars, PassedIsCharged, Charged, StalerThan, AsksNext, Slots
        <2> QED
            BY Zenon, <1>1, <2>1, <2>2, <2>3
    <1>2. CASE UNCHANGED vars
        BY <1>2 DEF vars, rvars, PassedIsCharged, Charged, StalerThan, AsksNext, Slots
    <1> QED
        BY Zenon, <1>1, <1>2, NextCases

\* registry.rs, try_complete: however the scores rank it, the exploring rounds do not forget a slot.
\* An exploration that passes s over prefers a slot that is no fresher and asks it at once, so each
\* thread can do that once for each other slot before s is used again or is the stalest.
THEOREM NoSlotIsForgotten == Spec => []NoSlotForgotten
    <1>1. Init => FleetOK
        BY FleetInit DEF Init
    <1>2. Init => Quiet
        BY DEF Init, RegistryInit, Quiet, NoRequest
    <1>3. Init => PassedIsCharged
        <2> SUFFICES ASSUME Init PROVE PassedIsCharged
            OBVIOUS
        <2>1. Len(fleet) \in Nat /\ Slots = 1..Len(fleet) /\ passed = [s \in Slots |-> 0]
            BY <1>1 DEF FleetOK, Slots, Init, RegistryInit
        <2>2. ASSUME NEW s \in Slots PROVE 0 <= Cardinality(Charged(s))
            <3>1. Charged(s) \in SUBSET (Caller \X (Slots \ {s}))
                BY DEF Charged
            <3>2. Cardinality(Charged(s)) \in Nat
                BY <2>1, <3>1, FewPairs
            <3> QED
                BY <3>2
        <2> QED
            BY <2>1, <2>2 DEF PassedIsCharged
    <1>4. FleetOK /\ [Next]_vars => FleetOK'
        BY FleetSame DEF FleetOK
    <1> QED
        BY ShapeInit, ShapeNext, <1>1, <1>2, <1>3, <1>4, QuietNext, PassedNext, PassedIsFew, PTL DEF Spec

-----------------------------------------------------------------------------
(* Types, and the retries of a request. *)

\* No budget has been overdrawn.
Within == {f \in [Budgets -> Nat] : \A b \in Budgets : f[b] <= MaxRetries[b]}

Queues == Seq(Slots)
States == {"idle", "routing", "calling", "ok", "failed"}
Pins == Names \cup {NoName}

\* A request of a known kind, with as many retries as its budgets pay for, and slots of the fleet in
\* its queue.
RequestOK(r) ==
    /\ r \in [state : States, kind : KindType, pin : Pins, queue : Queues, by : Nat, retries : Within]
    /\ r.state = "calling" => r.queue # << >>
    /\ r.state = "ok" => r.by \in Slots

RequestsOK == req = [c \in Caller |-> req[c]] /\ \A c \in Caller : RequestOK(req[c])

LEMMA RetriesAre == \A b \in Budgets : MaxRetries[b] \in Nat
    BY BudgetAssumption DEF Budgets, MaxRetries

LEMMA NothingAsked ==
    NoKind \in KindType /\ NoRetries \in Within /\ NoName \in Pins /\ << >> \in Queues
    <1>1. NoKind \in KindType
        BY DEF NoKind, KindType, Tiers, Micro, Heavy
    <1>2. NoRetries \in [Budgets -> Nat] /\ \A b \in Budgets : NoRetries[b] = 0
        BY DEF NoRetries
    <1>3. \A b \in Budgets : 0 <= MaxRetries[b]
        BY RetriesAre
    <1>4. << >> \in Queues
        BY DEF Queues
    <1> QED
        BY <1>1, <1>2, <1>3, <1>4 DEF Within, Pins

LEMMA NoRequestOK == RequestOK(NoRequest) /\ RequestOK(Failed)
    BY NothingAsked DEF RequestOK, NoRequest, Failed, States

LEMMA SubmittedOK ==
    ASSUME NEW k \in KindType, NEW pin \in Pins
    PROVE  RequestOK([NoRequest EXCEPT !.state = "routing", !.kind = k, !.pin = pin])
    BY NothingAsked DEF RequestOK, NoRequest, States

LEMMA CalledOK ==
    ASSUME NEW r, RequestOK(r), NEW q \in Queues, q # << >>
    PROVE  RequestOK([r EXCEPT !.state = "calling", !.queue = q])
    BY DEF RequestOK, States

LEMMA NextInQueueOK ==
    ASSUME NEW r, RequestOK(r), Len(r.queue) > 1
    PROVE  RequestOK([r EXCEPT !.queue = Tail(@)])
    <1>1. r.queue \in Seq(Slots)
        BY DEF RequestOK, Queues
    <1>2. Tail(r.queue) \in Seq(Slots) /\ Len(Tail(r.queue)) = Len(r.queue) - 1
        BY <1>1
    <1>3. Tail(r.queue) # << >>
        <2>1. Len(r.queue) \in Nat /\ Len(r.queue) > 1
            BY <1>1
        <2>2. 1 \in 1..Len(Tail(r.queue))
            BY <1>2, <2>1
        <2> QED
            BY <1>2, <2>2
    <1>4. Tail(r.queue) \in Queues
        BY <1>2 DEF Queues
    <1> QED
        BY <1>3, <1>4 DEF RequestOK, States

LEMMA AnsweredOK ==
    ASSUME NEW s \in Slots
    PROVE  RequestOK([NoRequest EXCEPT !.state = "ok", !.by = s])
    <1>1. s \in Nat
        BY DEF Slots
    <1> QED
        BY <1>1, NothingAsked DEF RequestOK, NoRequest, States

LEMMA RetriedOK ==
    ASSUME NEW r, RequestOK(r), NEW b \in Budgets, r.retries[b] < MaxRetries[b]
    PROVE  RequestOK([r EXCEPT !.state = "routing", !.queue = << >>, !.retries[b] = @ + 1])
    <1>1. PICK more : more = [r.retries EXCEPT ![b] = @ + 1]
        OBVIOUS
    <1>2. r.retries \in [Budgets -> Nat] /\ \A c \in Budgets : r.retries[c] <= MaxRetries[c]
        BY DEF RequestOK, Within
    <1>3. more \in Within
        BY <1>1, <1>2, RetriesAre DEF Within
    <1> QED
        BY <1>1, <1>3, NothingAsked DEF RequestOK, States


\* Every step that serves a request leaves it one.
LEMMA ServedOK ==
    ASSUME FleetOK, NEW a \in Caller, RequestsOK, Serve(a)
    PROVE  RequestsOK'
    <1> DEFINE r == req[a]
    <1>0. RequestOK(r) /\ Slots' = Slots
        BY DEF RequestsOK, Serve, Route, NoCandidate, RoutePinned, Answered, FallThrough, Retry, GiveBack, Slots
    <1>1. PICK now : RequestOK(now) /\ req' = [req EXCEPT ![a] = now]
        <2>1. CASE Route(a)
            <3>1. PICK S \in Candidates(r.kind) \ {{}} :
                      \E q \in Rankings(S) : req' = [req EXCEPT ![a].state = "calling", ![a].queue = q]
                BY <2>1 DEF Route
            <3>2. PICK q \in Rankings(S) : req' = [req EXCEPT ![a].state = "calling", ![a].queue = q]
                BY <3>1
            <3>3. q \in Queues /\ q # << >>
                <4>1. q \in Seq(Slots)
                    BY <3>1, <3>2, RankedAreEligible DEF FleetOK
                <4>2. S \subseteq Slots /\ S # {}
                    BY <3>1 DEF Candidates
                <4>3. IsFiniteSet(S)
                    <5>1. IsFiniteSet(Slots)
                        BY FS_Interval DEF Slots, FleetOK
                    <5> QED
                        BY <4>2, <5>1, FS_Subset
                <4>4. Cardinality(S) \in Nat /\ Cardinality(S) # 0
                    BY <4>2, <4>3, FS_CardinalityType, FS_EmptySet
                <4>5. 1 \in DOMAIN q
                    BY <3>2, <4>4 DEF Rankings
                <4> QED
                    BY <4>1, <4>5 DEF Queues
            <3>4. req' = [req EXCEPT ![a] = [r EXCEPT !.state = "calling", !.queue = q]]
                BY <3>2
            <3> QED
                BY <1>0, <3>3, <3>4, CalledOK
        <2>2. CASE NoCandidate(a)
            BY <2>2, NoRequestOK DEF NoCandidate
        <2>3. CASE RoutePinned(a)
            <3>1. PICK s \in Slots : req' = [req EXCEPT ![a].state = "calling", ![a].queue = <<s>>]
                BY <2>3 DEF RoutePinned
            <3>2. <<s>> \in Queues /\ <<s>> # << >>
                BY DEF Queues
            <3>3. req' = [req EXCEPT ![a] = [r EXCEPT !.state = "calling", !.queue = <<s>>]]
                BY <3>1
            <3> QED
                BY <1>0, <3>2, <3>3, CalledOK
        <2>4. CASE Answered(a)
            <3>1. r.queue \in Seq(Slots) /\ r.queue # << >>
                BY <1>0, <2>4 DEF RequestOK, Queues, Answered
            <3>2. Head(r.queue) \in Slots
                BY <3>1
            <3> QED
                BY <2>4, <3>2, AnsweredOK DEF Answered
        <2>5. CASE FallThrough(a)
            <3>1. req' = [req EXCEPT ![a] = [r EXCEPT !.queue = Tail(@)]] /\ Len(r.queue) > 1
                BY <2>5 DEF FallThrough
            <3> QED
                BY <1>0, <3>1, NextInQueueOK
        <2>6. CASE Retry(a)
            <3>1. PICK e \in LastErrors(a) : \E i \in DOMAIN Budget[e] :
                      /\ ~Spent(a, Budget[e][i])
                      /\ req' = [req EXCEPT ![a].state = "routing", ![a].queue = << >>,
                                            ![a].retries[Budget[e][i]] = @ + 1]
                BY <2>6 DEF Retry
            <3>2. PICK i \in DOMAIN Budget[e] :
                      /\ ~Spent(a, Budget[e][i])
                      /\ req' = [req EXCEPT ![a].state = "routing", ![a].queue = << >>,
                                            ![a].retries[Budget[e][i]] = @ + 1]
                BY <3>1
            <3>3. e \in {"rate_limit", "loading", "server_error", "fatal"}
                BY DEF LastErrors, ErrorsOf, Class
            <3>4. Budget[e][i] \in Budgets
                BY <3>2, <3>3 DEF Budget, Budgets
            <3>5. r.retries[Budget[e][i]] \in Nat
                BY <1>0, <3>4 DEF RequestOK, Within
            <3>6. r.retries[Budget[e][i]] < MaxRetries[Budget[e][i]]
                BY <3>2, <3>4, <3>5, RetriesAre DEF Spent
            <3>7. req' = [req EXCEPT ![a] = [r EXCEPT !.state = "routing", !.queue = << >>,
                                                      !.retries[Budget[e][i]] = @ + 1]]
                BY <3>2
            <3> QED
                BY <1>0, <3>4, <3>6, <3>7, RetriedOK
        <2>7. CASE GiveBack(a)
            BY <2>7, NoRequestOK DEF GiveBack
        <2> QED
            BY <2>1, <2>2, <2>3, <2>4, <2>5, <2>6, <2>7 DEF Serve
    <1>2. \A x : RequestOK(x) <=> RequestOK(x)'
        BY <1>0 DEF RequestOK, Queues
    <1> QED
        BY <1>1, <1>2 DEF RequestsOK

\* The order in which slots were last used is one: no slot was used before itself, or before one
\* that was used before it.
Ordered ==
    /\ older \subseteq Slots \X Slots
    /\ \A s, t \in Slots : StalerThan(s, t) => ~StalerThan(t, s)
    /\ \A s, t, u \in Slots : StalerThan(s, t) /\ StalerThan(t, u) => StalerThan(s, u)

RegistryOK == FleetOK /\ kinds \subseteq KindType /\ tick \in 0..(ExploreEvery - 1) /\ passed \in [Slots -> Nat]

LEMMA TouchedOK ==
    ASSUME Ordered, RegistryOK, Slots' = Slots, NEW s \in Slots, Touch(s)
    PROVE  Ordered' /\ passed' \in [Slots' -> Nat]
    <1>1. older' \subseteq Slots \X Slots
        BY DEF Ordered, Touch
    <1>2. \A t, u \in Slots : StalerThan(t, u)' <=> IF u = s THEN t # s ELSE t # s /\ StalerThan(t, u)
        BY DEF Ordered, Touch, StalerThan
    <1>3. passed' \in [Slots -> Nat]
        BY DEF Touch, RegistryOK
    <1> QED
        BY <1>1, <1>2, <1>3 DEF Ordered

\* What a step of the registry does beside the request it serves.
LEMMA ServedInOrder ==
    ASSUME Ordered, RegistryOK, RequestsOK, NEW a \in Caller, Serve(a)
    PROVE  Ordered' /\ RegistryOK'
    <1>0. Slots' = Slots /\ UNCHANGED <<fleet, kinds>>
        BY DEF Serve, Route, NoCandidate, RoutePinned, Answered, FallThrough, Retry, GiveBack, Slots
    <1>1. CASE Route(a)
        <2>1. UNCHANGED older /\ tick' \in {tick, (tick + 1) % ExploreEvery}
            BY <1>1 DEF Route
        <2>2. tick' \in 0..(ExploreEvery - 1)
            BY <2>1, BudgetAssumption DEF RegistryOK
        <2>3. PICK S : \E q \in Rankings(S) :
                  passed' = [s \in Slots |-> IF Explores(req[a].kind) /\ tick = ExploreEvery - 1 /\ s \in S \ {q[1]}
                                             THEN passed[s] + 1 ELSE passed[s]]
            BY <1>1 DEF Route
        <2>4. passed' \in [Slots -> Nat]
            BY <2>3 DEF RegistryOK
        <2>5. Ordered'
            BY <1>0, <2>1 DEF Ordered, StalerThan
        <2> QED
            BY <1>0, <2>2, <2>4, <2>5 DEF RegistryOK, FleetOK
    <1>2. CASE UNCHANGED <<older, tick, passed>>
        BY <1>0, <1>2 DEF Ordered, StalerThan, RegistryOK, FleetOK
    <1>3. CASE Touch(Head(req[a].queue)) /\ req[a].state = "calling" /\ UNCHANGED tick
        <2>1. req[a].queue \in Seq(Slots) /\ req[a].queue # << >>
            BY <1>3 DEF RequestsOK, RequestOK, Queues
        <2>2. Head(req[a].queue) \in Slots
            BY <2>1
        <2>3. Ordered' /\ passed' \in [Slots' -> Nat]
            BY <1>0, <1>3, <2>2, TouchedOK
        <2> QED
            BY <1>0, <1>3, <2>3 DEF RegistryOK, FleetOK
    <1> QED
        BY <1>1, <1>2, <1>3
        DEF Serve, NoCandidate, RoutePinned, Answered, FallThrough, Retry, GiveBack, NotTouched

ConvsOK == conv \in [Caller -> ConvType]

Threads == Caller \cup {NoParent}

LEMMA FreshOK ==
    ASSUME NEW phase \in Phases, NEW k \in KindType, NEW parent \in Threads
    PROVE  Fresh(phase, k, parent) \in ConvType
    BY TurnAssumption DEF Fresh, ConvType, NoName, Threads

LEMMA NoCallOK == NoCall \in ConvType
    BY NothingAsked, FreshOK DEF NoCall, Phases, Threads

LEMMA UpdatedOK ==
    ASSUME NEW c \in ConvType, NEW phase \in Phases
    PROVE  /\ [c EXCEPT !.phase = phase] \in ConvType
           /\ [c EXCEPT !.phase = phase, !.asked = @ + 1] \in ConvType
           /\ [c EXCEPT !.phase = phase, !.tripped = TRUE, !.asked = @ + 1] \in ConvType
           /\ [c EXCEPT !.phase = phase, !.limit = @ + TurnBump] \in ConvType
           /\ [c EXCEPT !.phase = phase, !.turn = @ + 1] \in ConvType
    <1>1. c.asked + 1 \in Nat /\ c.limit + TurnBump \in Nat /\ c.turn + 1 \in Nat
        BY TurnAssumption DEF ConvType
    <1>2. [c EXCEPT !.phase = phase] \in ConvType
        BY DEF ConvType
    <1>3. [c EXCEPT !.phase = phase, !.asked = @ + 1] \in ConvType
        BY <1>1 DEF ConvType
    <1>4. [c EXCEPT !.phase = phase, !.tripped = TRUE, !.asked = @ + 1] \in ConvType
        BY <1>1 DEF ConvType
    <1>5. [c EXCEPT !.phase = phase, !.limit = @ + TurnBump] \in ConvType
        BY <1>1 DEF ConvType
    <1>6. [c EXCEPT !.phase = phase, !.turn = @ + 1] \in ConvType
        BY <1>1 DEF ConvType
    <1> QED
        BY <1>2, <1>3, <1>4, <1>5, <1>6

LEMMA ServedByOK ==
    ASSUME NEW c \in ConvType, NEW phase \in Phases, NEW pin \in Names, NEW s \in Nat \ {0}
    PROVE  /\ [c EXCEPT !.phase = phase, !.served = @ \cup {s}] \in ConvType
           /\ [c EXCEPT !.phase = phase, !.pin = pin, !.served = @ \cup {s}, !.asked = @ + 1] \in ConvType
           /\ [c EXCEPT !.phase = phase, !.pin = IF @ = NoName THEN pin ELSE @, !.served = @ \cup {s}]
                \in ConvType
    <1>1. c.asked + 1 \in Nat /\ c.served \cup {s} \in SUBSET (Nat \ {0})
        BY DEF ConvType
    <1>2. pin \in Names \cup {NoName} /\ (IF c.pin = NoName THEN pin ELSE c.pin) \in Names \cup {NoName}
        BY DEF ConvType
    <1>3. [c EXCEPT !.phase = phase, !.served = @ \cup {s}] \in ConvType
        BY <1>1 DEF ConvType
    <1>4. [c EXCEPT !.phase = phase, !.pin = pin, !.served = @ \cup {s}, !.asked = @ + 1] \in ConvType
        BY <1>1, <1>2 DEF ConvType
    <1>5. [c EXCEPT !.phase = phase, !.pin = IF @ = NoName THEN pin ELSE @, !.served = @ \cup {s}] \in ConvType
        BY <1>1, <1>2 DEF ConvType
    <1> QED
        BY <1>3, <1>4, <1>5

\* A step of a conversation that starts and ends no other.
LEMMA ConvStepOK ==
    ASSUME NEW a \in Caller, FleetOK, ConvsOK, RequestsOK,
           \/ PlainEnds(a) \/ AskTurn(a) \/ TripBreaker(a) \/ Extend(a) \/ OutOfTurns(a) \/ TurnFails(a)
           \/ AskAgain(a) \/ Answer(a) \/ CallTools(a) \/ NextTurn(a) \/ ToolPanics(a)
    PROVE  ConvsOK'
    <1> DEFINE c == conv[a]
    <1>0. c \in ConvType /\ {"turn", "answer", "breaker", "loop", "tools", "done", "failed"} \subseteq Phases
        BY DEF ConvsOK, Phases
    <1>1. ASSUME NEW now \in ConvType, conv' = [conv EXCEPT ![a] = now] PROVE ConvsOK'
        BY <1>1 DEF ConvsOK
    <1>2. CASE PlainEnds(a)
        <2>1. conv' = [conv EXCEPT ![a] = [c EXCEPT !.phase = IF req[a].state = "ok" THEN "done" ELSE "failed"]]
            BY <1>2 DEF PlainEnds
        <2> QED
            BY <1>0, <1>1, <2>1, UpdatedOK
    <1>3. CASE AskTurn(a)
        <2>1. conv' = [conv EXCEPT ![a] = [c EXCEPT !.phase = "turn", !.asked = @ + 1]]
            BY <1>3 DEF AskTurn
        <2> QED
            BY <1>0, <1>1, <2>1, UpdatedOK
    <1>4. CASE TripBreaker(a)
        <2>1. conv' = [conv EXCEPT ![a] = [c EXCEPT !.phase = "breaker", !.tripped = TRUE, !.asked = @ + 1]]
            BY <1>4 DEF TripBreaker
        <2> QED
            BY <1>0, <1>1, <2>1, UpdatedOK
    <1>5. CASE Extend(a)
        <2>1. conv' = [conv EXCEPT ![a] = [c EXCEPT !.phase = "loop", !.limit = @ + TurnBump]]
            BY <1>5 DEF Extend
        <2> QED
            BY <1>0, <1>1, <2>1, UpdatedOK
    <1>6. CASE OutOfTurns(a) \/ TurnFails(a) \/ ToolPanics(a)
        <2>1. conv' = [conv EXCEPT ![a] = [c EXCEPT !.phase = "failed"]]
            BY <1>6 DEF OutOfTurns, TurnFails, ToolPanics
        <2> QED
            BY <1>0, <1>1, <2>1, UpdatedOK
    <1>7. CASE NextTurn(a)
        <2>1. conv' = [conv EXCEPT ![a] = [c EXCEPT !.phase = "loop", !.turn = @ + 1]]
            BY <1>7 DEF NextTurn
        <2> QED
            BY <1>0, <1>1, <2>1, UpdatedOK
    <1>8. CASE AskAgain(a) \/ Answer(a) \/ CallTools(a)
        <2> DEFINE s == req[a].by
                   pin == fleet[s].name
        <2>1. s \in Slots /\ s \in Nat \ {0}
            <3>1. req[a].state = "ok"
                BY <1>8 DEF AskAgain, Answer, CallTools
            <3>2. s \in Slots
                BY <3>1 DEF RequestsOK, RequestOK
            <3> QED
                BY <3>2 DEF Slots
        <2>2. fleet[s] \in SlotType
            BY <2>1 DEF FleetOK, Slots
        <2>3. pin \in Names
            BY <2>2 DEF SlotType
        <2>4. CASE AskAgain(a)
            <3>1. conv' = [conv EXCEPT ![a] = [c EXCEPT !.phase = "answer", !.pin = pin,
                                                        !.served = @ \cup {s}, !.asked = @ + 1]]
                BY <2>4 DEF AskAgain
            <3> QED
                BY <1>0, <1>1, <2>1, <2>3, <3>1, ServedByOK
        <2>5. CASE Answer(a)
            <3>1. conv' = [conv EXCEPT ![a] = [c EXCEPT !.phase = "done", !.served = @ \cup {s}]]
                BY <2>5 DEF Answer
            <3> QED
                BY <1>0, <1>1, <2>1, <2>3, <3>1, ServedByOK
        <2>6. CASE CallTools(a)
            <3>1. conv' = [conv EXCEPT ![a] = [c EXCEPT !.phase = "tools",
                                                        !.pin = IF @ = NoName THEN pin ELSE @,
                                                        !.served = @ \cup {s}]]
                BY <2>6 DEF CallTools
            <3> QED
                BY <1>0, <1>1, <2>1, <2>3, <3>1, ServedByOK
        <2> QED
            BY <1>8, <2>4, <2>5, <2>6
    <1> QED
        BY <1>2, <1>3, <1>4, <1>5, <1>6, <1>7, <1>8

\* A step that starts calls, or ends them.
LEMMA ConvStartOK ==
    ASSUME NEW a \in Caller, ConvsOK, kinds \subseteq KindType,
           StartPlain(a) \/ StartConversation(a) \/ FanOut(a) \/ Join(a) \/ Return(a)
    PROVE  ConvsOK'
    <1>0. /\ conv[a] \in ConvType /\ conv[a].kind \in KindType
          /\ {"plain", "loop", "fan"} \subseteq Phases /\ a \in Threads /\ NoParent \in Threads
        BY DEF ConvsOK, ConvType, Phases, Threads
    <1>1. CASE StartPlain(a) \/ StartConversation(a)
        <2>1. PICK k \in kinds, phase \in {"plain", "loop"} : conv' = [conv EXCEPT ![a] = Fresh(phase, k, NoParent)]
            BY <1>1 DEF StartPlain, StartConversation
        <2>2. Fresh(phase, k, NoParent) \in ConvType
            BY <1>0, <2>1, FreshOK
        <2> QED
            BY <2>1, <2>2 DEF ConvsOK
    <1>2. CASE FanOut(a)
        <2>1. PICK S \in SUBSET Caller :
                  conv' = [b \in Caller |-> IF b = a THEN [conv[a] EXCEPT !.phase = "fan"]
                                            ELSE IF b \in S THEN Fresh("loop", conv[a].kind, a) ELSE conv[b]]
            BY <1>2 DEF FanOut
        <2>2. [conv[a] EXCEPT !.phase = "fan"] \in ConvType /\ Fresh("loop", conv[a].kind, a) \in ConvType
            BY <1>0, UpdatedOK, FreshOK
        <2> QED
            BY <2>1, <2>2 DEF ConvsOK
    <1>3. CASE Join(a)
        <2>1. [conv[a] EXCEPT !.phase = "loop", !.turn = @ + 1] \in ConvType
            BY <1>0, UpdatedOK
        <2> QED
            BY <1>3, <2>1, NoCallOK DEF Join, ConvsOK
    <1>4. CASE Return(a)
        BY <1>4, NoCallOK DEF Return, ConvsOK
    <1> QED
        BY <1>1, <1>2, <1>3, <1>4

\* A request is submitted for the kind of the call or of the breaker, with the pin of the
\* conversation or the provider that answered.
LEMMA AskedOK ==
    ASSUME NEW a \in Caller, RegistryOK, ConvsOK, RequestsOK,
           \/ PlainEnds(a) \/ AskTurn(a) \/ TripBreaker(a) \/ Extend(a) \/ OutOfTurns(a) \/ TurnFails(a)
           \/ AskAgain(a) \/ Answer(a) \/ CallTools(a) \/ NextTurn(a) \/ ToolPanics(a)
           \/ StartPlain(a) \/ StartConversation(a) \/ FanOut(a) \/ Join(a) \/ Return(a)
    PROVE  RequestsOK' /\ UNCHANGED <<fleet, kinds, older, tick, passed>>
    <1>0. conv[a] \in ConvType
        BY DEF ConvsOK
    <1>1. ASSUME NEW k \in KindType, NEW pin \in Pins, Submit(a, k, pin)
          PROVE  RequestsOK' /\ UNCHANGED <<fleet, kinds, older, tick, passed>>
        BY <1>1, SubmittedOK DEF Submit, RequestsOK, RequestOK, Queues, Slots
    <1>2. CASE Take(a)
        BY <1>2, NoRequestOK DEF Take, RequestsOK, RequestOK, Queues, Slots
    <1>3. CASE UNCHANGED rvars
        BY <1>3 DEF rvars, RequestsOK, RequestOK, Queues, Slots
    <1>4. CASE AskTurn(a)
        BY <1>0, <1>1, <1>4 DEF AskTurn, ConvType, Pins
    <1>5. CASE TripBreaker(a)
        <2>1. PICK small \in BOOLEAN : Submit(a, KindOf("TurnBudgetSupervisor", small, FALSE, FALSE), NoName)
            BY <1>5 DEF TripBreaker
        <2>2. KindOf("TurnBudgetSupervisor", small, FALSE, FALSE) \in KindType
            BY DEF KindOf, KindType, AgentTier, AgentDepth, Tiers, Micro, Light, Heavy
        <2> QED
            BY <1>1, <2>1, <2>2, NothingAsked
    <1>6. CASE AskAgain(a)
        <2>1. req[a].by \in Slots
            BY <1>6 DEF AskAgain, RequestsOK, RequestOK
        <2>2. fleet[req[a].by] \in SlotType
            BY <2>1 DEF RegistryOK, FleetOK, Slots
        <2>3. fleet[req[a].by].name \in Pins /\ conv[a].kind \in KindType
            BY <1>0, <2>2 DEF SlotType, Pins, ConvType
        <2> QED
            BY <1>1, <1>6, <2>3 DEF AskAgain
    <1>7. CASE StartPlain(a)
        <2>1. PICK k \in kinds : Submit(a, k, NoName)
            BY <1>7 DEF StartPlain
        <2> QED
            BY <1>1, <2>1, NothingAsked DEF RegistryOK
    <1> QED
        BY <1>2, <1>3, <1>4, <1>5, <1>6, <1>7
        DEF PlainEnds, Extend, OutOfTurns, TurnFails, Answer, CallTools, NextTurn, ToolPanics,
            StartConversation, FanOut, Join, Return

Typed == RegistryOK /\ RequestsOK /\ Ordered /\ ConvsOK

LEMMA TypedInit == Init => Typed
    <1> SUFFICES ASSUME Init PROVE Typed
        OBVIOUS
    <1>1. PICK r \in Runs : kinds = r.kinds
        BY DEF Init, RegistryInit
    <1>2. kinds \subseteq KindType
        BY <1>1, RunsAssumption
    <1>3. RegistryOK
        BY <1>2, FleetInit, BudgetAssumption DEF Init, RegistryInit, RegistryOK
    <1>4. Ordered
        BY DEF Init, RegistryInit, Ordered, StalerThan
    <1>5. RequestsOK
        BY NoRequestOK DEF Init, RegistryInit, RequestsOK
    <1>6. ConvsOK
        BY NoCallOK DEF Init, ConvsOK
    <1> QED
        BY <1>3, <1>4, <1>5, <1>6 DEF Typed

LEMMA TypedNext == Typed /\ [Next]_vars => Typed'
    <1> SUFFICES ASSUME Typed, [Next]_vars PROVE Typed'
        OBVIOUS
    <1>0. RegistryOK /\ RequestsOK /\ Ordered /\ ConvsOK /\ FleetOK /\ kinds \subseteq KindType
        BY DEF Typed, RegistryOK
    <1>1. ASSUME NEW a \in Caller, RegistryStep(a) PROVE Typed'
        <2>1. Serve(a) /\ conv' = conv
            BY <1>1 DEF RegistryStep
        <2> QED
            BY <1>0, <2>1, ServedOK, ServedInOrder DEF Typed, ConvsOK
    <1>2. ASSUME UNCHANGED <<fleet, kinds, older, tick, passed>> PROVE RegistryOK' /\ Ordered'
        BY <1>0, <1>2 DEF RegistryOK, FleetOK, Ordered, StalerThan, Slots
    <1>3. ASSUME NEW a \in Caller,
                 \/ PlainEnds(a) \/ AskTurn(a) \/ TripBreaker(a) \/ Extend(a) \/ OutOfTurns(a) \/ TurnFails(a)
                 \/ AskAgain(a) \/ Answer(a) \/ CallTools(a) \/ NextTurn(a) \/ ToolPanics(a)
          PROVE  Typed'
        BY <1>0, <1>2, <1>3, AskedOK, ConvStepOK DEF Typed
    <1>4. ASSUME NEW a \in Caller,
                 StartPlain(a) \/ StartConversation(a) \/ FanOut(a) \/ Join(a) \/ Return(a)
          PROVE  Typed'
        BY <1>0, <1>2, <1>4, AskedOK, ConvStartOK DEF Typed
    <1>5. CASE UNCHANGED vars
        BY <1>5 DEF vars, rvars, Typed, RegistryOK, FleetOK, Ordered, StalerThan, RequestsOK, RequestOK, Queues,
                    Slots, ConvsOK
    <1> QED
        BY Zenon, <1>1, <1>3, <1>4, <1>5, NextCases

\* registry.rs and manager.rs: every variable has its type, a request that is being served has a
\* provider left to ask, and no two slots were each used before the other.
THEOREM ConversationTypeCorrect == Spec => []TypeOK
    <1>1. Typed => TypeOK
        <2> SUFFICES ASSUME Typed PROVE TypeOK
            OBVIOUS
        <2>1. ASSUME NEW c \in Caller PROVE req[c] \in Requests /\ (req[c].state = "calling" => req[c].queue # << >>)
            <3>1. RequestOK(req[c])
                BY DEF Typed, RequestsOK
            <3>2. Queues \subseteq Seq(Nat \ {0}) /\ Within \subseteq [Budgets -> Nat]
                BY DEF Queues, Within, Slots
            <3> QED
                BY <3>1, <3>2 DEF RequestOK, Requests, States, Pins
        <2>2. req \in [Caller -> Requests]
            BY <2>1 DEF Typed, RequestsOK
        <2> QED
            BY <2>1, <2>2 DEF Typed, RegistryOK, FleetOK, Ordered, ConvsOK, TypeOK
    <1> QED
        BY TypedInit, TypedNext, <1>1, PTL DEF Spec

\* No request is retried more often than the budget for its kind of error pays for.
RetriesInBudget == \A c \in Caller : \A b \in Budgets : req[c].retries[b] <= MaxRetries[b]

\* registry.rs, complete and complete_pinned: whatever errors alternate, over all providers and
\* rounds of a request, none of its three budgets of retries is overdrawn.
THEOREM RetriesAreBounded == Spec => []RetriesInBudget
    <1>1. Typed => RetriesInBudget
        BY DEF Typed, RequestsOK, RequestOK, Within, RetriesInBudget
    <1> QED
        BY TypedInit, TypedNext, <1>1, PTL DEF Spec

-----------------------------------------------------------------------------
(* The agents that write one document: the contract. *)

\* Every round before k ended in a rejection.
Rejected(k) == \A m \in 0..(k - 1) : m \in DOMAIN review /\ review[m].verdict = "rejected"

\* The text of a round whose review ends the loop.
Accepted(text) ==
  \/ MaxIter = 0 /\ text = <<>>
  \/ \E n \in DOMAIN review :
       /\ draft[n] = text /\ (Approves(n) \/ n = MaxIter - 1)
       /\ \A m \in 0..n : m \in DOMAIN review /\ review[m].of = draft[m] /\ (Approves(m) => m = n)

\* A checkpoint is written once: what was reviewed is the draft that is still there, so a round
\* that resumes from it judges, and passes on, the text the review was about.
Checkpointed ==
  /\ DOMAIN review \subseteq DOMAIN draft /\ DOMAIN draft \subseteq Nat
  /\ \A n \in DOMAIN review :
       review[n].of = draft[n] /\ review[n].verdict \in {"approved", "rejected"}
  /\ iter \in Nat
  /\ pc \in {"draft", "review"} => iter < MaxIter /\ Rejected(iter)
  /\ pc = "review" => iter \in DOMAIN draft /\ last = draft[iter]
  /\ pc = "emit" => Accepted(last)
  /\ \A text \in contract : Accepted(text)

ContractInv == torn \in BOOLEAN /\ (torn \/ Checkpointed)

LEMMA ContractInvInit == ContractInit => ContractInv
  <1> SUFFICES ASSUME ContractInit PROVE Checkpointed /\ torn = FALSE
    BY DEF ContractInv
  <1>1. review = draft /\ DOMAIN draft = {} /\ contract = {} /\ pc = "down" /\ iter = 0
    BY DEF ContractInit, Nothing
  <1> QED
    BY <1>1 DEF ContractInit, Checkpointed

LEMMA ContractCases ==
  ASSUME [ContractNext]_contractVars
  PROVE  Launch \/ Draft \/ Review \/ Emit \/ Fails \/ Crash \/ CutOff \/ UNCHANGED contractVars
  BY DEF ContractNext

LEMMA CheckpointedNext == Checkpointed /\ torn \in BOOLEAN /\ ~torn' /\ [ContractNext]_contractVars => Checkpointed'
  <1> SUFFICES ASSUME Checkpointed, torn \in BOOLEAN, ~torn', [ContractNext]_contractVars PROVE Checkpointed'
    OBVIOUS
  <1>1. CASE Launch
    BY <1>1, ContractAssumption DEF Launch, Checkpointed, Accepted, Rejected
  <1>2. CASE Draft
    <2>1. iter \in DOMAIN draft' /\ last' = draft'[iter] /\ UNCHANGED <<review, contract, iter>> /\ pc' = "review"
      BY <1>2 DEF Draft, Saved
    <2>2. DOMAIN draft \subseteq DOMAIN draft' /\ DOMAIN draft' \subseteq DOMAIN draft \cup {iter}
          /\ \A n \in DOMAIN draft : draft'[n] = draft[n]
      BY <1>2 DEF Draft, Saved
    <2>3. Rejected(iter)' /\ iter < MaxIter
      BY <1>2, <2>1 DEF Draft, Checkpointed, Rejected
    <2>4. \A text \in contract' : Accepted(text)'
      BY <2>1, <2>2 DEF Checkpointed, Accepted, Approves
    <2> QED
      BY <2>1, <2>2, <2>3, <2>4 DEF Checkpointed
  <1>3. CASE Review
    <2>1. iter \in DOMAIN review' /\ UNCHANGED <<draft, contract, last>> /\ pc = "review"
          /\ AfterReview(review'[iter].verdict) /\ iter < MaxIter /\ Rejected(iter) /\ last = draft[iter]
          /\ iter \in DOMAIN draft
      BY <1>3 DEF Review, ReviewId, Saved, Checkpointed
    <2>2. DOMAIN review \subseteq DOMAIN review' /\ DOMAIN review' \subseteq DOMAIN review \cup {iter}
          /\ \A n \in DOMAIN review : review'[n] = review[n]
      BY <1>3 DEF Review, ReviewId, Saved
    <2>3. review'[iter].of = draft[iter] /\ review'[iter].verdict \in {"approved", "rejected"}
      BY <1>3 DEF Review, ReviewId, Saved, Checkpointed
    <2>4. \A n \in DOMAIN review' :
            review'[n].of = draft'[n] /\ review'[n].verdict \in {"approved", "rejected"}
      BY <2>1, <2>2, <2>3 DEF Checkpointed
    <2>5. \A m \in 0..(iter - 1) : m \in DOMAIN review' /\ review'[m].verdict = "rejected"
      BY <2>1, <2>2 DEF Rejected
    <2>6. \A text \in contract' : Accepted(text)'
      BY <2>1, <2>2 DEF Checkpointed, Accepted, Approves
    <2>7. \A m \in 0..iter : m \in DOMAIN review' /\ review'[m].of = draft'[m]
                            /\ (review'[m].verdict = "approved" => m = iter)
      <3>1. \A m \in 0..iter : m = iter \/ m \in 0..(iter - 1)
        BY DEF Checkpointed
      <3> QED
        BY <2>1, <2>4, <2>5, <3>1
    <2>8. CASE review'[iter].verdict = "approved"
      <3>1. pc' = "emit" /\ iter' = iter
        BY <2>1, <2>8 DEF AfterReview
      <3>2. Accepted(last)'
        BY <2>1, <2>8, <2>7, <3>1 DEF Accepted, Approves
      <3> QED
        BY <2>1, <2>2, <2>4, <2>6, <3>1, <3>2 DEF Checkpointed
    <2>9. CASE review'[iter].verdict = "rejected"
      <3>1. iter' = iter + 1 /\ iter \in Nat /\ iter' \in Nat
        BY <2>1, <2>9 DEF AfterReview, Checkpointed
      <3>2. Rejected(iter)'
        <4>1. \A m \in 0..iter : m \in DOMAIN review' /\ review'[m].verdict = "rejected"
          BY <2>1, <2>5, <2>9, <3>1
        <4> QED
          BY <3>1, <4>1 DEF Rejected
      <3>3. CASE iter + 1 = MaxIter
        <4>1. pc' = "emit"
          BY <2>1, <2>9, <3>3 DEF AfterReview
        <4>2. iter = MaxIter - 1
          BY <3>1, <3>3
        <4>3. Accepted(last)'
          BY <2>1, <2>7, <4>2 DEF Accepted, Approves
        <4> QED
          BY <2>1, <2>2, <2>4, <2>6, <3>1, <4>1, <4>3 DEF Checkpointed
      <3>4. CASE iter + 1 # MaxIter
        <4>1. pc' = "draft" /\ iter' < MaxIter
          BY <2>1, <2>9, <3>1, <3>4, ContractAssumption DEF AfterReview
        <4> QED
          BY <2>1, <2>2, <2>4, <2>6, <3>1, <3>2, <4>1 DEF Checkpointed
      <3> QED
        BY <3>3, <3>4
    <2> QED
      BY <2>3, <2>8, <2>9
  <1>4. CASE Emit
    BY <1>4 DEF Emit, Checkpointed, Accepted, Approves
  <1>5. CASE Fails
    BY <1>5 DEF Fails, Checkpointed, Accepted, Approves
  <1>6. CASE Crash
    BY <1>6 DEF Crash, Checkpointed, Accepted, Approves
  <1>7. CASE CutOff
    BY <1>7 DEF CutOff
  <1>8. CASE UNCHANGED contractVars
    BY <1>8 DEF contractVars, Checkpointed, Accepted, Approves, Rejected
  <1> QED
    BY <1>1, <1>2, <1>3, <1>4, <1>5, <1>6, <1>7, <1>8, ContractCases

LEMMA ContractInvNext == ContractInv /\ [ContractNext]_contractVars => ContractInv'
  <1> SUFFICES ASSUME ContractInv, [ContractNext]_contractVars PROVE ContractInv'
    OBVIOUS
  <1>1. torn' \in BOOLEAN /\ (torn => torn')
    BY DEF ContractInv, ContractNext, Launch, Draft, Review, Emit, Fails, Crash, CutOff, contractVars
  <1> QED
    BY <1>1, CheckpointedNext DEF ContractInv

\* main.rs and manager.rs, run_with_review: whatever the reviewer answers
\* and wherever a launch is cut short and taken up again, the contract is a text that was
\* reviewed as it stands and approved, or the last of max_iter.
THEOREM ContractWasReviewed == ContractSpec => []ContractIsReviewed
  <1>1. ContractInv => ContractIsReviewed
    BY DEF ContractInv, Checkpointed, Accepted, ContractIsReviewed
  <1> QED
    BY ContractInvInit, ContractInvNext, <1>1, PTL DEF ContractSpec

\* A draft is of a round that may still be reviewed, and a review of a draft there is.
RoundsWithin ==
  /\ DOMAIN review \subseteq DOMAIN draft /\ DOMAIN draft \subseteq {n \in Nat : n < MaxIter}
  /\ \A n \in DOMAIN review : review[n].verdict \in {"approved", "rejected"}
  /\ iter \in Nat /\ iter <= MaxIter
  /\ pc \in {"draft", "review"} => iter < MaxIter
  /\ pc = "review" => iter \in DOMAIN draft

\* The file is there once, and the launch at a place of the program.
OneContract ==
  /\ contract = {} \/ \E t \in contract : contract = {t}
  /\ pc \in {"down", "failed", "draft", "review", "emit", "done"} /\ torn \in BOOLEAN

LEMMA RoundsWithinNext == RoundsWithin /\ [ContractNext]_contractVars => RoundsWithin'
  <1> SUFFICES ASSUME RoundsWithin, [ContractNext]_contractVars PROVE RoundsWithin'
    OBVIOUS
  <1> USE ContractAssumption DEF RoundsWithin
  <1>1. CASE Launch
    BY <1>1 DEF Launch
  <1>2. CASE Draft
    <2>1. /\ DOMAIN draft' = DOMAIN draft \cup {iter} /\ pc = "draft" /\ pc' = "review"
          /\ UNCHANGED <<review, iter>>
      BY <1>2 DEF Draft, Saved
    <2> QED
      BY <2>1
  <1>3. CASE Review
    <2>1. /\ DOMAIN review' = DOMAIN review \cup {iter} /\ pc = "review" /\ UNCHANGED draft
          /\ \A n \in DOMAIN review' : review'[n].verdict \in {"approved", "rejected"}
          /\ \E verdict \in {"approved", "rejected"} : AfterReview(verdict)
      <3>1. CASE iter \in DOMAIN review
        BY <1>3, <3>1 DEF Review, ReviewId
      <3>2. CASE iter \notin DOMAIN review
        <4>1. PICK verdict \in {"approved", "rejected"} :
                /\ review' = Saved(review, iter, [verdict |-> verdict, of |-> last])
                /\ AfterReview(verdict)
          BY <1>3, <3>2 DEF Review, ReviewId
        <4>2. /\ DOMAIN review' = DOMAIN review \cup {iter} /\ review'[iter].verdict = verdict
              /\ \A n \in DOMAIN review : n # iter => review'[n] = review[n]
          BY <4>1 DEF Saved
        <4> QED
          BY <1>3, <4>1, <4>2 DEF Review
      <3> QED
        BY <3>1, <3>2
    <2>2. \/ iter' = iter /\ pc' = "emit"
          \/ iter' = iter + 1 /\ pc' = (IF iter + 1 = MaxIter THEN "emit" ELSE "draft")
      BY <2>1 DEF AfterReview
    <2> QED
      BY <2>1, <2>2
  <1>4. CASE Emit \/ Fails \/ Crash
    BY <1>4 DEF Emit, Fails, Crash
  <1>5. CASE CutOff
    <2>1. /\ UNCHANGED iter /\ pc' = "down"
          /\ \/ pc = "draft" /\ draft' = Saved(draft, iter, <<>>) /\ UNCHANGED review
             \/ /\ pc = "review" /\ UNCHANGED draft
                /\ review' = Saved(review, iter, [verdict |-> "rejected", of |-> last])
             \/ UNCHANGED <<draft, review>>
      BY <1>5 DEF CutOff, ReviewId
    <2> QED
      BY <2>1 DEF Saved
  <1>6. CASE UNCHANGED contractVars
    BY <1>6 DEF contractVars
  <1> QED
    BY <1>1, <1>2, <1>3, <1>4, <1>5, <1>6 DEF ContractNext

\* main.rs and manager.rs, run_with_review: in every launch, no round is drafted or reviewed past
\* max_iter, nothing is reviewed that was not drafted, and there is one contract.
THEOREM ContractTypeCorrect == ContractSpec => []ContractTypeOK
  <1>1. ContractInit => RoundsWithin
    BY ContractAssumption DEF ContractInit, RoundsWithin, Nothing
  <1>2. ContractInit => OneContract
    BY DEF ContractInit, OneContract
  <1>3. OneContract /\ [ContractNext]_contractVars => OneContract'
    BY Zenon DEF OneContract, ContractNext, Launch, Draft, Review, AfterReview, Emit, Fails, Crash,
                 CutOff, contractVars
  <1>4. RoundsWithin /\ OneContract => ContractTypeOK
    <2>1. RoundsWithin => iter \in Rounds /\ {n \in Nat : n < MaxIter} = {n \in Rounds : n < MaxIter}
      BY ContractAssumption DEF RoundsWithin, Rounds
    <2> QED
      BY <2>1 DEF RoundsWithin, OneContract, ContractTypeOK
  <1> QED
    BY RoundsWithinNext, <1>1, <1>2, <1>3, <1>4, PTL DEF ContractSpec

-----------------------------------------------------------------------------
(* The contract's patches.  First, induction over numbers; it is about a set  *)
(* because the provers cannot instantiate a predicate.                        *)

LEMMA LeastOf ==
  ASSUME NEW S \in SUBSET Nat, S # {}
  PROVE  \E i \in S : \A j \in S : i <= j
  <1>1. \E i \in S : \A j \in S : <<j, i>> \notin OpToRel(<, Nat)
    BY NatLessThanWellFounded, WFMin
  <1>2. \A i, j \in Nat : <<j, i>> \notin OpToRel(<, Nat) => i <= j
    BY DEF OpToRel
  <1> QED
    BY <1>1, <1>2

\* Induction, about a set.
LEMMA AllOfNat ==
  ASSUME NEW P, 0 \in P, \A n \in Nat : n \in P => n + 1 \in P
  PROVE  \A n \in Nat : n \in P
  <1> SUFFICES ASSUME Nat \ P # {} PROVE FALSE
    OBVIOUS
  <1>1. PICK x \in Nat \ P : \A y \in Nat \ P : x <= y
    BY LeastOf
  <1>2. x # 0 /\ x - 1 \in Nat /\ ~(x <= x - 1) /\ (x - 1) + 1 = x
    BY <1>1
  <1>3. x - 1 \in P
    BY <1>1, <1>2
  <1> QED
    BY <1>1, <1>2, <1>3

-----------------------------------------------------------------------------
(* Folds. *)

\* A step of a fold over m elements takes the number of the element and a value.
Steps(m, V) == [(1..m) \X V -> V]

\* What a fold of m steps computes, for each set of elements, from the greatest on.
Folding(it, m, base, step) ==
  \A s \in SUBSET (1..m) : it[s] = IF s = {} THEN base ELSE step[<<Max(s), it[s \ {Max(s)}]>>]

HasFold(V, m, base, step) == \E it \in [SUBSET (1..m) -> V] : Folding(it, m, base, step)

LEMMA Greatest ==
  /\ \A n \in Nat \ {0} : Max(1..n) = n /\ (1..n) \ {n} = 1..(n - 1)
  /\ \A n \in Nat : \A s \in SUBSET (1..(n + 1)) : n + 1 \in s => Max(s) = n + 1 /\ s \ {n + 1} \in SUBSET (1..n)
  <1>1. ASSUME NEW s \in SUBSET Nat, NEW n \in s, \A i \in s : i <= n PROVE Max(s) = n
    <2>1. n \in s /\ \A y \in s : n >= y
      BY <1>1
    <2>2. \A x \in s : (\A y \in s : x >= y) => x = n
      BY <1>1
    <2> QED
      BY <2>1, <2>2 DEF Max
  <1>2. ASSUME NEW n \in Nat \ {0} PROVE Max(1..n) = n /\ (1..n) \ {n} = 1..(n - 1)
    <2>1. 1..n \in SUBSET Nat /\ n \in 1..n /\ \A i \in 1..n : i <= n
      OBVIOUS
    <2>2. (1..n) \ {n} = 1..(n - 1)
      OBVIOUS
    <2> QED
      BY <1>1, <2>1, <2>2
  <1>3. ASSUME NEW n \in Nat, NEW s \in SUBSET (1..(n + 1)), n + 1 \in s
        PROVE  Max(s) = n + 1 /\ s \ {n + 1} \in SUBSET (1..n)
    <2>1. s \in SUBSET Nat /\ \A i \in s : i <= n + 1
      BY <1>3
    <2>2. Max(s) = n + 1
      BY <1>1, <1>3, <2>1
    <2> QED
      BY <1>3, <2>2
  <1> QED
    BY <1>2, <1>3

LEMMA FoldsExist ==
  ASSUME NEW V, NEW base \in V, NEW m \in Nat, NEW step \in Steps(m, V)
  PROVE  HasFold(V, m, base, step)
  <1>1. PICK P : P = {n \in Nat : n <= m => HasFold(V, n, base, step)}
    OBVIOUS
  <1>2. 0 \in P
    <2>1. PICK it : it = [s \in SUBSET (1..0) |-> base]
      OBVIOUS
    <2>2. \A s \in SUBSET (1..0) : s = {}
      OBVIOUS
    <2>3. it \in [SUBSET (1..0) -> V] /\ Folding(it, 0, base, step)
      BY <2>1, <2>2 DEF Folding
    <2> QED
      BY <1>1, <2>3 DEF HasFold
  <1>3. ASSUME NEW n \in Nat, n \in P PROVE n + 1 \in P
    <2> SUFFICES ASSUME n + 1 <= m PROVE HasFold(V, n + 1, base, step)
      BY <1>1
    <2>1. PICK old \in [SUBSET (1..n) -> V] : Folding(old, n, base, step)
      BY <1>1, <1>3 DEF HasFold
    <2>2. PICK it : it = [s \in SUBSET (1..(n + 1)) |->
                           IF n + 1 \in s THEN step[<<n + 1, old[s \ {n + 1}]>>] ELSE old[s]]
      OBVIOUS
    <2>3. ASSUME NEW s \in SUBSET (1..(n + 1)), n + 1 \in s
          PROVE  /\ s \ {n + 1} \in SUBSET (1..n) /\ it[s \ {n + 1}] = old[s \ {n + 1}] /\ Max(s) = n + 1
                 /\ it[s] = step[<<n + 1, old[s \ {n + 1}]>>] /\ it[s] \in V
      <3>1. s \ {n + 1} \in SUBSET (1..n) /\ Max(s) = n + 1
        BY <2>3, Greatest
      <3>2. s \ {n + 1} \in SUBSET (1..(n + 1)) /\ n + 1 \notin s \ {n + 1}
        OBVIOUS
      <3>3. old[s \ {n + 1}] \in V /\ n + 1 \in 1..m
        BY <2>1, <3>1
      <3>4. step[<<n + 1, old[s \ {n + 1}]>>] \in V
        BY <3>3 DEF Steps
      <3> QED
        BY <2>2, <2>3, <3>1, <3>2, <3>4
    <2>4. ASSUME NEW s \in SUBSET (1..(n + 1)), n + 1 \notin s
          PROVE  /\ s \in SUBSET (1..n) /\ it[s] = old[s] /\ it[s] \in V
                 /\ it[s] = IF s = {} THEN base ELSE step[<<Max(s), it[s \ {Max(s)}]>>]
      <3>1. s \in SUBSET (1..n)
        BY <2>4
      <3>2. \A r \in SUBSET (1..n) : r \in SUBSET (1..(n + 1)) /\ n + 1 \notin r
        OBVIOUS
      <3>3. \A r \in SUBSET (1..n) : it[r] = old[r]
        BY <2>2, <3>2
      <3>4. s \ {Max(s)} \in SUBSET (1..n)
        BY <3>1
      <3>5. old[s] \in V /\ old[s] = IF s = {} THEN base ELSE step[<<Max(s), old[s \ {Max(s)}]>>]
        BY <2>1, <3>1 DEF Folding
      <3> QED
        BY <3>1, <3>3, <3>4, <3>5
    <2>5. it \in [SUBSET (1..(n + 1)) -> V]
      BY <2>2, <2>3, <2>4
    <2>6. Folding(it, n + 1, base, step)
      BY <2>3, <2>4 DEF Folding
    <2> QED
      BY <2>5, <2>6 DEF HasFold
  <1>4. m \in P
    BY <1>2, <1>3, AllOfNat
  <1> QED
    BY <1>1, <1>4

\* Of some of the first m numbers, one is the greatest.
LEMMA GreatestIsIn == \A m \in Nat : \A s \in SUBSET (1..m) : s # {} => Max(s) \in s
  <1> SUFFICES ASSUME NEW m \in Nat, NEW s \in SUBSET (1..m), s # {} PROVE Max(s) \in s
    OBVIOUS
  <1>1. PICK P : P = {n \in Nat : \A r \in SUBSET (1..n) : r # {} => \E x \in r : \A y \in r : x >= y}
    OBVIOUS
  <1>2. 0 \in P
    <2>1. 1..0 = {}
      OBVIOUS
    <2> QED
      BY <1>1, <2>1
  <1>3. ASSUME NEW n \in Nat, n \in P PROVE n + 1 \in P
    <2> SUFFICES ASSUME NEW r \in SUBSET (1..(n + 1)), r # {} PROVE \E x \in r : \A y \in r : x >= y
      BY <1>1
    <2>1. CASE n + 1 \in r
      BY <2>1
    <2>2. CASE n + 1 \notin r
      <3>1. r \in SUBSET (1..n)
        BY <2>2
      <3> QED
        BY <1>1, <1>3, <3>1
    <2> QED
      BY <2>1, <2>2
  <1>4. m \in P
    BY <1>2, <1>3, AllOfNat
  <1>5. \E x \in s : \A y \in s : x >= y
    BY <1>1, <1>4
  <1> QED
    BY <1>5 DEF Max

Recurs(c, m, V, base, step) ==
  /\ c[{}] = base
  /\ \A s \in SUBSET (1..m) :
        s # {} /\ c[s \ {Max(s)}] \in V => c[s] = step[<<Max(s), c[s \ {Max(s)}]>>]

\* A fold's value is the last of a run of m steps, from base on.
Computes(V, m, base, step, result) ==
  \E f \in [0..m -> V] :
    f[0] = base /\ (\A n \in 1..m : f[n] = step[<<n, f[n - 1]>>]) /\ result = f[m]

LEMMA FoldComputes ==
  ASSUME NEW V, NEW base \in V, NEW m \in Nat, NEW step \in Steps(m, V), NEW c, Recurs(c, m, V, base, step)
  PROVE  Computes(V, m, base, step, c[1..m])
  <1>1. PICK f : f = [n \in 0..m |-> c[1..n]]
    OBVIOUS
  <1>2. f[0] = base
    <2>1. 1..0 = {}
      OBVIOUS
    <2> QED
      BY <1>1, <2>1 DEF Recurs
  <1>3. ASSUME NEW n \in 1..m, f[n - 1] \in V PROVE f[n] = step[<<n, f[n - 1]>>] /\ f[n] \in V
    <2>1. n \in 1..n /\ n \in 0..m /\ n - 1 \in 0..m /\ 1..n \in SUBSET (1..m)
      OBVIOUS
    <2>2. Max(1..n) = n /\ (1..n) \ {n} = 1..(n - 1)
      BY Greatest
    <2>3. f[n] = c[1..n] /\ f[n - 1] = c[1..(n - 1)]
      BY <1>1, <2>1
    <2>4. f[n] = step[<<n, f[n - 1]>>]
      BY <1>3, <2>1, <2>2, <2>3 DEF Recurs
    <2> QED
      BY <1>3, <2>4 DEF Steps
  <1>4. PICK P : P = {n \in Nat : n <= m => f[n] \in V}
    OBVIOUS
  <1>5. 0 \in P
    BY <1>2, <1>4
  <1>6. ASSUME NEW n \in Nat, n \in P PROVE n + 1 \in P
    <2> SUFFICES ASSUME n + 1 <= m PROVE f[n + 1] \in V
      BY <1>4
    <2>1. PICK k : k = n + 1
      OBVIOUS
    <2>2. k \in 1..m /\ k - 1 = n /\ n <= m
      BY <2>1
    <2>3. f[k - 1] \in V
      BY <1>4, <1>6, <2>2
    <2> QED
      BY <1>3, <2>1, <2>2, <2>3
  <1>7. \A n \in Nat : n \in P
    BY <1>5, <1>6, AllOfNat
  <1>8. \A n \in 0..m : f[n] \in V
    BY <1>4, <1>7
  <1>9. f \in [0..m -> V]
    BY <1>1, <1>8
  <1>10. ASSUME NEW n \in 1..m PROVE f[n] = step[<<n, f[n - 1]>>]
    <2>1. n - 1 \in 0..m
      OBVIOUS
    <2> QED
      BY <1>3, <1>8, <2>1
  <1>11. c[1..m] = f[m]
    BY <1>1
  <1> QED
    BY <1>2, <1>9, <1>10, <1>11 DEF Computes

LEMMA ComputedInside ==
  ASSUME NEW V, NEW m \in Nat, NEW base, NEW step, NEW result, Computes(V, m, base, step, result)
  PROVE  result \in V
  BY DEF Computes

-----------------------------------------------------------------------------
(* Texts, and what a hunk makes of them. *)

LEMMA ElementOf == ASSUME NEW S, NEW s \in Seq(S), NEW n \in 1..Len(s) PROVE s[n] \in S
  OBVIOUS

\* A letter of a text, NL among them (the provers do not know of a literal that it is in STRING).
Char == STRING \cup {NL}

LEMMA TextsAreOfChar == \A text \in Seq(STRING) : text \in Seq(Char)
  <1>1. ASSUME NEW S, NEW T, S \subseteq T, NEW s \in Seq(S) PROVE s \in Seq(T)
    <2>1. \A i \in 1..Len(s) : s[i] \in T
      BY <1>1, ElementOf
    <2> QED
      BY <2>1
  <1> QED
    BY <1>1 DEF Char

LEMMA NewlineIsText == <<NL>> \in Seq(Char)
  <1>1. NL \in Char
    BY DEF Char
  <1>2. ASSUME NEW S, NEW x \in S PROVE <<x>> \in Seq(S)
    OBVIOUS
  <1> QED
    BY <1>1, <1>2

Numbers(text) == [i \in DOMAIN text |-> i]

LEMMA LineOfBody ==
  ASSUME NEW body \in Body, NEW n \in 1..Len(body)
  PROVE  body[n].line \in Seq(Char)
  <1>1. body[n] \in [mark : Marks, line : Seq(STRING)]
    BY ElementOf DEF Body
  <1> QED
    BY <1>1, TextsAreOfChar

KeepLine(body, marks, n, lines) == IF body[n].mark \in marks THEN Append(lines, body[n].line) ELSE lines

\* The lines of a hunk's body with one of these marks, one after the other.
LEMMA TextsFold ==
  ASSUME NEW body \in Body, NEW marks
  PROVE  Computes(Seq(Seq(Char)), Len(body), <<>>,
              [p \in (1..Len(body)) \X Seq(Seq(Char)) |-> KeepLine(body, marks, p[1], p[2])],
              Texts(body, marks))
  <1> DEFINE m == Len(body)
             Is(it) == it = [s \in SUBSET DOMAIN body |->
                               IF s = {} THEN <<>>
                               ELSE KeepLine(body, marks, Max(s), it[s \ {Max(s)}])]
  <1>1. m \in Nat /\ DOMAIN body = 1..m
    BY DEF Body
  <1>2. PICK V : V = Seq(Seq(Char))
    OBVIOUS
  <1>3. PICK step : step = [p \in (1..m) \X V |-> KeepLine(body, marks, p[1], p[2])]
    OBVIOUS
  <1>4. ASSUME NEW n \in 1..m, NEW v \in V
        PROVE  step[<<n, v>>] = KeepLine(body, marks, n, v) /\ step[<<n, v>>] \in V
    <2>1. step[<<n, v>>] = KeepLine(body, marks, n, v)
      BY <1>3
    <2> QED
      <3>1. body[n].line \in Seq(Char)
        BY LineOfBody
      <3>2. v \in Seq(Seq(Char))
        BY <1>2
      <3>3. Append(v, body[n].line) \in Seq(Seq(Char))
        BY <3>1, <3>2
      <3> QED
        BY <1>2, <2>1, <3>2, <3>3 DEF KeepLine
  <1>5. step \in Steps(m, V)
    BY <1>3, <1>4 DEF Steps
  <1>6. <<>> \in V
    BY <1>2
  <1>7. PICK it \in [SUBSET (1..m) -> V] : Folding(it, m, <<>>, step)
    BY <1>1, <1>5, <1>6, FoldsExist DEF HasFold
  <1>8. ASSUME NEW s \in SUBSET (1..m), s # {}
        PROVE  it[s] = KeepLine(body, marks, Max(s), it[s \ {Max(s)}])
    <2>1. it[s] = step[<<Max(s), it[s \ {Max(s)}]>>]
      BY <1>7, <1>8 DEF Folding
    <2>2. Max(s) \in 1..m
      BY <1>1, <1>8, GreatestIsIn
    <2>3. it[s \ {Max(s)}] \in V
      BY <1>7
    <2> QED
      BY <1>4, <2>1, <2>2, <2>3
  <1>9. Is(it)
    <2>1. it[{}] = <<>>
      BY <1>7 DEF Folding
    <2> QED
      BY <1>1, <1>7, <1>8, <2>1
  <1>10. PICK c : c = CHOOSE it0 : Is(it0)
    OBVIOUS
  <1>11. Is(c)
    BY <1>9, <1>10, Zenon
  <1>12. Texts(body, marks) = c[1..m]
    <2>1. Texts(body, marks) = c[DOMAIN body]
      BY <1>10, Zenon DEF KeepLine, Texts, FoldLeft, MapThenFoldSet
    <2> QED
      BY <1>1, <2>1
  <1>13. Recurs(c, m, V, <<>>, step)
    <2>1. c[{}] = <<>>
      BY <1>11
    <2>2. ASSUME NEW s \in SUBSET (1..m), s # {}, c[s \ {Max(s)}] \in V
          PROVE  c[s] = step[<<Max(s), c[s \ {Max(s)}]>>]
      <3>1. c[s] = KeepLine(body, marks, Max(s), c[s \ {Max(s)}])
        BY <1>1, <1>11, <2>2
      <3>2. Max(s) \in 1..m
        BY <1>1, <2>2, GreatestIsIn
      <3> QED
        BY <1>4, <2>2, <3>1, <3>2
    <2> QED
      BY <2>1, <2>2 DEF Recurs
  <1>14. Computes(V, m, <<>>, step, c[1..m])
    BY <1>1, <1>5, <1>6, <1>13, FoldComputes
  <1> QED
    BY <1>2, <1>3, <1>12, <1>14

JoinLine(lines, n, text) == text \o <<NL>> \o Tail(lines)[n]

\* Lines joined, one after the other.
LEMMA JoinFold ==
  ASSUME NEW lines \in Seq(Seq(Char)), lines # <<>>
  PROVE  Computes(Seq(Char), (Len(lines) - 1), Head(lines),
              [p \in (1..(Len(lines) - 1)) \X Seq(Char) |-> JoinLine(lines, p[1], p[2])],
              JoinLines(lines))
  <1> DEFINE m == (Len(lines) - 1)
             Is(it) == it = [s \in SUBSET DOMAIN Tail(lines) |->
                               IF s = {} THEN Head(lines)
                               ELSE JoinLine(lines, Max(s), it[s \ {Max(s)}])]
  <1>1. m \in Nat /\ DOMAIN Tail(lines) = 1..m
    OBVIOUS
  <1>2. PICK V : V = Seq(Char)
    OBVIOUS
  <1>3. PICK step : step = [p \in (1..m) \X V |-> JoinLine(lines, p[1], p[2])]
    OBVIOUS
  <1>4. ASSUME NEW n \in 1..m, NEW v \in V
        PROVE  step[<<n, v>>] = JoinLine(lines, n, v) /\ step[<<n, v>>] \in V
    <2>1. step[<<n, v>>] = JoinLine(lines, n, v)
      BY <1>3
    <2> QED
      <3>1. Tail(lines) \in Seq(Seq(Char)) /\ n \in 1..Len(Tail(lines))
        OBVIOUS
      <3>2. Tail(lines)[n] \in Seq(Char)
        BY <3>1, ElementOf
      <3>3. v \in Seq(Char) /\ <<NL>> \in Seq(Char)
        BY <1>2, NewlineIsText
      <3>4. v \o <<NL>> \o Tail(lines)[n] \in Seq(Char)
        <4>1. v \o <<NL>> \in Seq(Char)
          BY <3>3
        <4> QED
          BY <3>2, <4>1
      <3> QED
        BY <1>2, <2>1, <3>4 DEF JoinLine
  <1>5. step \in Steps(m, V)
    BY <1>3, <1>4 DEF Steps
  <1>6. Head(lines) \in V
    BY <1>2
  <1>7. PICK it \in [SUBSET (1..m) -> V] : Folding(it, m, Head(lines), step)
    BY <1>1, <1>5, <1>6, FoldsExist DEF HasFold
  <1>8. ASSUME NEW s \in SUBSET (1..m), s # {}
        PROVE  it[s] = JoinLine(lines, Max(s), it[s \ {Max(s)}])
    <2>1. it[s] = step[<<Max(s), it[s \ {Max(s)}]>>]
      BY <1>7, <1>8 DEF Folding
    <2>2. Max(s) \in 1..m
      BY <1>1, <1>8, GreatestIsIn
    <2>3. it[s \ {Max(s)}] \in V
      BY <1>7
    <2> QED
      BY <1>4, <2>1, <2>2, <2>3
  <1>9. Is(it)
    <2>1. it[{}] = Head(lines)
      BY <1>7 DEF Folding
    <2> QED
      BY <1>1, <1>7, <1>8, <2>1
  <1>10. PICK c : c = CHOOSE it0 : Is(it0)
    OBVIOUS
  <1>11. Is(c)
    BY <1>9, <1>10, Zenon
  <1>12. JoinLines(lines) = c[1..m]
    <2>1. JoinLines(lines) = c[DOMAIN Tail(lines)]
      BY <1>10, Zenon DEF JoinLine, JoinLines, FoldLeft, MapThenFoldSet
    <2> QED
      BY <1>1, <2>1
  <1>13. Recurs(c, m, V, Head(lines), step)
    <2>1. c[{}] = Head(lines)
      BY <1>11
    <2>2. ASSUME NEW s \in SUBSET (1..m), s # {}, c[s \ {Max(s)}] \in V
          PROVE  c[s] = step[<<Max(s), c[s \ {Max(s)}]>>]
      <3>1. c[s] = JoinLine(lines, Max(s), c[s \ {Max(s)}])
        BY <1>1, <1>11, <2>2
      <3>2. Max(s) \in 1..m
        BY <1>1, <2>2, GreatestIsIn
      <3> QED
        BY <1>4, <2>2, <3>1, <3>2
    <2> QED
      BY <2>1, <2>2 DEF Recurs
  <1>14. Computes(V, m, Head(lines), step, c[1..m])
    BY <1>1, <1>5, <1>6, <1>13, FoldComputes
  <1> QED
    BY <1>2, <1>3, <1>12, <1>14

LEMMA JoinedIsText ==
  ASSUME NEW lines \in Seq(Seq(Char))
  PROVE  JoinLines(lines) \in Seq(Char)
  <1>1. CASE lines = <<>>
    <2>1. JoinLines(lines) = <<>>
      BY <1>1 DEF JoinLines
    <2> QED
      BY <2>1
  <1>2. CASE lines # <<>>
    <2>1. Len(lines) - 1 \in Nat
      BY <1>2
    <2> QED
      BY <1>2, <2>1, JoinFold, ComputedInside
  <1> QED
    BY <1>1, <1>2

LEMMA BlocksAreTexts ==
  ASSUME NEW body \in Body
  PROVE  OldBlock(body) \in Seq(Char) /\ NewBlock(body) \in Seq(Char)
  <1>1. ASSUME NEW marks PROVE Texts(body, marks) \in Seq(Seq(Char))
    <2>1. Len(body) \in Nat
      BY DEF Body
    <2> QED
      BY <2>1, TextsFold, ComputedInside
  <1> QED
    BY <1>1, JoinedIsText DEF OldBlock, NewBlock

LEMMA HunkOfText ==
  ASSUME NEW text \in Seq(Char), NEW body \in Body
  PROVE  ApplyHunk(text, body) \subseteq Seq(Char)
  <1>1. ASSUME NEW i \in Places(text, OldBlock(body))
        PROVE  Replace(text, i, OldBlock(body), NewBlock(body)) \in Seq(Char)
    <2>1. i \in 1..Len(text) /\ Len(OldBlock(body)) \in Nat
      BY BlocksAreTexts DEF Places
    <2>2. SubSeq(text, 1, i - 1) \in Seq(Char) /\ SubSeq(text, i + Len(OldBlock(body)), Len(text)) \in Seq(Char)
      BY <2>1
    <2> QED
      BY <2>2, BlocksAreTexts DEF Replace
  <1> QED
    BY <1>1 DEF ApplyHunk, CountedOnce

LEMMA PieceOfText ==
  ASSUME NEW text \in Seq(Char), NEW hunks \in Seq(Body), NEW place, DOMAIN place \subseteq 1..Len(hunks),
         NEW at \in 1..Len(text)
  PROVE  Piece(text, hunks, place, at) \in Seq(Char)
  <1>1. CASE \E i \in DOMAIN place : place[i] = at
    <2>1. PICK i : i = CHOOSE j \in DOMAIN place : place[j] = at
      OBVIOUS
    <2>2. i \in 1..Len(hunks)
      BY <1>1, <2>1
    <2>3. hunks[i] \in Body
      BY <2>2, ElementOf
    <2> QED
      BY <1>1, <2>1, <2>3, BlocksAreTexts DEF Piece
  <1>2. CASE ~ \E i \in DOMAIN place : place[i] = at
    <2>1. <<text[at]>> \in Seq(Char) /\ <<>> \in Seq(Char)
      OBVIOUS
    <2> QED
      BY <1>2, <2>1 DEF Piece
  <1> QED
    BY <1>1, <1>2

TryHunk(hunks, n, texts) == UNION {ApplyHunk(t, hunks[n]) : t \in texts}

\* The texts after each hunk.
LEMMA HunksFold ==
  ASSUME NEW text \in Seq(Char), NEW hunks \in Seq(Body)
  PROVE  Computes(SUBSET Seq(Char), Len(hunks), {text},
              [p \in (1..Len(hunks)) \X SUBSET Seq(Char) |-> TryHunk(hunks, p[1], p[2])],
              ApplyHunks(text, hunks))
  <1> DEFINE m == Len(hunks)
             Is(it) == it = [s \in SUBSET DOMAIN hunks |->
                               IF s = {} THEN {text}
                               ELSE TryHunk(hunks, Max(s), it[s \ {Max(s)}])]
  <1>1. m \in Nat /\ DOMAIN hunks = 1..m
    OBVIOUS
  <1>2. PICK V : V = SUBSET Seq(Char)
    OBVIOUS
  <1>3. PICK step : step = [p \in (1..m) \X V |-> TryHunk(hunks, p[1], p[2])]
    OBVIOUS
  <1>4. ASSUME NEW n \in 1..m, NEW v \in V
        PROVE  step[<<n, v>>] = TryHunk(hunks, n, v) /\ step[<<n, v>>] \in V
    <2>1. step[<<n, v>>] = TryHunk(hunks, n, v)
      BY <1>3
    <2> QED
      <3>1. hunks[n] \in Body
        BY ElementOf
      <3>2. \A t \in v : ApplyHunk(t, hunks[n]) \subseteq Seq(Char)
        BY <1>2, <3>1, HunkOfText
      <3> QED
        BY <1>2, <2>1, <3>2 DEF TryHunk
  <1>5. step \in Steps(m, V)
    BY <1>3, <1>4 DEF Steps
  <1>6. {text} \in V
    BY <1>2
  <1>7. PICK it \in [SUBSET (1..m) -> V] : Folding(it, m, {text}, step)
    BY <1>1, <1>5, <1>6, FoldsExist DEF HasFold
  <1>8. ASSUME NEW s \in SUBSET (1..m), s # {}
        PROVE  it[s] = TryHunk(hunks, Max(s), it[s \ {Max(s)}])
    <2>1. it[s] = step[<<Max(s), it[s \ {Max(s)}]>>]
      BY <1>7, <1>8 DEF Folding
    <2>2. Max(s) \in 1..m
      BY <1>1, <1>8, GreatestIsIn
    <2>3. it[s \ {Max(s)}] \in V
      BY <1>7
    <2> QED
      BY <1>4, <2>1, <2>2, <2>3
  <1>9. Is(it)
    <2>1. it[{}] = {text}
      BY <1>7 DEF Folding
    <2> QED
      BY <1>1, <1>7, <1>8, <2>1
  <1>10. PICK c : c = CHOOSE it0 : Is(it0)
    OBVIOUS
  <1>11. Is(c)
    BY <1>9, <1>10, Zenon
  <1>12. ApplyHunks(text, hunks) = c[1..m]
    <2>1. ApplyHunks(text, hunks) = c[DOMAIN hunks]
      BY <1>10, Zenon DEF TryHunk, ApplyHunks, FoldLeft, MapThenFoldSet
    <2> QED
      BY <1>1, <2>1
  <1>13. Recurs(c, m, V, {text}, step)
    <2>1. c[{}] = {text}
      BY <1>11
    <2>2. ASSUME NEW s \in SUBSET (1..m), s # {}, c[s \ {Max(s)}] \in V
          PROVE  c[s] = step[<<Max(s), c[s \ {Max(s)}]>>]
      <3>1. c[s] = TryHunk(hunks, Max(s), c[s \ {Max(s)}])
        BY <1>1, <1>11, <2>2
      <3>2. Max(s) \in 1..m
        BY <1>1, <2>2, GreatestIsIn
      <3> QED
        BY <1>4, <2>2, <3>1, <3>2
    <2> QED
      BY <2>1, <2>2 DEF Recurs
  <1>14. Computes(V, m, {text}, step, c[1..m])
    BY <1>1, <1>5, <1>6, <1>13, FoldComputes
  <1> QED
    BY <1>2, <1>3, <1>12, <1>14

LEMMA HunksAreTexts ==
  ASSUME NEW text \in Seq(Char), NEW hunks \in Seq(Body)
  PROVE  ApplyHunks(text, hunks) \subseteq Seq(Char)
  <1>1. Len(hunks) \in Nat
    OBVIOUS
  <1> QED
    BY <1>1, HunksFold, ComputedInside

AddPiece(text, hunks, place, n, made) == made \o Piece(text, hunks, place, Numbers(text)[n])

\* The rewritten text, letter by letter of the old one.
LEMMA RewrittenFold ==
  ASSUME NEW text \in Seq(Char), NEW hunks \in Seq(Body), NEW place, DOMAIN place \subseteq 1..Len(hunks)
  PROVE  Computes(Seq(Char), Len(text), <<>>,
              [p \in (1..Len(text)) \X Seq(Char) |-> AddPiece(text, hunks, place, p[1], p[2])],
              Rewritten(text, hunks, place))
  <1> DEFINE m == Len(text)
             Is(it) == it = [s \in SUBSET DOMAIN Numbers(text) |->
                               IF s = {} THEN <<>>
                               ELSE AddPiece(text, hunks, place, Max(s), it[s \ {Max(s)}])]
  <1>1. m \in Nat /\ DOMAIN Numbers(text) = 1..m
    BY DEF Numbers
  <1>2. PICK V : V = Seq(Char)
    OBVIOUS
  <1>3. PICK step : step = [p \in (1..m) \X V |-> AddPiece(text, hunks, place, p[1], p[2])]
    OBVIOUS
  <1>4. ASSUME NEW n \in 1..m, NEW v \in V
        PROVE  step[<<n, v>>] = AddPiece(text, hunks, place, n, v) /\ step[<<n, v>>] \in V
    <2>1. step[<<n, v>>] = AddPiece(text, hunks, place, n, v)
      BY <1>3
    <2> QED
      <3>1. Numbers(text)[n] = n
        BY DEF Numbers
      <3>2. Piece(text, hunks, place, n) \in Seq(Char)
        BY PieceOfText
      <3>3. v \o Piece(text, hunks, place, n) \in Seq(Char)
        BY <1>2, <3>2
      <3> QED
        BY <1>2, <2>1, <3>1, <3>3 DEF AddPiece
  <1>5. step \in Steps(m, V)
    BY <1>3, <1>4 DEF Steps
  <1>6. <<>> \in V
    BY <1>2
  <1>7. PICK it \in [SUBSET (1..m) -> V] : Folding(it, m, <<>>, step)
    BY <1>1, <1>5, <1>6, FoldsExist DEF HasFold
  <1>8. ASSUME NEW s \in SUBSET (1..m), s # {}
        PROVE  it[s] = AddPiece(text, hunks, place, Max(s), it[s \ {Max(s)}])
    <2>1. it[s] = step[<<Max(s), it[s \ {Max(s)}]>>]
      BY <1>7, <1>8 DEF Folding
    <2>2. Max(s) \in 1..m
      BY <1>1, <1>8, GreatestIsIn
    <2>3. it[s \ {Max(s)}] \in V
      BY <1>7
    <2> QED
      BY <1>4, <2>1, <2>2, <2>3
  <1>9. Is(it)
    <2>1. it[{}] = <<>>
      BY <1>7 DEF Folding
    <2> QED
      BY <1>1, <1>7, <1>8, <2>1
  <1>10. PICK c : c = CHOOSE it0 : Is(it0)
    OBVIOUS
  <1>11. Is(c)
    BY <1>9, <1>10, Zenon
  <1>12. Rewritten(text, hunks, place) = c[1..m]
    <2>1. Rewritten(text, hunks, place) = c[DOMAIN Numbers(text)]
      BY <1>10, Zenon DEF AddPiece, Numbers, Rewritten, FoldLeftDomain, FoldLeft, MapThenFoldSet
    <2> QED
      BY <1>1, <2>1
  <1>13. Recurs(c, m, V, <<>>, step)
    <2>1. c[{}] = <<>>
      BY <1>11
    <2>2. ASSUME NEW s \in SUBSET (1..m), s # {}, c[s \ {Max(s)}] \in V
          PROVE  c[s] = step[<<Max(s), c[s \ {Max(s)}]>>]
      <3>1. c[s] = AddPiece(text, hunks, place, Max(s), c[s \ {Max(s)}])
        BY <1>1, <1>11, <2>2
      <3>2. Max(s) \in 1..m
        BY <1>1, <2>2, GreatestIsIn
      <3> QED
        BY <1>4, <2>2, <3>1, <3>2
    <2> QED
      BY <2>1, <2>2 DEF Recurs
  <1>14. Computes(V, m, <<>>, step, c[1..m])
    BY <1>1, <1>5, <1>6, <1>13, FoldComputes
  <1> QED
    BY <1>2, <1>3, <1>12, <1>14

-----------------------------------------------------------------------------
(* Texts made piece by piece. *)

LEMMA SameSequence ==
  ASSUME NEW S, NEW s \in Seq(S), NEW t \in Seq(S), Len(s) = Len(t), \A i \in 1..Len(s) : s[i] = t[i]
  PROVE  s = t
  OBVIOUS

Cat(a, b) == a \o b

LEMMA CatTyped == \A a, b \in Seq(Char) : Cat(a, b) \in Seq(Char)
  BY DEF Cat

LEMMA CatEmpty == \A a \in Seq(Char) : Cat(a, <<>>) = a /\ Cat(<<>>, a) = a
  <1>1. ASSUME NEW a \in Seq(Char) PROVE Cat(a, <<>>) = a
    BY DEF Cat
  <1>2. ASSUME NEW a \in Seq(Char) PROVE Cat(<<>>, a) = a
    BY DEF Cat
  <1> QED
    BY <1>1, <1>2

Joined(a, b, t) ==
  /\ t \in Seq(Char) /\ Len(t) = Len(a) + Len(b) /\ Len(a) \in Nat /\ Len(b) \in Nat
  /\ \A i \in 1..Len(a) : t[i] = a[i]
  /\ \A i \in 1..Len(b) : t[Len(a) + i] = b[i]

LEMMA CatParts ==
  ASSUME NEW a \in Seq(Char), NEW b \in Seq(Char), NEW t, t = Cat(a, b)
  PROVE  Joined(a, b, t)
  <1>1. t = a \o b
    BY DEF Cat
  <1>2. t \in Seq(Char) /\ Len(t) = Len(a) + Len(b) /\ Len(a) \in Nat /\ Len(b) \in Nat
    BY <1>1
  <1>3. \A i \in 1..Len(a) : t[i] = a[i]
    BY <1>1
  <1>4. \A i \in 1..Len(b) : t[Len(a) + i] = b[i]
    BY <1>1
  <1> QED
    BY <1>2, <1>3, <1>4 DEF Joined

LEMMA CatAssoc ==
  ASSUME NEW a \in Seq(Char), NEW b \in Seq(Char), NEW c \in Seq(Char)
  PROVE  Cat(Cat(a, b), c) = Cat(a, Cat(b, c))
  <1>1. PICK ab \in Seq(Char) : ab = Cat(a, b)
    BY CatTyped
  <1>2. PICK bc \in Seq(Char) : bc = Cat(b, c)
    BY CatTyped
  <1>3. PICK t \in Seq(Char) : t = Cat(ab, c)
    BY CatTyped
  <1>4. PICK u \in Seq(Char) : u = Cat(a, bc)
    BY CatTyped
  <1>5. Joined(a, b, ab) /\ Joined(b, c, bc) /\ Joined(ab, c, t) /\ Joined(a, bc, u)
    BY <1>1, <1>2, <1>3, <1>4, CatParts
  <1>6. /\ Len(ab) = Len(a) + Len(b) /\ Len(bc) = Len(b) + Len(c)
        /\ Len(t) = Len(ab) + Len(c) /\ Len(u) = Len(a) + Len(bc)
        /\ Len(a) \in Nat /\ Len(b) \in Nat /\ Len(c) \in Nat
    BY <1>5 DEF Joined
  <1>7. ASSUME NEW i \in 1..Len(t) PROVE t[i] = u[i]
    <2>1. CASE i <= Len(a)
      <3>1. i \in 1..Len(a) /\ i \in 1..Len(ab)
        BY <1>6, <2>1
      <3> QED
        BY <1>5, <3>1 DEF Joined
    <2>2. CASE Len(a) < i /\ i <= Len(ab)
      <3>1. PICK x : x = i - Len(a)
        OBVIOUS
      <3>2. x \in 1..Len(b) /\ x \in 1..Len(bc) /\ i \in 1..Len(ab) /\ i = Len(a) + x
        BY <1>6, <2>2, <3>1
      <3>3. t[i] = ab[i] /\ ab[Len(a) + x] = b[x]
        BY <1>5, <3>2 DEF Joined
      <3>4. u[Len(a) + x] = bc[x] /\ bc[x] = b[x]
        BY <1>5, <3>2 DEF Joined
      <3> QED
        BY <3>2, <3>3, <3>4
    <2>3. CASE Len(ab) < i
      <3>1. PICK x : x = i - Len(ab)
        OBVIOUS
      <3>2. x \in 1..Len(c) /\ Len(b) + x \in 1..Len(bc) /\ i = Len(ab) + x /\ i = Len(a) + (Len(b) + x)
        BY <1>6, <2>3, <3>1
      <3>3. t[Len(ab) + x] = c[x]
        BY <1>5, <3>2 DEF Joined
      <3>4. u[Len(a) + (Len(b) + x)] = bc[Len(b) + x] /\ bc[Len(b) + x] = c[x]
        BY <1>5, <3>2 DEF Joined
      <3> QED
        BY <3>2, <3>3, <3>4
    <2> QED
      BY <1>6, <2>1, <2>2, <2>3
  <1>8. Len(t) = Len(u)
    BY <1>6
  <1>9. t = u
    BY <1>7, <1>8, SameSequence
  <1> QED
    BY <1>1, <1>2, <1>3, <1>4, <1>9

LEMMA CatTake ==
  ASSUME NEW s \in Seq(Char), NEW n \in Nat, n < Len(s)
  PROVE  Cat(SubSeq(s, 1, n), <<s[n + 1]>>) = SubSeq(s, 1, n + 1)
  <1>1. Len(s) \in Nat /\ n + 1 \in 1..Len(s)
    OBVIOUS
  <1>2. PICK a : a = SubSeq(s, 1, n)
    OBVIOUS
  <1>3. a \in Seq(Char) /\ Len(a) = n /\ \A i \in 1..n : a[i] = s[i]
    BY <1>1, <1>2
  <1>4. PICK b : b = <<s[n + 1]>>
    OBVIOUS
  <1>5. b \in Seq(Char) /\ Len(b) = 1 /\ b[1] = s[n + 1]
    <2>1. s[n + 1] \in Char
      BY <1>1, ElementOf
    <2> QED
      BY <1>4, <2>1
  <1>6. PICK c : c = SubSeq(s, 1, n + 1)
    OBVIOUS
  <1>7. c \in Seq(Char) /\ Len(c) = n + 1 /\ \A i \in 1..(n + 1) : c[i] = s[i]
    BY <1>1, <1>6
  <1>8. PICK d \in Seq(Char) : d = Cat(a, b)
    BY <1>3, <1>5, CatTyped
  <1>9. Len(d) = n + 1 /\ (\A i \in 1..n : d[i] = a[i]) /\ d[n + 1] = b[1]
    <2>1. /\ Len(d) = Len(a) + Len(b) /\ (\A i \in 1..Len(a) : d[i] = a[i])
          /\ (\A i \in 1..Len(b) : d[Len(a) + i] = b[i])
      <3>1. Joined(a, b, d)
        BY <1>3, <1>5, <1>8, CatParts
      <3> QED
        BY <3>1 DEF Joined
    <2>2. 1 \in 1..Len(b)
      BY <1>5
    <2> QED
      BY <1>3, <1>5, <2>1, <2>2
  <1>10. \A i \in 1..(n + 1) : d[i] = c[i]
    <2> SUFFICES ASSUME NEW i \in 1..(n + 1) PROVE d[i] = c[i]
      OBVIOUS
    <2>1. CASE i \in 1..n
      BY <1>3, <1>7, <1>9, <2>1
    <2>2. CASE i = n + 1
      BY <1>5, <1>7, <1>9, <2>2
    <2> QED
      BY <2>1, <2>2
  <1>11. d = c
    BY <1>7, <1>9, <1>10, SameSequence
  <1> QED
    BY <1>2, <1>4, <1>6, <1>8, <1>11

-----------------------------------------------------------------------------
(* Hunks in their places. *)

Three(a, b, c) == Cat(Cat(a, b), c)

Parted(a, b, c, t) ==
  /\ t \in Seq(Char) /\ Len(t) = Len(a) + Len(b) + Len(c)
  /\ Len(a) \in Nat /\ Len(b) \in Nat /\ Len(c) \in Nat
  /\ \A i \in 1..Len(a) : t[i] = a[i]
  /\ \A i \in 1..Len(b) : t[Len(a) + i] = b[i]
  /\ \A i \in 1..Len(c) : t[Len(a) + Len(b) + i] = c[i]

LEMMA ThreeParts ==
  ASSUME NEW a \in Seq(Char), NEW b \in Seq(Char), NEW c \in Seq(Char), NEW t, t = Three(a, b, c)
  PROVE  Parted(a, b, c, t)
  <1>1. PICK ab \in Seq(Char) : ab = Cat(a, b)
    BY CatTyped
  <1>2. Joined(a, b, ab) /\ Joined(ab, c, t)
    BY <1>1, CatParts DEF Three
  <1>3. /\ t \in Seq(Char) /\ Len(t) = Len(ab) + Len(c) /\ Len(ab) = Len(a) + Len(b)
        /\ Len(a) \in Nat /\ Len(b) \in Nat /\ Len(c) \in Nat
    BY <1>2 DEF Joined
  <1>4. ASSUME NEW i \in 1..Len(a) PROVE t[i] = a[i]
    <2>1. i \in 1..Len(ab)
      BY <1>3
    <2> QED
      BY <1>2, <2>1 DEF Joined
  <1>5. ASSUME NEW i \in 1..Len(b) PROVE t[Len(a) + i] = b[i]
    <2>1. Len(a) + i \in 1..Len(ab)
      BY <1>3
    <2> QED
      BY <1>2, <2>1 DEF Joined
  <1>6. ASSUME NEW i \in 1..Len(c) PROVE t[Len(a) + Len(b) + i] = c[i]
    <2>1. t[Len(ab) + i] = c[i]
      BY <1>2 DEF Joined
    <2> QED
      BY <1>3, <2>1
  <1> QED
    BY <1>3, <1>4, <1>5, <1>6 DEF Parted

\* A block is where it was put.
LEMMA OwnPlace ==
  ASSUME NEW prefix \in Seq(Char), NEW block \in Seq(Char), NEW rest \in Seq(Char), block # <<>>
  PROVE  Len(prefix) + 1 \in Places(Three(prefix, block, rest), block)
  <1>1. PICK t : t = Three(prefix, block, rest)
    OBVIOUS
  <1>2. /\ t \in Seq(Char) /\ Len(t) = Len(prefix) + Len(block) + Len(rest)
        /\ Len(prefix) \in Nat /\ Len(block) \in Nat /\ Len(rest) \in Nat
        /\ \A i \in 1..Len(block) : t[Len(prefix) + i] = block[i]
    <2>1. Parted(prefix, block, rest, t)
      BY <1>1, ThreeParts
    <2> QED
      BY <2>1 DEF Parted
  <1>3. Len(block) > 0
    BY <1>2
  <1>4. PICK part : part = SubSeq(t, Len(prefix) + 1, Len(prefix) + Len(block))
    OBVIOUS
  <1>5. /\ part \in Seq(Char) /\ Len(part) = Len(block)
        /\ \A i \in 1..Len(block) : part[i] = t[Len(prefix) + i]
    BY <1>2, <1>3, <1>4
  <1>6. part = block
    BY <1>2, <1>5, SameSequence
  <1>7. /\ Len(prefix) + 1 \in 1..Len(t) /\ (Len(prefix) + 1) + Len(block) <= Len(t) + 1
        /\ (Len(prefix) + 1) + Len(block) - 1 = Len(prefix) + Len(block)
    BY <1>2, <1>3
  <1> QED
    BY <1>1, <1>4, <1>6, <1>7 DEF Places

\* Two places of a block that are less than its length apart overlap.
LEMMA CloseOverlap ==
  ASSUME NEW S, NEW text \in Seq(S), NEW block \in Seq(S),
         NEW i \in Places(text, block), NEW j \in Places(text, block),
         i < j, j < i + Len(block)
  PROVE  Overlaps(block)
  <1>1. /\ i \in Nat /\ j \in Nat /\ Len(block) \in Nat /\ Len(text) \in Nat /\ i >= 1
        /\ i + Len(block) <= Len(text) + 1 /\ j + Len(block) <= Len(text) + 1
    BY DEF Places
  <1>2. ASSUME NEW k \in Places(text, block), NEW x \in 1..Len(block)
        PROVE  text[k + x - 1] = block[x]
    <2>1. /\ k \in 1..Len(text) /\ k + Len(block) <= Len(text) + 1
          /\ SubSeq(text, k, k + Len(block) - 1) = block
      BY DEF Places
    <2>2. SubSeq(text, k, k + Len(block) - 1)[x] = text[k + x - 1]
      BY <1>1, <2>1
    <2> QED
      BY <2>1, <2>2
  <1>3. PICK d : d = j - i
    OBVIOUS
  <1>4. PICK n : n = Len(block) - d
    OBVIOUS
  <1>5. d \in Nat /\ n \in 1..(Len(block) - 1) /\ Len(block) - n + 1 = d + 1 /\ j = i + d
    BY <1>1, <1>3, <1>4
  <1>6. ASSUME NEW x \in 1..n PROVE block[x] = block[d + x]
    <2>1. x \in 1..Len(block) /\ d + x \in 1..Len(block)
      BY <1>1, <1>4, <1>5
    <2>2. text[j + x - 1] = block[x] /\ text[i + (d + x) - 1] = block[d + x]
      BY <1>2, <2>1
    <2>3. j + x - 1 = i + (d + x) - 1
      BY <1>1, <1>5
    <2> QED
      BY <2>2, <2>3
  <1>7. PICK a : a = SubSeq(block, 1, n)
    OBVIOUS
  <1>8. PICK b : b = SubSeq(block, d + 1, Len(block))
    OBVIOUS
  <1>9. a \in Seq(S) /\ Len(a) = n /\ \A x \in 1..n : a[x] = block[x]
    BY <1>1, <1>5, <1>7
  <1>10. b \in Seq(S) /\ Len(b) = n /\ \A x \in 1..n : b[x] = block[d + x]
    BY <1>1, <1>4, <1>5, <1>8
  <1>11. a = b
    BY <1>6, <1>9, <1>10, SameSequence
  <1> QED
    BY <1>5, <1>7, <1>8, <1>11 DEF Overlaps

\* Replacing a block where it was put.
LEMMA ReplacedThere ==
  ASSUME NEW prefix \in Seq(Char), NEW old \in Seq(Char), NEW new \in Seq(Char), NEW rest \in Seq(Char),
         NEW t, t = Three(prefix, old, rest), NEW at, at = Len(prefix) + 1,
         NEW done, done = Three(prefix, new, rest)
  PROVE  Replace(t, at, old, new) = done
  <1>1. /\ t \in Seq(Char) /\ Len(t) = Len(prefix) + Len(old) + Len(rest)
        /\ Len(prefix) \in Nat /\ Len(old) \in Nat /\ Len(rest) \in Nat
        /\ \A i \in 1..Len(prefix) : t[i] = prefix[i]
        /\ \A i \in 1..Len(rest) : t[Len(prefix) + Len(old) + i] = rest[i]
    <2>1. Parted(prefix, old, rest, t)
      BY ThreeParts
    <2> QED
      BY <2>1 DEF Parted
  <1>2. PICK a : a = SubSeq(t, 1, Len(prefix))
    OBVIOUS
  <1>3. PICK c : c = SubSeq(t, Len(prefix) + 1 + Len(old), Len(t))
    OBVIOUS
  <1>4. a \in Seq(Char) /\ Len(a) = Len(prefix) /\ \A i \in 1..Len(prefix) : a[i] = t[i]
    BY <1>1, <1>2
  <1>5. c \in Seq(Char) /\ Len(c) = Len(rest) /\ \A i \in 1..Len(rest) : c[i] = t[Len(prefix) + Len(old) + i]
    BY <1>1, <1>3
  <1>6. a = prefix /\ c = rest
    BY <1>1, <1>4, <1>5, SameSequence
  <1>7. (Len(prefix) + 1) - 1 = Len(prefix)
    BY <1>1
  <1> QED
    BY <1>2, <1>3, <1>6, <1>7 DEF Replace, Three, Cat

\* A hunk whose old block, one that does not overlap itself, is somewhere is applied there or
\* refused.
LEMMA HunkInPlace ==
  ASSUME NEW body \in Body, NEW prefix \in Seq(Char), NEW rest \in Seq(Char),
         ~Overlaps(OldBlock(body))
  PROVE  ApplyHunk(Three(prefix, OldBlock(body), rest), body) \subseteq {Three(prefix, NewBlock(body), rest)}
  <1>1. PICK old \in Seq(Char) : old = OldBlock(body)
    BY BlocksAreTexts
  <1>2. PICK text : text = Three(prefix, old, rest)
    OBVIOUS
  <1>3. text \in Seq(Char)
    <2>1. Parted(prefix, old, rest, text)
      BY <1>2, ThreeParts
    <2> QED
      BY <2>1 DEF Parted
  <1> SUFFICES ASSUME old # <<>>, NEW i \in CountedOnce(text, old)
               PROVE  Replace(text, i, old, NewBlock(body)) = Three(prefix, NewBlock(body), rest)
    BY <1>1, <1>2 DEF ApplyHunk
  <1>4. PICK j : j = Len(prefix) + 1
    OBVIOUS
  <1>5. j \in Places(text, old)
    BY <1>2, <1>4, OwnPlace
  <1>6. i \in Places(text, old) /\ i <= j /\ j < i + Len(old)
    BY <1>5 DEF CountedOnce
  <1>7. ~(i < j)
    BY <1>1, <1>3, <1>5, <1>6, CloseOverlap
  <1>8. i = j
    BY <1>5, <1>6, <1>7 DEF Places
  <1>9. PICK new \in Seq(Char) : new = NewBlock(body)
    BY BlocksAreTexts
  <1>10. PICK done : done = Three(prefix, new, rest)
    OBVIOUS
  <1>11. Replace(text, j, old, new) = done
    BY <1>2, <1>4, <1>10, ReplacedThere
  <1> QED
    BY <1>8, <1>9, <1>10, <1>11

-----------------------------------------------------------------------------
(* Two texts, made of the same pieces but for one block. *)

Made(f, m, pieces) ==
  /\ f \in [0..m -> Seq(Char)] /\ f[0] = <<>>
  /\ \A n \in 1..m : pieces[n] \in Seq(Char) /\ f[n] = Cat(f[n - 1], pieces[n])

DifferInBlock(m, a, old, new, A, B) ==
  /\ \A n \in 1..m : n < a \/ n >= a + Len(old) => A[n] = B[n]
  /\ \A n \in 1..Len(old) : A[a + n - 1] = <<old[n]>>
  /\ B[a] = new
  /\ \A n \in 1..m : a < n /\ n < a + Len(old) => B[n] = <<>>

LEMMA TwoTexts ==
  ASSUME NEW m \in Nat, NEW a \in 1..m, NEW old \in Seq(Char), NEW new \in Seq(Char),
         old # <<>>, a + Len(old) <= m + 1, NEW A, NEW B, DifferInBlock(m, a, old, new, A, B),
         NEW f, NEW g, Made(f, m, A), Made(g, m, B)
  PROVE  \E prefix, rest \in Seq(Char) :
            f[m] = Three(prefix, old, rest) /\ g[m] = Three(prefix, new, rest)
  <1>1. Len(old) \in Nat /\ Len(old) >= 1
    OBVIOUS
  <1>2. /\ \A n \in 0..m : f[n] \in Seq(Char) /\ g[n] \in Seq(Char)
        /\ f[0] = <<>> /\ g[0] = <<>>
    BY DEF Made
  <1>3. \A n \in 1..m : /\ A[n] \in Seq(Char) /\ f[n] = Cat(f[n - 1], A[n])
                        /\ B[n] \in Seq(Char) /\ g[n] = Cat(g[n - 1], B[n])
    BY DEF Made
  <1>4. f[a - 1] = g[a - 1]
    <2>1. PICK P : P = {n \in Nat : n < a => f[n] = g[n]}
      OBVIOUS
    <2>2. 0 \in P
      BY <1>2, <2>1
    <2>3. ASSUME NEW n \in Nat, n \in P PROVE n + 1 \in P
      <3> SUFFICES ASSUME n + 1 < a PROVE f[n + 1] = g[n + 1]
        BY <2>1
      <3>1. PICK k : k = n + 1
        OBVIOUS
      <3>2. k \in 1..m /\ k < a /\ k - 1 = n
        BY <3>1
      <3>3. A[k] = B[k]
        BY <3>2 DEF DifferInBlock
      <3>4. f[n] = g[n]
        BY <2>1, <2>3
      <3>5. f[k] = g[k]
        BY <1>3, <3>2, <3>3, <3>4
      <3> QED
        BY <3>1, <3>5
    <2>4. a - 1 \in P
      BY <2>2, <2>3, AllOfNat
    <2> QED
      BY <2>1, <2>4
  <1>5. PICK prefix \in Seq(Char) : prefix = f[a - 1]
    BY <1>2
  <1>6. PICK last1 \in 1..m : last1 = a + Len(old) - 1
    BY <1>1
  <1>7. f[last1] = Cat(prefix, old)
    <2>1. PICK P : P = {n \in Nat : n <= Len(old) => f[a - 1 + n] = Cat(prefix, SubSeq(old, 1, n))}
      OBVIOUS
    <2>2. 0 \in P
      <3>1. SubSeq(old, 1, 0) = <<>> /\ a - 1 + 0 = a - 1
        OBVIOUS
      <3>2. Cat(prefix, <<>>) = prefix
        BY CatEmpty
      <3> QED
        BY <1>5, <2>1, <3>1, <3>2
    <2>3. ASSUME NEW n \in Nat, n \in P PROVE n + 1 \in P
      <3> SUFFICES ASSUME n + 1 <= Len(old) PROVE f[a - 1 + (n + 1)] = Cat(prefix, SubSeq(old, 1, n + 1))
        BY <2>1
      <3>1. PICK k : k = a + n
        OBVIOUS
      <3>2. k \in 1..m /\ k - 1 = a - 1 + n /\ k = a + (n + 1) - 1 /\ k = a - 1 + (n + 1) /\ n + 1 \in 1..Len(old)
        BY <1>1, <3>1
      <3>3. A[k] = <<old[n + 1]>>
        BY <3>2 DEF DifferInBlock
      <3>4. f[k - 1] = Cat(prefix, SubSeq(old, 1, n))
        <4>1. n <= Len(old)
          BY <1>1
        <4>2. f[a - 1 + n] = Cat(prefix, SubSeq(old, 1, n))
          BY <2>1, <2>3, <4>1
        <4> QED
          BY <3>2, <4>2
      <3>5. PICK s \in Seq(Char) : s = SubSeq(old, 1, n)
        <4>1. n <= Len(old)
          BY <1>1
        <4>2. SubSeq(old, 1, n) \in Seq(Char)
          BY <4>1
        <4> QED
          BY <4>2
      <3>6. PICK c \in Seq(Char) : c = <<old[n + 1]>>
        BY <1>3, <3>2, <3>3
      <3>7. f[k] = Cat(Cat(prefix, s), c)
        BY <1>3, <3>2, <3>3, <3>4, <3>5, <3>6
      <3>8. Cat(Cat(prefix, s), c) = Cat(prefix, Cat(s, c))
        BY CatAssoc
      <3>9. Cat(s, c) = SubSeq(old, 1, n + 1)
        BY <1>1, <3>5, <3>6, CatTake
      <3> QED
        BY <3>2, <3>7, <3>8, <3>9
    <2>4. Len(old) \in P
      BY <1>1, <2>2, <2>3, AllOfNat
    <2>5. SubSeq(old, 1, Len(old)) = old
      OBVIOUS
    <2>6. a - 1 + Len(old) = last1
      BY <1>1, <1>6
    <2>7. f[a - 1 + Len(old)] = Cat(prefix, SubSeq(old, 1, Len(old)))
      BY <1>1, <2>1, <2>4
    <2> QED
      BY <2>5, <2>6, <2>7
  <1>8. g[last1] = Cat(prefix, new)
    <2>1. PICK P : P = {n \in Nat : n < Len(old) => g[a + n] = Cat(prefix, new)}
      OBVIOUS
    <2>2. 0 \in P
      <3>1. g[a] = Cat(g[a - 1], B[a])
        BY <1>3
      <3>2. B[a] = new
        BY DEF DifferInBlock
      <3> QED
        BY <1>4, <1>5, <2>1, <3>1, <3>2
    <2>3. ASSUME NEW n \in Nat, n \in P PROVE n + 1 \in P
      <3> SUFFICES ASSUME n + 1 < Len(old) PROVE g[a + (n + 1)] = Cat(prefix, new)
        BY <2>1
      <3>1. PICK k : k = a + (n + 1)
        OBVIOUS
      <3>2. k \in 1..m /\ k - 1 = a + n /\ a < k /\ k < a + Len(old)
        BY <1>1, <3>1
      <3>3. B[k] = <<>>
        BY <3>2 DEF DifferInBlock
      <3>4. g[k - 1] = Cat(prefix, new)
        BY <1>1, <2>1, <2>3, <3>2
      <3>5. g[k] = Cat(g[k - 1], <<>>)
        BY <1>3, <3>2, <3>3
      <3>6. Cat(Cat(prefix, new), <<>>) = Cat(prefix, new)
        BY CatEmpty, CatTyped
      <3> QED
        BY <3>1, <3>4, <3>5, <3>6
    <2>4. PICK n : n = Len(old) - 1
      OBVIOUS
    <2>5. n \in Nat /\ n < Len(old) /\ a + n = last1
      BY <1>1, <1>6, <2>4
    <2>6. n \in P
      BY <2>2, <2>3, <2>5, AllOfNat
    <2> QED
      BY <2>1, <2>5, <2>6
  <1>9. PICK Q : Q = {n \in Nat : last1 + n <= m => \E rest \in Seq(Char) :
                        f[last1 + n] = Three(prefix, old, rest) /\ g[last1 + n] = Three(prefix, new, rest)}
    OBVIOUS
  <1>10. 0 \in Q
    <2>1. <<>> \in Seq(Char)
      OBVIOUS
    <2>2. Three(prefix, old, <<>>) = Cat(prefix, old) /\ Three(prefix, new, <<>>) = Cat(prefix, new)
      BY CatTyped, CatEmpty DEF Three
    <2>3. last1 + 0 = last1
      BY <1>6
    <2> QED
      BY <1>7, <1>8, <1>9, <2>1, <2>2, <2>3
  <1>11. ASSUME NEW n \in Nat, n \in Q PROVE n + 1 \in Q
    <2> SUFFICES ASSUME last1 + (n + 1) <= m
                 PROVE  \E rest \in Seq(Char) :
                           /\ f[last1 + (n + 1)] = Three(prefix, old, rest)
                           /\ g[last1 + (n + 1)] = Three(prefix, new, rest)
      BY <1>9
    <2>1. PICK k : k = last1 + (n + 1)
      OBVIOUS
    <2>2. k \in 1..m /\ k - 1 = last1 + n /\ k >= a + Len(old) /\ last1 + n <= m
      BY <1>1, <1>6, <2>1
    <2>3. PICK rest \in Seq(Char) : f[k - 1] = Three(prefix, old, rest) /\ g[k - 1] = Three(prefix, new, rest)
      BY <1>9, <1>11, <2>2
    <2>4. A[k] = B[k]
      BY <2>2 DEF DifferInBlock
    <2>5. PICK c \in Seq(Char) : c = A[k]
      BY <1>3, <2>2
    <2>6. f[k] = Cat(Three(prefix, old, rest), c) /\ g[k] = Cat(Three(prefix, new, rest), c)
      BY <1>3, <2>2, <2>3, <2>4, <2>5
    <2>7. ASSUME NEW b \in Seq(Char) PROVE Cat(Three(prefix, b, rest), c) = Three(prefix, b, Cat(rest, c))
      <3>1. PICK pb \in Seq(Char) : pb = Cat(prefix, b)
        BY CatTyped
      <3>2. Cat(Cat(pb, rest), c) = Cat(pb, Cat(rest, c))
        BY CatAssoc
      <3> QED
        BY <3>1, <3>2 DEF Three
    <2>8. Cat(rest, c) \in Seq(Char)
      BY CatTyped
    <2> QED
      BY <2>1, <2>6, <2>7, <2>8
  <1>12. PICK n : n = m - last1
    OBVIOUS
  <1>13. n \in Nat /\ last1 + n = m /\ last1 + n <= m
    BY <1>12
  <1>14. n \in Q
    BY <1>10, <1>11, <1>13, AllOfNat
  <1>15. \E rest \in Seq(Char) : f[last1 + n] = Three(prefix, old, rest) /\ g[last1 + n] = Three(prefix, new, rest)
    BY <1>9, <1>13, <1>14
  <1>16. \E rest \in Seq(Char) : f[m] = Three(prefix, old, rest) /\ g[m] = Three(prefix, new, rest)
    BY <1>13, <1>15
  <1> QED
    BY <1>16

-----------------------------------------------------------------------------
(* What a diff means, one hunk after the other. *)

Placed(text, hunks, place) ==
  /\ place \in [1..Len(hunks) -> 1..Len(text)]
  /\ \A i \in 1..Len(hunks) : Places(text, OldBlock(hunks[i])) = {place[i]}
  /\ \A i, j \in 1..Len(hunks) :
        i # j => \/ place[i] + Len(OldBlock(hunks[i])) <= place[j]
                 \/ place[j] + Len(OldBlock(hunks[j])) <= place[i]

First(place, k) == [i \in 1..k |-> place[i]]

LEMMA MeantIsPlaced ==
  ASSUME NEW text \in Seq(Char), NEW hunks \in Seq(Body), NEW meant \in Meant(text, hunks)
  PROVE  \E place : Placed(text, hunks, place) /\ meant = Rewritten(text, hunks, place)
  <1>1. PICK place : place = [i \in DOMAIN hunks |->
                                CHOOSE at \in 1..Len(text) : Places(text, OldBlock(hunks[i])) = {at}]
    OBVIOUS
  <1>2. /\ \A i \in DOMAIN hunks : \E at \in 1..Len(text) : Places(text, OldBlock(hunks[i])) = {at}
        /\ \A i, j \in DOMAIN hunks :
              i # j => \/ place[i] + Len(OldBlock(hunks[i])) <= place[j]
                       \/ place[j] + Len(OldBlock(hunks[j])) <= place[i]
        /\ meant = Rewritten(text, hunks, place)
    BY <1>1 DEF Meant
  <1>3. DOMAIN hunks = 1..Len(hunks)
    OBVIOUS
  <1>4. ASSUME NEW i \in 1..Len(hunks)
        PROVE  place[i] \in 1..Len(text) /\ Places(text, OldBlock(hunks[i])) = {place[i]}
    BY <1>1, <1>2, <1>3
  <1>5. place \in [1..Len(hunks) -> 1..Len(text)]
    BY <1>1, <1>3, <1>4
  <1>6. Placed(text, hunks, place)
    BY <1>2, <1>3, <1>4, <1>5 DEF Placed
  <1> QED
    BY <1>2, <1>6

\* The piece at a place, in each of the three cases.
LEMMA PieceCases ==
  ASSUME NEW text, NEW hunks, NEW place, NEW at
  PROVE  /\ \A i \in DOMAIN place :
               place[i] = at /\ (\A j \in DOMAIN place : place[j] = at => j = i)
                 => Piece(text, hunks, place, at) = NewBlock(hunks[i])
         /\ (\A i \in DOMAIN place : place[i] # at) =>
               \/ /\ \E i \in DOMAIN place : place[i] < at /\ at < place[i] + Len(OldBlock(hunks[i]))
                  /\ Piece(text, hunks, place, at) = <<>>
               \/ /\ ~ \E i \in DOMAIN place : place[i] < at /\ at < place[i] + Len(OldBlock(hunks[i]))
                  /\ Piece(text, hunks, place, at) = <<text[at]>>
  <1>1. ASSUME NEW i \in DOMAIN place, place[i] = at, \A j \in DOMAIN place : place[j] = at => j = i
        PROVE  Piece(text, hunks, place, at) = NewBlock(hunks[i])
    <2>1. (CHOOSE j \in DOMAIN place : place[j] = at) = i
      BY <1>1
    <2> QED
      BY <1>1, <2>1 DEF Piece
  <1>2. ASSUME \A i \in DOMAIN place : place[i] # at
        PROVE  \/ /\ \E i \in DOMAIN place : place[i] < at /\ at < place[i] + Len(OldBlock(hunks[i]))
                  /\ Piece(text, hunks, place, at) = <<>>
               \/ /\ ~ \E i \in DOMAIN place : place[i] < at /\ at < place[i] + Len(OldBlock(hunks[i]))
                  /\ Piece(text, hunks, place, at) = <<text[at]>>
    BY <1>2, Zenon DEF Piece
  <1> QED
    BY <1>1, <1>2

Pieces(text, hunks, place) == [n \in 1..Len(text) |-> Piece(text, hunks, place, n)]

LEMMA RewrittenMade ==
  ASSUME NEW text \in Seq(Char), NEW hunks \in Seq(Body), NEW place, DOMAIN place \subseteq 1..Len(hunks)
  PROVE  \E f : Made(f, Len(text), Pieces(text, hunks, place)) /\ Rewritten(text, hunks, place) = f[Len(text)]
  <1>1. PICK f \in [0..Len(text) -> Seq(Char)] :
               /\ f[0] = <<>>
               /\ \A n \in 1..Len(text) : f[n] = f[n - 1] \o Piece(text, hunks, place, Numbers(text)[n])
               /\ Rewritten(text, hunks, place) = f[Len(text)]
    <2>1. Computes(Seq(Char), Len(text), <<>>,
               [p \in (1..Len(text)) \X Seq(Char) |-> AddPiece(text, hunks, place, p[1], p[2])],
               Rewritten(text, hunks, place))
      BY RewrittenFold
    <2>2. \A n \in 1..Len(text) : n - 1 \in 0..Len(text)
      OBVIOUS
    <2> QED
      BY <2>1, <2>2 DEF Computes, AddPiece
  <1>2. ASSUME NEW n \in 1..Len(text)
        PROVE  /\ Pieces(text, hunks, place)[n] \in Seq(Char)
               /\ f[n] = Cat(f[n - 1], Pieces(text, hunks, place)[n])
    <2>1. Numbers(text)[n] = n
      BY DEF Numbers
    <2>2. Pieces(text, hunks, place)[n] = Piece(text, hunks, place, n)
      BY DEF Pieces
    <2>3. f[n] = f[n - 1] \o Piece(text, hunks, place, n)
      BY <1>1, <2>1
    <2>4. Piece(text, hunks, place, n) \in Seq(Char)
      BY PieceOfText
    <2> QED
      BY <2>2, <2>3, <2>4 DEF Cat
  <1> QED
    BY <1>1, <1>2 DEF Made

\* Without a hunk the text is itself.
LEMMA RewrittenByNone ==
  ASSUME NEW text \in Seq(Char), NEW hunks \in Seq(Body), NEW place
  PROVE  Rewritten(text, hunks, First(place, 0)) = text
  <1>1. PICK none : none = First(place, 0)
    OBVIOUS
  <1>2. DOMAIN none = {}
    <2>1. 1..0 = {}
      OBVIOUS
    <2> QED
      BY <1>1, <2>1 DEF First
  <1>3. PICK f : Made(f, Len(text), Pieces(text, hunks, none)) /\ Rewritten(text, hunks, none) = f[Len(text)]
    BY <1>2, RewrittenMade
  <1>4. ASSUME NEW n \in 1..Len(text) PROVE f[n] = Cat(f[n - 1], <<text[n]>>)
    <2>1. Piece(text, hunks, none, n) = <<text[n]>>
      BY <1>2 DEF Piece
    <2>2. Pieces(text, hunks, none)[n] = <<text[n]>>
      BY <2>1 DEF Pieces
    <2> QED
      BY <1>3, <2>2 DEF Made
  <1>5. PICK P : P = {n \in Nat : n <= Len(text) => f[n] = SubSeq(text, 1, n)}
    OBVIOUS
  <1>6. 0 \in P
    <2>1. SubSeq(text, 1, 0) = <<>>
      OBVIOUS
    <2> QED
      BY <1>3, <1>5, <2>1 DEF Made
  <1>7. ASSUME NEW n \in Nat, n \in P PROVE n + 1 \in P
    <2> SUFFICES ASSUME n + 1 <= Len(text) PROVE f[n + 1] = SubSeq(text, 1, n + 1)
      BY <1>5
    <2>1. PICK k : k = n + 1
      OBVIOUS
    <2>2. k \in 1..Len(text) /\ k - 1 = n /\ n <= Len(text) /\ n < Len(text)
      BY <2>1
    <2>3. f[k - 1] = SubSeq(text, 1, n)
      BY <1>5, <1>7, <2>2
    <2>4. f[k] = Cat(SubSeq(text, 1, n), <<text[n + 1]>>)
      BY <1>4, <2>1, <2>2, <2>3
    <2> QED
      BY <2>1, <2>2, <2>4, CatTake
  <1>8. Len(text) \in P
    BY <1>6, <1>7, AllOfNat
  <1>9. SubSeq(text, 1, Len(text)) = text
    OBVIOUS
  <1> QED
    BY <1>1, <1>3, <1>5, <1>8, <1>9

\* Each of the first k hunks has context or removes something.
Anchored(hunks, k) == \A i \in 1..k : OldBlock(hunks[i]) # <<>>

\* A hunk more in the text is its new block for its old one.
OneMoreReplaces(text, hunks, place, k) ==
  \E prefix, rest \in Seq(Char) :
     /\ Rewritten(text, hunks, First(place, k - 1)) = Three(prefix, OldBlock(hunks[k]), rest)
     /\ Rewritten(text, hunks, First(place, k)) = Three(prefix, NewBlock(hunks[k]), rest)

LEMMA OneMore ==
  ASSUME NEW text \in Seq(Char), NEW hunks \in Seq(Body), NEW place, Placed(text, hunks, place),
         NEW k \in 1..Len(hunks), Anchored(hunks, k)
  PROVE  OneMoreReplaces(text, hunks, place, k)
  <1> SUFFICES \E prefix, rest \in Seq(Char) :
                  /\ Rewritten(text, hunks, First(place, k - 1)) = Three(prefix, OldBlock(hunks[k]), rest)
                  /\ Rewritten(text, hunks, First(place, k)) = Three(prefix, NewBlock(hunks[k]), rest)
    BY DEF OneMoreReplaces
  <1>1. PICK before : before = First(place, k - 1)
    OBVIOUS
  <1>2. PICK now : now = First(place, k)
    OBVIOUS
  <1>3. PICK long : long = [i \in 1..k |-> Len(OldBlock(hunks[i]))]
    OBVIOUS
  <1>4. /\ k \in Nat /\ k >= 1 /\ k <= Len(hunks) /\ Len(text) \in Nat
        /\ DOMAIN before = 1..(k - 1) /\ DOMAIN now = 1..k
        /\ \A i \in 1..(k - 1) : i \in 1..k /\ before[i] = place[i]
        /\ \A i \in 1..k : now[i] = place[i]
    BY <1>1, <1>2 DEF First
  <1>5. ASSUME NEW i \in 1..k
        PROVE  /\ i \in 1..Len(hunks) /\ long[i] \in Nat /\ long[i] >= 1
               /\ place[i] \in 1..Len(text) /\ long[i] = Len(OldBlock(hunks[i]))
    <2>1. i \in 1..Len(hunks)
      BY <1>4
    <2>2. hunks[i] \in Body
      BY <2>1, ElementOf
    <2>3. OldBlock(hunks[i]) \in Seq(Char) /\ OldBlock(hunks[i]) # <<>>
      BY <2>2, BlocksAreTexts DEF Anchored
    <2>4. Len(OldBlock(hunks[i])) \in Nat /\ Len(OldBlock(hunks[i])) >= 1
      BY <2>3
    <2> QED
      BY <1>3, <2>1, <2>4 DEF Placed
  <1>6. ASSUME NEW i \in 1..k, NEW j \in 1..k, i # j
        PROVE  place[i] + long[i] <= place[j] \/ place[j] + long[j] <= place[i]
    BY <1>5, <1>6 DEF Placed
  <1>7. PICK a \in 1..Len(text) : a = place[k]
    BY <1>4, <1>5
  <1>8. PICK old \in Seq(Char) : old = OldBlock(hunks[k])
    BY BlocksAreTexts, ElementOf
  <1>9. PICK new \in Seq(Char) : new = NewBlock(hunks[k])
    BY BlocksAreTexts, ElementOf
  <1>10. long[k] = Len(old) /\ Len(old) \in Nat /\ Len(old) >= 1 /\ old # <<>>
    BY <1>4, <1>5, <1>8
  <1>11. a + Len(old) <= Len(text) + 1 /\ \A n \in 1..Len(old) : old[n] = text[a + n - 1]
    <2>1. a \in Places(text, old)
      BY <1>7, <1>8 DEF Placed
    <2>2. a + Len(old) <= Len(text) + 1 /\ SubSeq(text, a, a + Len(old) - 1) = old
      BY <2>1 DEF Places
    <2>3. ASSUME NEW n \in 1..Len(old) PROVE old[n] = text[a + n - 1]
      <3>1. SubSeq(text, a, a + Len(old) - 1)[n] = text[a + n - 1]
        BY <1>10, <2>2
      <3> QED
        BY <2>2, <3>1
    <2> QED
      BY <2>2, <2>3
  <1>12. PICK A : A = Pieces(text, hunks, before)
    OBVIOUS
  <1>13. PICK B : B = Pieces(text, hunks, now)
    OBVIOUS
  <1>14. \A n \in 1..Len(text) : A[n] = Piece(text, hunks, before, n) /\ B[n] = Piece(text, hunks, now, n)
    BY <1>12, <1>13 DEF Pieces
  <1>15. ASSUME NEW n \in 1..Len(text), n < a \/ n >= a + Len(old) PROVE A[n] = B[n]
    <2>1. now[k] # n /\ ~(now[k] < n /\ n < now[k] + long[k])
      BY <1>4, <1>7, <1>10, <1>15
    <2>2. CASE \E i \in 1..(k - 1) : place[i] = n
      <3>1. PICK i \in 1..(k - 1) : place[i] = n
        BY <2>2
      <3>2. \A j \in 1..k : place[j] = n => j = i
        <4> SUFFICES ASSUME NEW j \in 1..k, place[j] = n, j # i PROVE FALSE
          OBVIOUS
        <4>1. i \in 1..k
          BY <1>4
        <4>2. place[i] + long[i] <= place[j] \/ place[j] + long[j] <= place[i]
          BY <1>6, <4>1
        <4>3. long[i] \in Nat /\ long[i] >= 1 /\ long[j] \in Nat /\ long[j] >= 1
          BY <1>5, <4>1
        <4> QED
          BY <3>1, <4>2, <4>3
      <3>3. i \in DOMAIN before /\ before[i] = n /\ \A j \in DOMAIN before : before[j] = n => j = i
        BY <1>4, <3>1, <3>2
      <3>4. i \in DOMAIN now /\ now[i] = n /\ \A j \in DOMAIN now : now[j] = n => j = i
        BY <1>4, <3>1, <3>2
      <3>5. Piece(text, hunks, before, n) = NewBlock(hunks[i])
        BY <3>3, PieceCases
      <3>6. Piece(text, hunks, now, n) = NewBlock(hunks[i])
        BY <3>4, PieceCases
      <3> QED
        BY <1>14, <3>5, <3>6
    <2>3. CASE \A i \in 1..(k - 1) : place[i] # n
      <3>1. \A i \in 1..k : i = k \/ i \in 1..(k - 1)
        BY <1>4
      <3>2. (\A i \in DOMAIN before : before[i] # n) /\ (\A i \in DOMAIN now : now[i] # n)
        BY <1>4, <2>1, <2>3, <3>1
      <3>3. (\E i \in DOMAIN before : before[i] < n /\ n < before[i] + Len(OldBlock(hunks[i])))
              <=> (\E i \in DOMAIN now : now[i] < n /\ n < now[i] + Len(OldBlock(hunks[i])))
        BY <1>4, <1>5, <2>1, <3>1
      <3>4. Piece(text, hunks, before, n) = Piece(text, hunks, now, n)
        BY <3>2, <3>3, PieceCases
      <3> QED
        BY <1>14, <3>4
    <2> QED
      BY <2>2, <2>3
  <1>16. ASSUME NEW n \in 1..Len(text), a <= n, n < a + Len(old), NEW i \in 1..(k - 1)
         PROVE  place[i] # n /\ ~(place[i] < n /\ n < place[i] + Len(OldBlock(hunks[i])))
    <2>1. i \in 1..k /\ i # k /\ k \in 1..k
      BY <1>4
    <2>2. /\ place[i] + long[i] <= a \/ a + Len(old) <= place[i]
          /\ place[i] \in Nat /\ long[i] \in Nat /\ long[i] >= 1 /\ long[i] = Len(OldBlock(hunks[i]))
      BY <1>5, <1>6, <1>7, <1>10, <2>1
    <2> QED
      BY <1>10, <1>16, <2>2
  <1>17. ASSUME NEW n \in 1..Len(old) PROVE A[a + n - 1] = <<old[n]>>
    <2>1. PICK at : at = a + n - 1
      OBVIOUS
    <2>2. at \in 1..Len(text) /\ a <= at /\ at < a + Len(old)
      BY <1>10, <1>11, <2>1
    <2>3. (\A i \in DOMAIN before : before[i] # at)
            /\ ~ \E i \in DOMAIN before : before[i] < at /\ at < before[i] + Len(OldBlock(hunks[i]))
      BY <1>4, <1>16, <2>2
    <2>4. Piece(text, hunks, before, at) = <<text[at]>>
      BY <2>3, PieceCases
    <2> QED
      BY <1>11, <1>14, <2>1, <2>2, <2>4
  <1>18. B[a] = new
    <2>1. k \in DOMAIN now /\ now[k] = a
      BY <1>4, <1>7
    <2>2. ASSUME NEW j \in DOMAIN now, now[j] = a PROVE j = k
      <3>1. j \in 1..k /\ (j = k \/ j \in 1..(k - 1)) /\ place[j] = a
        BY <1>4, <2>2
      <3>2. a <= a /\ a < a + Len(old)
        BY <1>10
      <3> QED
        BY <1>16, <3>1, <3>2
    <2>3. Piece(text, hunks, now, a) = NewBlock(hunks[k])
      BY <2>1, <2>2, PieceCases
    <2> QED
      BY <1>9, <1>14, <2>3
  <1>19. ASSUME NEW n \in 1..Len(text), a < n, n < a + Len(old) PROVE B[n] = <<>>
    <2>1. \A i \in DOMAIN now : now[i] # n
      <3> SUFFICES ASSUME NEW i \in DOMAIN now PROVE now[i] # n
        OBVIOUS
      <3>1. i \in 1..k /\ (i = k \/ i \in 1..(k - 1)) /\ now[i] = place[i]
        BY <1>4
      <3>2. CASE i = k
        BY <1>7, <1>19, <3>1, <3>2
      <3>3. CASE i \in 1..(k - 1)
        BY <1>16, <1>19, <3>1, <3>3
      <3> QED
        BY <3>1, <3>2, <3>3
    <2>2. k \in DOMAIN now /\ now[k] < n /\ n < now[k] + Len(OldBlock(hunks[k]))
      BY <1>4, <1>7, <1>8, <1>19
    <2>3. Piece(text, hunks, now, n) = <<>>
      BY <2>1, <2>2, PieceCases
    <2> QED
      BY <1>14, <2>3
  <1>20. DifferInBlock(Len(text), a, old, new, A, B)
    BY <1>15, <1>17, <1>18, <1>19 DEF DifferInBlock
  <1>21. DOMAIN before \subseteq 1..Len(hunks) /\ DOMAIN now \subseteq 1..Len(hunks)
    BY <1>4
  <1>22. PICK f : Made(f, Len(text), A) /\ Rewritten(text, hunks, before) = f[Len(text)]
    BY <1>12, <1>21, RewrittenMade
  <1>23. PICK g : Made(g, Len(text), B) /\ Rewritten(text, hunks, now) = g[Len(text)]
    BY <1>13, <1>21, RewrittenMade
  <1>24. \E prefix, rest \in Seq(Char) :
            f[Len(text)] = Three(prefix, old, rest) /\ g[Len(text)] = Three(prefix, new, rest)
    BY <1>4, <1>10, <1>11, <1>20, <1>22, <1>23, TwoTexts
  <1> QED
    BY <1>1, <1>2, <1>8, <1>9, <1>22, <1>23, <1>24

\* Whatever its hunks add and remove, a diff whose old blocks do not overlap themselves makes
\* of a text what it means there, or is refused: one hunk's added lines never draw the next to
\* another place.
THEOREM HunksMeanOneText ==
  ASSUME NEW text \in Seq(Char), NEW hunks \in Seq(Body),
         \A body \in Range(hunks) : ~Overlaps(OldBlock(body)), NEW meant \in Meant(text, hunks)
  PROVE  ApplyHunks(text, hunks) \subseteq {meant}
  <1>1. PICK place : Placed(text, hunks, place) /\ meant = Rewritten(text, hunks, place)
    BY MeantIsPlaced
  <1>2. PICK f \in [0..Len(hunks) -> SUBSET Seq(Char)] :
               /\ f[0] = {text}
               /\ \A n \in 1..Len(hunks) : f[n] = UNION {ApplyHunk(t, hunks[n]) : t \in f[n - 1]}
               /\ ApplyHunks(text, hunks) = f[Len(hunks)]
    <2>1. Computes(SUBSET Seq(Char), Len(hunks), {text},
               [p \in (1..Len(hunks)) \X SUBSET Seq(Char) |-> TryHunk(hunks, p[1], p[2])],
               ApplyHunks(text, hunks))
      BY HunksFold
    <2>2. PICK step : step = [p \in (1..Len(hunks)) \X SUBSET Seq(Char) |-> TryHunk(hunks, p[1], p[2])]
      OBVIOUS
    <2>3. ASSUME NEW n \in 1..Len(hunks), NEW v \in SUBSET Seq(Char)
          PROVE  step[<<n, v>>] = UNION {ApplyHunk(t, hunks[n]) : t \in v}
      BY <2>2 DEF TryHunk
    <2>4. PICK f \in [0..Len(hunks) -> SUBSET Seq(Char)] :
             /\ f[0] = {text} /\ \A n \in 1..Len(hunks) : f[n] = step[<<n, f[n - 1]>>]
             /\ ApplyHunks(text, hunks) = f[Len(hunks)]
      BY <2>1, <2>2 DEF Computes
    <2>5. ASSUME NEW n \in 1..Len(hunks) PROVE f[n] = UNION {ApplyHunk(t, hunks[n]) : t \in f[n - 1]}
      <3>1. n - 1 \in 0..Len(hunks)
        OBVIOUS
      <3> QED
        BY <2>3, <2>4, <3>1
    <2> QED
      BY <2>4, <2>5
  <1>3. PICK made : made = [n \in 0..Len(hunks) |-> Rewritten(text, hunks, First(place, n))]
    OBVIOUS
  <1>4. PICK P : P = {n \in Nat : n <= Len(hunks) =>
                        f[n] \subseteq {made[n]} /\ (f[n] # {} => Anchored(hunks, n))}
    OBVIOUS
  <1>5. 0 \in P
    <2>1. made[0] = text
      BY <1>3, RewrittenByNone
    <2>2. 1..0 = {}
      OBVIOUS
    <2> QED
      BY <1>2, <1>4, <2>1, <2>2 DEF Anchored
  <1>6. ASSUME NEW n \in Nat, n \in P PROVE n + 1 \in P
    <2> SUFFICES ASSUME n + 1 <= Len(hunks), f[n + 1] # {}
                 PROVE  f[n + 1] \subseteq {made[n + 1]} /\ Anchored(hunks, n + 1)
      BY <1>4
    <2>1. PICK k : k = n + 1
      OBVIOUS
    <2>2. k \in 1..Len(hunks) /\ k - 1 = n /\ n \in 0..Len(hunks) /\ k \in 0..Len(hunks) /\ n <= Len(hunks)
      BY <2>1
    <2>3. f[k] = UNION {ApplyHunk(t, hunks[k]) : t \in f[n]}
      BY <1>2, <2>2
    <2>4. PICK t \in f[n] : ApplyHunk(t, hunks[k]) # {}
      BY <2>1, <2>3
    <2>5. f[n] = {made[n]} /\ Anchored(hunks, n)
      BY <1>4, <1>6, <2>2, <2>4
    <2>6. OldBlock(hunks[k]) # <<>>
      BY <2>4 DEF ApplyHunk
    <2>7. Anchored(hunks, k)
      <3>1. \A i \in 1..k : i = k \/ i \in 1..n
        BY <2>1
      <3> QED
        BY <2>5, <2>6, <3>1 DEF Anchored
    <2>8. /\ made[n] = Rewritten(text, hunks, First(place, k - 1))
          /\ made[k] = Rewritten(text, hunks, First(place, k))
      BY <1>3, <2>2
    <2>9. PICK prefix \in Seq(Char), rest \in Seq(Char) :
             made[n] = Three(prefix, OldBlock(hunks[k]), rest) /\ made[k] = Three(prefix, NewBlock(hunks[k]), rest)
      <3>1. k \in 1..Len(hunks) /\ Placed(text, hunks, place)
        BY <1>1, <2>2
      <3>2. OneMoreReplaces(text, hunks, place, k)
        BY <2>7, <3>1, OneMore
      <3> QED
        BY <2>8, <3>2 DEF OneMoreReplaces
    <2>10. hunks[k] \in Body /\ ~Overlaps(OldBlock(hunks[k]))
      <3>1. hunks[k] \in Body
        BY <2>2, ElementOf
      <3>2. hunks[k] \in Range(hunks)
        BY <2>2 DEF Range
      <3> QED
        BY <3>1, <3>2
    <2>11. ApplyHunk(made[n], hunks[k]) \subseteq {made[k]}
      BY <2>9, <2>10, HunkInPlace
    <2>12. f[k] \subseteq {made[k]}
      BY <2>3, <2>5, <2>11
    <2> QED
      BY <2>1, <2>7, <2>12
  <1>7. Len(hunks) \in Nat /\ Len(hunks) \in P
    BY <1>5, <1>6, AllOfNat
  <1>8. f[Len(hunks)] \subseteq {made[Len(hunks)]}
    BY <1>4, <1>7
  <1>9. First(place, Len(hunks)) = place
    BY <1>1 DEF First, Placed
  <1>10. made[Len(hunks)] = meant
    BY <1>1, <1>3, <1>7, <1>9
  <1> QED
    BY <1>2, <1>8, <1>10

-----------------------------------------------------------------------------
(* The contract's texts. *)

\* The files a patch is applied to, the contract among them.
Files == {D \in SUBSET (STRING \cup {Document}) : Document \in D}
Sections == UNION {[D -> Seq(Char)] : D \in Files}

LEMMA NewContentIsText ==
  ASSUME NEW hunks \in Seq(Body)
  PROVE  NewContent(hunks) \in Seq(Char)
  <1>1. PICK blocks : blocks = [i \in 1..Len(hunks) |-> NewBlock(hunks[i])]
    OBVIOUS
  <1>2. blocks \in Seq(Seq(Char))
    <2>1. \A i \in 1..Len(hunks) : NewBlock(hunks[i]) \in Seq(Char)
      BY ElementOf, BlocksAreTexts
    <2> QED
      BY <1>1, <2>1
  <1>3. PICK content \in Seq(Char) : content = JoinLines(blocks)
    BY <1>2, JoinedIsText
  <1>4. Append(content, NL) \in Seq(Char)
    <2>1. NL \in Char
      BY DEF Char
    <2> QED
      BY <2>1
  <1>5. NewContent(hunks) = IF content # <<>> /\ Last(content) # NL THEN Append(content, NL) ELSE content
    BY <1>1, <1>3 DEF NewContent
  <1> QED
    BY <1>4, <1>5

LEMMA DiffOfSections ==
  ASSUME NEW sections \in Sections, NEW d \in Diff
  PROVE  ApplyDiff(sections, d) \subseteq Sections
  <1>1. PICK D \in Files : sections \in [D -> Seq(Char)]
    BY DEF Sections
  <1>2. d.file \in STRING /\ d.hunks \in Seq(Body) /\ DOMAIN sections = D
    BY <1>1 DEF Diff
  <1> SUFFICES ASSUME NEW s \in ApplyDiff(sections, d) PROVE s \in Sections
    OBVIOUS
  <1>3. CASE d.isNew
    <2>1. PICK content \in Seq(Char) : content = NewContent(d.hunks)
      BY <1>2, NewContentIsText
    <2>2. s = [f \in DOMAIN sections \cup {d.file} |-> IF f = d.file THEN content ELSE sections[f]]
      BY <1>3, <2>1 DEF ApplyDiff
    <2>3. s \in [D \cup {d.file} -> Seq(Char)]
      BY <1>1, <1>2, <2>2
    <2>4. D \cup {d.file} \in Files
      BY <1>2 DEF Files
    <2> QED
      BY <2>3, <2>4 DEF Sections
  <1>4. CASE ~d.isNew
    <2>1. PICK f \in D : \E t \in ApplyHunks(sections[f], d.hunks) : s = [sections EXCEPT ![f] = t]
      BY <1>2, <1>4 DEF ApplyDiff
    <2>2. sections[f] \in Seq(Char)
      BY <1>1
    <2>3. PICK t \in ApplyHunks(sections[f], d.hunks) : s = [sections EXCEPT ![f] = t]
      BY <2>1
    <2>4. t \in Seq(Char)
      BY <1>2, <2>2, HunksAreTexts
    <2>5. s \in [D -> Seq(Char)]
      BY <1>1, <2>3, <2>4
    <2> QED
      BY <2>5 DEF Sections
  <1> QED
    BY <1>3, <1>4

TryDiff(diffs, n, tries) == UNION {ApplyDiff(files, diffs[n]) : files \in tries}

\* The sections after each diff.
LEMMA PatchFold ==
  ASSUME NEW sections \in Sections, NEW diffs \in Seq(Diff), Parses(diffs)
  PROVE  Computes(SUBSET Sections, Len(diffs), {sections},
              [p \in (1..Len(diffs)) \X SUBSET Sections |-> TryDiff(diffs, p[1], p[2])],
              ApplyPatch(sections, diffs))
  <1> DEFINE m == Len(diffs)
             Is(it) == it = [s \in SUBSET DOMAIN diffs |->
                               IF s = {} THEN {sections}
                               ELSE TryDiff(diffs, Max(s), it[s \ {Max(s)}])]
  <1>1. m \in Nat /\ DOMAIN diffs = 1..m
    OBVIOUS
  <1>2. PICK V : V = SUBSET Sections
    OBVIOUS
  <1>3. PICK step : step = [p \in (1..m) \X V |-> TryDiff(diffs, p[1], p[2])]
    OBVIOUS
  <1>4. ASSUME NEW n \in 1..m, NEW v \in V
        PROVE  step[<<n, v>>] = TryDiff(diffs, n, v) /\ step[<<n, v>>] \in V
    <2>1. step[<<n, v>>] = TryDiff(diffs, n, v)
      BY <1>3
    <2> QED
      <3>1. diffs[n] \in Diff
        BY ElementOf
      <3>2. \A s \in v : ApplyDiff(s, diffs[n]) \subseteq Sections
        BY <1>2, <3>1, DiffOfSections
      <3> QED
        BY <1>2, <2>1, <3>2 DEF TryDiff
  <1>5. step \in Steps(m, V)
    BY <1>3, <1>4 DEF Steps
  <1>6. {sections} \in V
    BY <1>2
  <1>7. PICK it \in [SUBSET (1..m) -> V] : Folding(it, m, {sections}, step)
    BY <1>1, <1>5, <1>6, FoldsExist DEF HasFold
  <1>8. ASSUME NEW s \in SUBSET (1..m), s # {}
        PROVE  it[s] = TryDiff(diffs, Max(s), it[s \ {Max(s)}])
    <2>1. it[s] = step[<<Max(s), it[s \ {Max(s)}]>>]
      BY <1>7, <1>8 DEF Folding
    <2>2. Max(s) \in 1..m
      BY <1>1, <1>8, GreatestIsIn
    <2>3. it[s \ {Max(s)}] \in V
      BY <1>7
    <2> QED
      BY <1>4, <2>1, <2>2, <2>3
  <1>9. Is(it)
    <2>1. it[{}] = {sections}
      BY <1>7 DEF Folding
    <2> QED
      BY <1>1, <1>7, <1>8, <2>1
  <1>10. PICK c : c = CHOOSE it0 : Is(it0)
    OBVIOUS
  <1>11. Is(c)
    BY <1>9, <1>10, Zenon
  <1>12. ApplyPatch(sections, diffs) = c[1..m]
    <2>1. ApplyPatch(sections, diffs) = c[DOMAIN diffs]
      BY <1>10, Zenon DEF TryDiff, ApplyPatch, FoldLeft, MapThenFoldSet
    <2> QED
      BY <1>1, <2>1
  <1>13. Recurs(c, m, V, {sections}, step)
    <2>1. c[{}] = {sections}
      BY <1>11
    <2>2. ASSUME NEW s \in SUBSET (1..m), s # {}, c[s \ {Max(s)}] \in V
          PROVE  c[s] = step[<<Max(s), c[s \ {Max(s)}]>>]
      <3>1. c[s] = TryDiff(diffs, Max(s), c[s \ {Max(s)}])
        BY <1>1, <1>11, <2>2
      <3>2. Max(s) \in 1..m
        BY <1>1, <2>2, GreatestIsIn
      <3> QED
        BY <1>4, <2>2, <3>1, <3>2
    <2> QED
      BY <2>1, <2>2 DEF Recurs
  <1>14. Computes(V, m, {sections}, step, c[1..m])
    BY <1>1, <1>5, <1>6, <1>13, FoldComputes
  <1> QED
    BY <1>2, <1>3, <1>12, <1>14

LEMMA PatchedIsText ==
  ASSUME NEW text \in Seq(Char), NEW reply \in Replies, NEW s \in ApplyPatch([f \in {Document} |-> text], reply)
  PROVE  s[Document] \in Seq(Char)
  <1>1. PICK sections : sections = [f \in {Document} |-> text]
    OBVIOUS
  <1>2. {Document} \in Files /\ sections \in [{Document} -> Seq(Char)]
    BY <1>1 DEF Files
  <1>3. sections \in Sections
    BY <1>2 DEF Sections
  <1>4. reply \in Seq(Diff) /\ Len(reply) \in Nat
    BY ContractAssumption
  <1>5. Parses(reply)
    BY DEF ApplyPatch
  <1>6. ApplyPatch(sections, reply) \in SUBSET Sections
    BY <1>3, <1>4, <1>5, PatchFold, ComputedInside
  <1>7. s \in Sections
    BY <1>1, <1>6
  <1> QED
    BY <1>7 DEF Sections, Files

\* The last output and every draft is a text, a draft that a crash cut off too.
TextsOnly == last \in Seq(Char) /\ \A n \in DOMAIN draft : draft[n] \in Seq(Char)

LEMMA WrittenIsText == last \in Seq(Char) => \A text \in Written : text \in Seq(Char)
  <1>1. \A text \in Drafts : text \in Seq(Char)
    BY ContractAssumption, TextsAreOfChar
  <1> SUFFICES ASSUME last \in Seq(Char), NEW text \in Written, text \notin Drafts PROVE text \in Seq(Char)
    BY <1>1
  <1>2. PICK reply \in Replies : \E s \in ApplyPatch([f \in {Document} |-> last], reply) : text = s[Document]
    BY DEF Written
  <1> QED
    BY <1>2, PatchedIsText

LEMMA SavedIsText ==
  ASSUME NEW n, NEW text \in Seq(Char), \A m \in DOMAIN draft : draft[m] \in Seq(Char)
  PROVE  \A m \in DOMAIN Saved(draft, n, text) : Saved(draft, n, text)[m] \in Seq(Char)
  BY DEF Saved

LEMMA TextsOnlyNext == TextsOnly /\ [ContractNext]_contractVars => TextsOnly'
  <1> SUFFICES ASSUME TextsOnly, [ContractNext]_contractVars PROVE TextsOnly'
    OBVIOUS
  <1>1. <<>> \in Seq(Char)
    OBVIOUS
  <1>2. CASE UNCHANGED <<draft, last>>
    BY <1>2 DEF TextsOnly
  <1>3. CASE Launch
    BY <1>1, <1>3 DEF Launch, TextsOnly
  <1>4. CASE Draft
    <2>1. CASE iter \in DOMAIN draft /\ last' = draft[iter] /\ UNCHANGED draft
      BY <2>1 DEF TextsOnly
    <2>2. CASE last' \in Written /\ draft' = Saved(draft, iter, last')
      <3>1. PICK text : text = last'
        OBVIOUS
      <3>2. text \in Seq(Char)
        BY <2>2, <3>1, WrittenIsText DEF TextsOnly
      <3>3. \A m \in DOMAIN Saved(draft, iter, text) : Saved(draft, iter, text)[m] \in Seq(Char)
        BY <3>2, SavedIsText DEF TextsOnly
      <3> QED
        BY <2>2, <3>1, <3>2, <3>3 DEF TextsOnly
    <2> QED
      BY <1>4, <2>1, <2>2 DEF Draft
  <1>5. CASE CutOff
    <2>1. \A m \in DOMAIN Saved(draft, iter, <<>>) : Saved(draft, iter, <<>>)[m] \in Seq(Char)
      BY <1>1, SavedIsText DEF TextsOnly
    <2>2. UNCHANGED last /\ (UNCHANGED draft \/ draft' = Saved(draft, iter, <<>>))
      BY <1>5 DEF CutOff
    <2> QED
      BY <2>1, <2>2 DEF TextsOnly
  <1>6. CASE Review \/ Emit \/ Fails \/ Crash
    BY <1>2, <1>6 DEF Review, Emit, Fails, Crash
  <1> QED
    BY <1>2, <1>3, <1>4, <1>5, <1>6 DEF ContractNext, contractVars

LEMMA TextsOnlyImplies == TextsOnly => HunksAreApplied
  <1> SUFFICES ASSUME TextsOnly, NEW hunks \in HunksOf(Replies),
                      \A body \in Range(hunks) : ~Overlaps(OldBlock(body)), NEW text \in Meant(last, hunks)
               PROVE  ApplyHunks(last, hunks) \subseteq {text}
    BY DEF HunksAreApplied
  <1>1. PICK reply \in Replies : \E d \in Range(reply) : hunks = d.hunks
    BY DEF HunksOf
  <1>2. PICK d \in Range(reply) : hunks = d.hunks
    BY <1>1
  <1>3. d \in Diff
    BY <1>1, ContractAssumption, ElementOf DEF Range
  <1>4. hunks \in Seq(Body)
    BY <1>2, <1>3 DEF Diff
  <1> QED
    BY <1>4, HunksMeanOneText DEF TextsOnly

\* In every launch, crashed and resumed ones among them, the hunks of a reply make of the
\* contract's text what they mean there, each where the author saw its block, or are refused.
THEOREM HunksApplyAsMeant == ContractSpec => []HunksAreApplied
  <1>1. ContractInit => TextsOnly
    BY DEF ContractInit, Nothing, TextsOnly
  <1> QED
    BY <1>1, TextsOnlyNext, TextsOnlyImplies, PTL DEF ContractSpec
=============================================================================
