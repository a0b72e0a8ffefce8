--------------------------- MODULE AssemblyProofs ---------------------------
(***************************************************************************)
(* Theorems about Assembly for any number of attempts and escalations, and *)
(* any number of crashes, errors and launches.                             *)
(***************************************************************************)
EXTENDS Assembly, TLAPS

-----------------------------------------------------------------------------
(* Names. *)

LEMMA Ids ==
  /\ Refactor \in Id /\ IpCounsel \in Id /\ Readiness \in Id
  /\ \A n \in 0..MaxIter : Repair(n) \in Id
  /\ \A n \in 0..MaxIter : SoundnessRepair(n) \in Id
  /\ \A n \in 0..MaxIter : FormalMethods(n) \in Id
  /\ \A d \in 0..MaxEscalations : Fix(d) \in Id
  BY DEF Id, Verdict, Repair, Fix, SoundnessRepair, FormalMethods, Refactor, IpCounsel, Readiness

LEMMA CodesAre ==
  /\ Start \in Code /\ Torn \in Code /\ NoCode \in Code /\ Start # NoCode /\ Torn # NoCode
  /\ \A id \in Id : Of(id) \in Code
  /\ \A c \in Code, d \in 0..MaxEscalations : [c EXCEPT !.fix = Fix(d)] \in Code
  BY DEF Start, Torn, NoCode, Of, Code

LEMMA NotNoCode ==
  /\ \A n \in Nat : Of(Repair(n)) # NoCode /\ Of(SoundnessRepair(n)) # NoCode
  /\ Of(Refactor) # NoCode
  /\ \A c \in Code, d \in Nat : [c EXCEPT !.fix = Fix(d)] # NoCode
  <1>1. \A n \in Nat : Repair(n) # <<"none">> /\ SoundnessRepair(n) # <<"none">>
    BY DEF Repair, SoundnessRepair
  <1>2. Refactor # <<"none">>
    BY DEF Refactor
  <1>3. \A d \in Nat : Fix(d) # NoFix
    BY DEF Fix, NoFix
  <1>4. \A b : b # <<"none">> => Of(b) # NoCode
    <2>1. \A b : Of(b).base = b
      BY DEF Of
    <2> QED
      BY <2>1 DEF NoCode
  <1>5. \A c \in Code, d \in Nat : [c EXCEPT !.fix = Fix(d)] # NoCode
    <2>1. NoCode.fix = NoFix
      BY DEF NoCode, Of
    <2>2. \A c \in Code, d \in Nat : [c EXCEPT !.fix = Fix(d)].fix = Fix(d)
      BY DEF Code
    <2> QED
      BY <2>1, <2>2, <1>3
  <1> QED
    BY <1>1, <1>2, <1>4, <1>5

-----------------------------------------------------------------------------
(* What a checkpoint and the gate do, as far as the invariant goes. *)

LEMMA CheckpointDoes ==
  ASSUME TypeOK, NEW id \in Id, NEW a, Checkpoint(id, a)
  PROVE  /\ answer' \in [Id -> {"none", "text", "sound", "unsound"}]
         /\ asked' \in [Id -> Code]
         /\ answer'[id] = a
         /\ \A i \in Id : answer[i] # "none" => answer'[i] = answer[i]
  BY DEF TypeOK, Checkpoint

LEMMA SoundStays ==
  ASSUME TypeOK, NEW id \in Id, NEW a, Checkpoint(id, a), SomeSound
  PROVE  SomeSound'
  BY CheckpointDoes, Ids, Zenon DEF SomeSound

LEMMA GateDoes ==
  ASSUME TypeOK, NEW c \in Code, NEW g, Gate(c, g)
  PROVE  /\ gate' \in [Code -> {"unknown", "ok", "errors"}]
         /\ dir' \subseteq Code /\ dir' = {c} /\ gate'[c] = g
         /\ \A k \in Code : gate[k] # "unknown" => gate'[k] = gate[k]
  BY DEF TypeOK, Gate

-----------------------------------------------------------------------------
(* The inductive invariant, action by action. *)

LEMMA InductiveInit == Init => Inductive
  <1> SUFFICES ASSUME Init PROVE Inductive
    OBVIOUS
  <1>1. TypeOK
    <2>1. answer \in [Id -> {"none", "text", "sound", "unsound"}]
      BY DEF Init
    <2>2. asked \in [Id -> Code] /\ gate \in [Code -> {"unknown", "ok", "errors"}]
      BY CodesAre DEF Init
    <2>3. v2 \in Code /\ code \in Code /\ dir \subseteq Code /\ pc \in Ended
      BY CodesAre DEF Init, Ended
    <2>4. attempt \in 0..MaxIter /\ depth \in 0..MaxEscalations /\ round \in 0..MaxIter
      BY AssemblyAssumption DEF Init
    <2>5. wordy \in BOOLEAN /\ panel \in BOOLEAN /\ swallowed \in BOOLEAN
      BY Zenon DEF Init
    <2> QED
      BY <2>1, <2>2, <2>3, <2>4, <2>5 DEF TypeOK
  <1>2. LoopsAccounted /\ HeldCodePassed /\ EmittedPassed
    BY DEF Init, LoopsAccounted, HeldCodePassed, EmittedPassed, Working
  <1> QED
    BY <1>1, <1>2 DEF Inductive

\* Steps that leave every file alone and hold no new code.
LEMMA ControlKeeps ==
  ASSUME Inductive, Launch \/ Crash \/ Error \/ NoRefactor \/ RefactorFails
  PROVE  Inductive'
  <1> USE DEF Inductive, durable, running
  <1>1. CASE Launch
    <2>1. TypeOK'
      <3>1. 0 \in 0..MaxIter /\ 0 \in 0..MaxEscalations
        BY AssemblyAssumption
      <3>2. pc' \in Working /\ code' \in Code
        BY <1>1, CodesAre DEF Launch, TypeOK, Working
      <3>3. /\ attempt' = 0 /\ depth' = 0 /\ round' = 0 /\ panel' = FALSE
            /\ UNCHANGED <<answer, asked, gate, v2, dir, wordy, swallowed>>
        BY <1>1 DEF Launch
      <3> QED
        BY <3>1, <3>2, <3>3 DEF TypeOK
    <2>2. LoopsAccounted'
      BY <1>1 DEF Launch, LoopsAccounted
    <2>3. HeldCodePassed'
      BY <1>1, CodesAre DEF Launch, HeldCodePassed, Working
    <2>4. EmittedPassed'
      BY <1>1 DEF Launch, EmittedPassed, SomeSound, Rejected
    <2> QED
      BY <2>1, <2>2, <2>3, <2>4
  <1>2. CASE Crash
    <2>1. TypeOK'
      BY <1>2 DEF Crash, TypeOK, Ended, Working
    <2>2. LoopsAccounted' /\ HeldCodePassed'
      BY <1>2 DEF Crash, LoopsAccounted, HeldCodePassed, Working
    <2>3. EmittedPassed'
      BY <1>2 DEF Crash, EmittedPassed, SomeSound, Rejected
    <2> QED
      BY <2>1, <2>2, <2>3
  <1>3. CASE Error
    <2>1. TypeOK'
      BY <1>3 DEF Error, TypeOK, Ended, Working
    <2>2. LoopsAccounted' /\ HeldCodePassed'
      BY <1>3 DEF Error, LoopsAccounted, HeldCodePassed, Working
    <2>3. EmittedPassed'
      BY <1>3 DEF Error, EmittedPassed, SomeSound, Rejected
    <2> QED
      BY <2>1, <2>2, <2>3
  <1>4. CASE NoRefactor \/ RefactorFails
    <2>1. pc = "refactor" /\ pc' = "ip" /\ UNCHANGED <<durable, running>>
      BY <1>4 DEF NoRefactor, RefactorFails
    <2>2. swallowed' \in BOOLEAN
      BY <1>4 DEF NoRefactor, RefactorFails, TypeOK
    <2>3. TypeOK'
      BY <2>1, <2>2 DEF TypeOK, Ended, Working
    <2>4. LoopsAccounted'
      BY <2>1 DEF LoopsAccounted
    <2>5. HeldCodePassed'
      BY <2>1 DEF HeldCodePassed, Working, SomeSound, Rejected
    <2>6. EmittedPassed'
      BY <2>1 DEF EmittedPassed, SomeSound, Rejected
    <2> QED
      BY <2>3, <2>4, <2>5, <2>6
  <1> QED
    BY <1>1, <1>2, <1>3, <1>4

\* The integration check: nothing has been emitted, and what passes is in the directory.
LEMMA GateKeeps ==
  ASSUME Inductive, GatePasses \/ GateFails
  PROVE  Inductive'
  <1> USE DEF Inductive, running
  <1>0. pc = "gate" /\ code \in Code /\ v2 = NoCode /\ v2' = v2 /\ code' = code /\ code # NoCode
    BY DEF GatePasses, GateFails, TypeOK, EmittedPassed, HeldCodePassed, Working
  <1>1. CASE GatePasses
    <2>1. Gate(code, "ok")
      BY <1>1 DEF GatePasses
    <2>2. panel => round + 1 \in 0..MaxIter
      BY <1>0, AssemblyAssumption DEF LoopsAccounted, TypeOK
    <2>3. TypeOK'
      BY <1>1, <1>0, <2>1, <2>2, GateDoes DEF GatePasses, TypeOK, Ended, Working
    <2>4. LoopsAccounted'
      BY <1>1 DEF GatePasses, LoopsAccounted
    <2>5. pc' \in {"formal", "refactor"}
      BY <1>1 DEF GatePasses
    <2>6. HeldCodePassed'
      BY <1>0, <2>1, <2>5, GateDoes DEF HeldCodePassed
    <2>7. EmittedPassed'
      BY <1>0, <2>5 DEF EmittedPassed
    <2> QED
      BY <2>3, <2>4, <2>6, <2>7
  <1>2. CASE GateFails
    <2>1. Gate(code, "errors")
      BY <1>2 DEF GateFails
    <2>2. pc' \in {"repair", "escalate", "failed"}
      BY <1>2 DEF GateFails, TypeOK
    <2>3. TypeOK'
      BY <1>2, <1>0, <2>1, <2>2, GateDoes DEF GateFails, TypeOK, Ended, Working
    <2>4. LoopsAccounted'
      BY <1>2, <1>0 DEF GateFails, LoopsAccounted, TypeOK
    <2>5. HeldCodePassed'
      BY <1>0, <2>2 DEF HeldCodePassed
    <2>6. EmittedPassed'
      BY <1>0, <2>2 DEF EmittedPassed
    <2> QED
      BY <2>3, <2>4, <2>5, <2>6
  <1> QED
    BY <1>1, <1>2

\* The steps that adopt a checkpoint's answer as the code to gate.
LEMMA RepairKeeps ==
  ASSUME Inductive, RepairCrate \/ Escalate \/ RepairSoundness
  PROVE  Inductive'
  <1> USE DEF Inductive
  <1>1. attempt \in Nat /\ depth \in Nat /\ round \in Nat
    BY DEF TypeOK
  <1>2. v2 = NoCode /\ v2' = v2 /\ pc' = "gate" /\ UNCHANGED <<gate, dir, wordy, swallowed>>
    BY DEF RepairCrate, Escalate, RepairSoundness, EmittedPassed
  <1>3. /\ answer' \in [Id -> {"none", "text", "sound", "unsound"}] /\ asked' \in [Id -> Code]
        /\ code' \in Code /\ code' # NoCode
    <2>1. CASE RepairCrate
      <3>1. Repair(attempt) \in Id /\ Checkpoint(Repair(attempt), "text") /\ code' = Of(Repair(attempt))
        BY <2>1, Ids DEF RepairCrate, TypeOK
      <3> QED
        BY <3>1, <1>1, CheckpointDoes, CodesAre, NotNoCode
    <2>2. CASE Escalate
      <3>1. /\ Fix(depth) \in Id /\ Checkpoint(Fix(depth), "text") /\ depth \in 0..MaxEscalations
            /\ code \in Code /\ code' = [code EXCEPT !.fix = Fix(depth)]
        BY <2>2, Ids DEF Escalate, TypeOK
      <3> QED
        BY <3>1, <1>1, CheckpointDoes, CodesAre, NotNoCode
    <2>3. CASE RepairSoundness
      <3>1. /\ SoundnessRepair(round) \in Id /\ Checkpoint(SoundnessRepair(round), "text")
            /\ code' = Of(SoundnessRepair(round))
        BY <2>3, Ids DEF RepairSoundness, TypeOK
      <3> QED
        BY <3>1, <1>1, CheckpointDoes, CodesAre, NotNoCode
    <2> QED
      BY <2>1, <2>2, <2>3
  <1>4. /\ attempt' \in 0..MaxIter /\ depth' \in 0..MaxEscalations /\ round' = round
        /\ panel' \in BOOLEAN /\ (panel' => round < MaxIter)
    <2>1. CASE RepairCrate
      BY <2>1, AssemblyAssumption DEF RepairCrate, LoopsAccounted, TypeOK
    <2>2. CASE Escalate
      BY <2>2, AssemblyAssumption DEF Escalate, LoopsAccounted, TypeOK
    <2>3. CASE RepairSoundness
      BY <2>3, AssemblyAssumption DEF RepairSoundness, LoopsAccounted, TypeOK
    <2> QED
      BY <2>1, <2>2, <2>3
  <1>5. TypeOK'
    BY <1>2, <1>3, <1>4 DEF TypeOK, Working
  <1>6. LoopsAccounted' /\ HeldCodePassed' /\ EmittedPassed'
    BY <1>2, <1>3, <1>4 DEF LoopsAccounted, HeldCodePassed, EmittedPassed
  <1> QED
    BY <1>5, <1>6

\* A refactor that is kept passed the gate; one that is not is rejected for good.
LEMMA RefactorKeeps ==
  ASSUME Inductive, RefactorCrate
  PROVE  Inductive'
  <1> USE DEF Inductive
  <1>1. /\ pc = "refactor" /\ pc' = "ip" /\ v2 = NoCode /\ v2' = v2
        /\ UNCHANGED <<wordy, attempt, depth, round, panel, swallowed>>
    BY DEF RefactorCrate, EmittedPassed
  <1>2. Of(Refactor) \in Code /\ Of(Refactor) # NoCode /\ Refactor \in Id
    BY Ids, CodesAre, NotNoCode
  <1>3. answer' \in [Id -> {"none", "text", "sound", "unsound"}] /\ asked' \in [Id -> Code]
    BY <1>2, CheckpointDoes DEF RefactorCrate
  <1>4. /\ gate' \in [Code -> {"unknown", "ok", "errors"}] /\ dir' \subseteq Code
        /\ code' \in Code /\ code' # NoCode /\ gate'[code'] = "ok"
        /\ ~Rejected' => dir' = {code'}
    <2>1. CASE Gate(Of(Refactor), "ok") /\ code' = Of(Refactor)
      BY <2>1, <1>2, GateDoes DEF Rejected
    <2>2. CASE Gate(Of(Refactor), "errors") /\ code' = code
      <3>1. gate[code] = "ok" /\ code \in Code /\ code # NoCode
        BY <1>1 DEF HeldCodePassed, TypeOK, Working
      <3>2. Rejected'
        BY <2>2, <1>2, GateDoes DEF Rejected
      <3> QED
        BY <2>2, <3>1, <3>2, <1>2, GateDoes
    <2> QED
      BY <2>1, <2>2 DEF RefactorCrate
  <1>5. TypeOK'
    BY <1>1, <1>3, <1>4 DEF TypeOK, Working
  <1>6. LoopsAccounted' /\ EmittedPassed'
    BY <1>1 DEF LoopsAccounted, EmittedPassed
  <1>7. HeldCodePassed'
    BY <1>1, <1>4 DEF HeldCodePassed
  <1> QED
    BY <1>5, <1>6, <1>7

\* The reviews: the code does not change, a verdict once given stays.
LEMMA ReviewKeeps ==
  ASSUME Inductive, ReviewIp \/ Sound \/ Unsound \/ ReviewReadiness
  PROVE  Inductive'
  <1> USE DEF Inductive, running
  <1>1. /\ v2 = NoCode /\ code # NoCode
        /\ UNCHANGED <<gate, v2, dir, wordy, code, attempt, depth, round, panel, swallowed>>
        /\ pc \in {"ip", "formal", "readiness"} /\ round \in 0..MaxIter
    BY DEF ReviewIp, Sound, Unsound, ReviewReadiness, EmittedPassed, HeldCodePassed, Working, TypeOK
  <1>2. PICK id \in Id : \E a : Checkpoint(id, a)
    BY <1>1, Ids DEF ReviewIp, Sound, Unsound, ReviewReadiness
  <1>3. answer' \in [Id -> {"none", "text", "sound", "unsound"}] /\ asked' \in [Id -> Code]
    BY <1>2, CheckpointDoes
  <1>4. pc' \in {"formal", "readiness", "soundness", "failed", "emit"}
    BY DEF ReviewIp, Sound, Unsound, ReviewReadiness, TypeOK
  <1>5. TypeOK'
    BY <1>1, <1>3, <1>4 DEF TypeOK, Working, Ended
  <1>6. LoopsAccounted'
    BY <1>1, <1>4 DEF ReviewIp, Sound, Unsound, ReviewReadiness, LoopsAccounted, TypeOK
  <1>7. pc' \in {"readiness", "emit"} => SomeSound'
    <2>1. CASE Sound
      <3>1. Checkpoint(FormalMethods(round), "sound") /\ FormalMethods(round) \in Id
        BY <2>1, <1>1, Ids DEF Sound
      <3>2. answer'[FormalMethods(round)] = "sound"
        BY <3>1, CheckpointDoes
      <3> QED
        BY <3>2, <1>1, Zenon DEF SomeSound
    <2>2. CASE Unsound
      BY <2>2 DEF Unsound
    <2>3. CASE ReviewReadiness
      <3>1. SomeSound
        BY <2>3 DEF ReviewReadiness, HeldCodePassed
      <3> QED
        BY <3>1, <1>2, SoundStays
    <2>4. CASE ReviewIp
      BY <2>4 DEF ReviewIp
    <2> QED
      BY <2>1, <2>2, <2>3, <2>4
  <1>8. HeldCodePassed'
    BY <1>1, <1>4, <1>7 DEF HeldCodePassed, Rejected
  <1>9. EmittedPassed'
    BY <1>1, <1>4 DEF EmittedPassed
  <1> QED
    BY <1>5, <1>6, <1>8, <1>9

\* The delivery: v2.rs is the held code or cut off, and the crate's files join the directory.
LEMMA EmitKeeps ==
  ASSUME Inductive, EmitV2 \/ EmitCutOff \/ WriteCrate
  PROVE  Inductive'
  <1> USE DEF Inductive, running
  <1>1. CASE EmitV2
    <2>1. /\ pc = "emit" /\ pc' = "write" /\ v2' = code /\ code # NoCode /\ gate[code] = "ok"
          /\ SomeSound /\ (~Rejected => dir = {code})
      BY <1>1 DEF EmitV2, HeldCodePassed, Working
    <2>2. UNCHANGED <<answer, asked, gate, dir, wordy, code, attempt, depth, round, panel, swallowed>>
      BY <1>1 DEF EmitV2
    <2>3. TypeOK'
      BY <2>1, <2>2 DEF TypeOK, Working
    <2>4. LoopsAccounted' /\ HeldCodePassed' /\ EmittedPassed'
      BY <2>1, <2>2 DEF LoopsAccounted, HeldCodePassed, EmittedPassed, SomeSound, Rejected
    <2> QED
      BY <2>3, <2>4
  <1>2. CASE EmitCutOff
    <2>1. TypeOK'
      BY <1>2, CodesAre DEF EmitCutOff, TypeOK, Ended
    <2>2. LoopsAccounted' /\ HeldCodePassed' /\ EmittedPassed'
      BY <1>2, CodesAre DEF EmitCutOff, LoopsAccounted, HeldCodePassed, EmittedPassed, Working
    <2> QED
      BY <2>1, <2>2
  <1>3. CASE WriteCrate
    <2>1. pc = "write" /\ pc' = "done" /\ code = v2 /\ v2 # NoCode /\ dir' = dir \cup {v2}
      BY <1>3 DEF WriteCrate, EmittedPassed
    <2>2. UNCHANGED <<answer, asked, gate, v2, wordy, code, attempt, depth, round, panel, swallowed>>
      BY <1>3 DEF WriteCrate
    <2>3. TypeOK'
      BY <2>1, <2>2 DEF TypeOK, Ended
    <2>4. LoopsAccounted' /\ HeldCodePassed'
      BY <2>1, <2>2 DEF LoopsAccounted, HeldCodePassed, Working
    <2>5. EmittedPassed'
      BY <2>1, <2>2 DEF EmittedPassed, SomeSound, Rejected
    <2> QED
      BY <2>3, <2>4, <2>5
  <1> QED
    BY <1>1, <1>2, <1>3

LEMMA StutterKeeps == Inductive /\ UNCHANGED vars => Inductive'
  BY DEF vars, durable, running, Inductive, TypeOK, LoopsAccounted, HeldCodePassed,
         EmittedPassed, SomeSound, Rejected

LEMMA InductiveNext == Inductive /\ [Next]_vars => Inductive'
  BY ControlKeeps, GateKeeps, RepairKeeps, RefactorKeeps, ReviewKeeps, EmitKeeps, StutterKeeps, Zenon
     DEF Next, Step

LEMMA AlwaysInductive == Spec => []Inductive
  BY InductiveInit, InductiveNext, PTL DEF Spec

-----------------------------------------------------------------------------
(* Replay.  Answers of repairs and fix plans name the code that is gated next, and the gate's    *)
(* verdicts stay: the way through an integration check is a function of the code it starts with. *)

\* The code gated at depth d after a attempts, in a check of what checkpoint c0 holds.
CodeAt(c0, d, a) ==
    IF a > 0 THEN Of(Repair(a - 1))
    ELSE IF d = 0 THEN Of(c0)
    ELSE [base |-> IF MaxIter = 0 THEN c0 ELSE Repair(MaxIter - 1), fix |-> Fix(d - 1)]

Before(d, a, e, b) == d < e \/ (d = e /\ a < b)

\* The check has been past everything before this place.
Behind(c0, d, a) ==
    \A e \in 0..MaxEscalations, b \in 0..MaxIter : Before(e, b, d, a) =>
        /\ gate[CodeAt(c0, e, b)] = "errors"
        /\ b < MaxIter => answer[Repair(b)] # "none"
        /\ b = MaxIter => answer[Fix(e)] # "none"

\* The check ends here, with code c.
Result(c0, c) ==
    \E d \in 0..MaxEscalations, a \in 0..MaxIter :
        Behind(c0, d, a) /\ gate[CodeAt(c0, d, a)] = "ok" /\ c = CodeAt(c0, d, a)

\* The refactor pass makes c of r.
Refactored(r, c) ==
    IF ~wordy THEN c = r
    ELSE /\ answer[Refactor] # "none"
         /\ \/ gate[Of(Refactor)] = "ok" /\ c = Of(Refactor)
            \/ gate[Of(Refactor)] = "errors" /\ c = r

\* Round n of the soundness check is about code c.
Entered(n, c) ==
    IF n = 0 THEN \E r \in Code : Result(Start.base, r) /\ Refactored(r, c)
    ELSE Result(SoundnessRepair(n - 1), c)

Bases == {Start.base} \cup {SoundnessRepair(n) : n \in 0..MaxIter}

LEMMA CodesAt ==
  ASSUME NEW c0 \in Bases, NEW d \in 0..MaxEscalations, NEW a \in 0..MaxIter
  PROVE  CodeAt(c0, d, a) \in Code
  <1>0. /\ MaxIter \in Nat /\ MaxEscalations \in Nat /\ d \in Nat /\ a \in Nat
        /\ \A n \in 0..MaxIter : Repair(n) \in Id
    BY AssemblyAssumption, Ids
  <1>1. c0 \in Id \cup {Start.base}
    BY Ids DEF Bases
  <1>2. Of(c0) \in Code
    BY <1>1 DEF Of, Code
  <1>3. CASE a > 0
    <2>1. a - 1 \in 0..MaxIter
      BY <1>0, <1>3
    <2>2. Of(Repair(a - 1)) \in Code
      BY <1>0, <2>1, CodesAre
    <2> QED
      BY <1>3, <2>2 DEF CodeAt
  <1>4. CASE ~(a > 0) /\ d = 0
    BY <1>2, <1>4 DEF CodeAt
  <1>5. CASE ~(a > 0) /\ d # 0
    <2>1. d - 1 \in 0..MaxEscalations /\ (MaxIter # 0 => MaxIter - 1 \in 0..MaxIter)
      BY <1>0, <1>5
    <2> DEFINE b == IF MaxIter = 0 THEN c0 ELSE Repair(MaxIter - 1)
    <2>2. b \in Id \cup {Start.base}
      BY <1>0, <1>1, <2>1
    <2> HIDE DEF b
    <2>3. [base |-> b, fix |-> Fix(d - 1)] \in Code
      BY <2>1, <2>2 DEF Code
    <2> QED
      BY <1>5, <2>3 DEF CodeAt, b
  <1> QED
    BY <1>3, <1>4, <1>5

LEMMA OneResult ==
  ASSUME NEW c0, NEW c, NEW c2, Result(c0, c), Result(c0, c2)
  PROVE  c = c2
  <1>1. PICK d \in 0..MaxEscalations, a \in 0..MaxIter :
           Behind(c0, d, a) /\ gate[CodeAt(c0, d, a)] = "ok" /\ c = CodeAt(c0, d, a)
    BY DEF Result
  <1>2. PICK e \in 0..MaxEscalations, b \in 0..MaxIter :
           Behind(c0, e, b) /\ gate[CodeAt(c0, e, b)] = "ok" /\ c2 = CodeAt(c0, e, b)
    BY DEF Result
  <1>3. ~Before(d, a, e, b) /\ ~Before(e, b, d, a)
    BY <1>1, <1>2 DEF Behind
  <1>4. d = e /\ a = b
    BY <1>3, AssemblyAssumption DEF Before
  <1> QED
    BY <1>1, <1>2, <1>4

LEMMA OneEntered ==
  ASSUME NEW n, NEW c, NEW c2, Entered(n, c), Entered(n, c2)
  PROVE  c = c2
  <1>1. CASE n = 0
    <2>1. PICK r \in Code : Result(Start.base, r) /\ Refactored(r, c)
      BY <1>1 DEF Entered
    <2>2. PICK r2 \in Code : Result(Start.base, r2) /\ Refactored(r2, c2)
      BY <1>1 DEF Entered
    <2>3. r = r2
      BY <2>1, <2>2, OneResult
    <2>4. CASE wordy
      <3>1. \/ gate[Of(Refactor)] = "ok" /\ c = Of(Refactor)
            \/ gate[Of(Refactor)] = "errors" /\ c = r
        BY <2>1, <2>4, Zenon DEF Refactored
      <3>2. \/ gate[Of(Refactor)] = "ok" /\ c2 = Of(Refactor)
            \/ gate[Of(Refactor)] = "errors" /\ c2 = r
        BY <2>2, <2>3, <2>4, Zenon DEF Refactored
      <3> QED
        BY <3>1, <3>2
    <2>5. CASE ~wordy
      BY <2>1, <2>2, <2>3, <2>5 DEF Refactored
    <2> QED
      BY <2>4, <2>5
  <1>2. CASE n # 0
    BY <1>2, OneResult DEF Entered
  <1> QED
    BY <1>1, <1>2

-----------------------------------------------------------------------------
(* Nothing that is known changes. *)

Grows ==
    /\ \A id \in Id : answer[id] # "none" => answer'[id] = answer[id] /\ asked'[id] = asked[id]
    /\ \A c \in Code : gate[c] # "unknown" => gate'[c] = gate[c]
    /\ wordy' = wordy

LEMMA StepGrows == ASSUME Inductive, [Next]_vars PROVE Grows /\ (~swallowed' => ~swallowed)
  <1> USE DEF Inductive, TypeOK, Grows, durable, running
  <1>0. code \in Code /\ Of(Refactor) \in Code
    BY Ids, CodesAre
  <1>1. ASSUME NEW id \in Id, NEW a, Checkpoint(id, a)
        PROVE  \A i \in Id : answer[i] # "none" => answer'[i] = answer[i] /\ asked'[i] = asked[i]
    BY <1>1 DEF Checkpoint
  <1>2. ASSUME NEW c \in Code, NEW g, Gate(c, g)
        PROVE  \A k \in Code : gate[k] # "unknown" => gate'[k] = gate[k]
    BY <1>2, GateDoes
  <1>3. CASE Launch \/ Crash \/ Error \/ NoRefactor \/ RefactorFails \/ UNCHANGED vars
             \/ EmitV2 \/ EmitCutOff \/ WriteCrate
    BY <1>3 DEF Launch, Crash, Error, NoRefactor, RefactorFails, vars, EmitV2, EmitCutOff, WriteCrate
  <1>4. CASE GatePasses \/ GateFails
    BY <1>0, <1>2, <1>4 DEF GatePasses, GateFails
  <1>5. CASE RepairCrate \/ Escalate \/ RepairSoundness
    <2>1. Repair(attempt) \in Id /\ Fix(depth) \in Id /\ SoundnessRepair(round) \in Id
      BY Ids
    <2> QED
      BY <1>1, <1>5, <2>1 DEF RepairCrate, Escalate, RepairSoundness
  <1>6. CASE RefactorCrate
    <2>1. Refactor \in Id
      BY Ids
    <2> QED
      BY <1>0, <1>1, <1>2, <1>6, <2>1 DEF RefactorCrate
  <1>7. CASE ReviewIp \/ Sound \/ Unsound \/ ReviewReadiness
    <2>1. IpCounsel \in Id /\ Readiness \in Id /\ FormalMethods(round) \in Id
      BY Ids
    <2> QED
      BY <1>1, <1>7, <2>1 DEF ReviewIp, Sound, Unsound, ReviewReadiness
  <1> QED
    BY <1>3, <1>4, <1>5, <1>6, <1>7, Zenon DEF Next, Step

LEMMA BehindStays ==
  ASSUME Grows, NEW c0 \in Bases, NEW d, NEW a, Behind(c0, d, a)
  PROVE  Behind(c0, d, a)'
  <1> SUFFICES ASSUME NEW e \in 0..MaxEscalations, NEW b \in 0..MaxIter, Before(e, b, d, a)
               PROVE  /\ gate'[CodeAt(c0, e, b)] = "errors"
                      /\ b < MaxIter => answer'[Repair(b)] # "none"
                      /\ b = MaxIter => answer'[Fix(e)] # "none"
    BY Zenon DEF Behind, CodeAt
  <1>1. CodeAt(c0, e, b) \in Code /\ Repair(b) \in Id /\ Fix(e) \in Id
    BY CodesAt, Ids
  <1> QED
    BY <1>1 DEF Behind, Grows

LEMMA ResultStays ==
  ASSUME Grows, NEW c0 \in Bases, NEW c, Result(c0, c)
  PROVE  Result(c0, c)'
  <1>1. PICK d \in 0..MaxEscalations, a \in 0..MaxIter :
           Behind(c0, d, a) /\ gate[CodeAt(c0, d, a)] = "ok" /\ c = CodeAt(c0, d, a)
    BY DEF Result
  <1>2. Behind(c0, d, a)'
    BY <1>1, BehindStays
  <1>3. gate'[CodeAt(c0, d, a)] = "ok"
    BY <1>1, CodesAt DEF Grows
  <1> QED
    BY <1>1, <1>2, <1>3, Zenon DEF Result, CodeAt

LEMMA EnteredStays ==
  ASSUME Grows, NEW n \in 0..MaxIter, NEW c, Entered(n, c)
  PROVE  Entered(n, c)'
  <1>0. n \in Nat /\ Start.base \in Bases /\ Of(Refactor) \in Code /\ Refactor \in Id
    BY AssemblyAssumption, Ids, CodesAre DEF Bases
  <1>1. CASE n = 0
    <2>1. PICK r \in Code : Result(Start.base, r) /\ Refactored(r, c)
      BY <1>1 DEF Entered
    <2>2. Result(Start.base, r)'
      BY <1>0, <2>1, ResultStays
    <2>3. Refactored(r, c)'
      BY <1>0, <2>1 DEF Refactored, Grows
    <2> QED
      BY <1>1, <2>2, <2>3, Zenon DEF Entered
  <1>2. CASE n # 0
    <2>1. SoundnessRepair(n - 1) \in Bases
      BY <1>0, <1>2, AssemblyAssumption DEF Bases
    <2>2. Result(SoundnessRepair(n - 1), c)'
      BY <1>2, <2>1, ResultStays DEF Entered
    <2> QED
      BY <1>2, <2>2, Zenon DEF Entered
  <1> QED
    BY <1>1, <1>2

-----------------------------------------------------------------------------
(* What the launch and the checkpoints know of each other. *)

AllUnsound(n) == \A k \in 0..(n - 1) : answer[FormalMethods(k)] = "unsound"

\* The check that started with the milestones ends here or before.
EndedBy(d, a) ==
    \E e \in 0..MaxEscalations, b \in 0..MaxIter :
        ~Before(d, a, e, b) /\ gate[CodeAt(Start.base, e, b)] = "ok"

\* The round in which the reviewer called the code sound.
SoundRound(n) == answer[FormalMethods(n)] = "sound" /\ AllUnsound(n)

Judged(c) ==
    /\ answer[Readiness] # "none" /\ asked[Readiness] = c
    /\ \E n \in 0..MaxIter : answer[FormalMethods(n)] = "sound" /\ asked[FormalMethods(n)] = c

\* What c may be if it is the code that checkpoint id is about.
About(id, c) ==
    /\ \A n \in 0..MaxIter : id \in {FormalMethods(n), SoundnessRepair(n)} => Entered(n, c)
    /\ id = Readiness => \E n \in 0..MaxIter : SoundRound(n) /\ Entered(n, c)
    /\ \A a \in 0..MaxIter : id = Repair(a) => c = CodeAt(Start.base, 0, a) \/ EndedBy(0, a)
    /\ \A d \in 0..MaxEscalations :
          id = Fix(d) => c = CodeAt(Start.base, d, MaxIter) \/ EndedBy(d, MaxIter)

Answers == \A id \in Id : answer[id] # "none" => About(id, asked[id])

Emitted == v2 \notin {NoCode, Torn} => Judged(v2)

Origin == IF panel THEN SoundnessRepair(round) ELSE Start.base

\* What the launch knows of the code it holds.
Held ==
    /\ pc \in {"gate", "repair", "escalate"} =>
          /\ code = CodeAt(Origin, depth, attempt) /\ Behind(Origin, depth, attempt)
          /\ pc # "gate" => gate[code] = "errors"
          /\ pc = "escalate" => attempt = MaxIter
          /\ panel => AllUnsound(round + 1)
          /\ ~panel => round = 0
    /\ pc = "refactor" => ~panel /\ round = 0 /\ Result(Start.base, code)
    /\ pc = "ip" => round = 0 /\ Entered(0, code)
    /\ pc \in {"formal", "readiness", "emit"} => Entered(round, code) /\ AllUnsound(round)
    /\ pc = "soundness" => Entered(round, code) /\ AllUnsound(round + 1)
    /\ pc \in {"readiness", "emit"} =>
          answer[FormalMethods(round)] = "sound" /\ asked[FormalMethods(round)] = code
    /\ pc = "emit" => answer[Readiness] # "none" /\ asked[Readiness] = code

Replay == ~swallowed => Answers /\ Emitted /\ Held

-----------------------------------------------------------------------------
(* What is known about an answer stays true of it. *)

LEMMA NumbersAre ==
  /\ MaxIter \in Nat /\ MaxEscalations \in Nat
  /\ \A n \in 0..MaxIter : n \in Nat
  /\ \A n \in 0..MaxEscalations : n \in Nat
  BY AssemblyAssumption

LEMMA AllUnsoundStays ==
  ASSUME Grows, NEW n \in Nat, n <= MaxIter + 1, AllUnsound(n)
  PROVE  AllUnsound(n)'
  <1> SUFFICES ASSUME NEW k \in 0..(n - 1) PROVE answer'[FormalMethods(k)] = "unsound"
    BY DEF AllUnsound
  <1>1. k \in 0..MaxIter
    BY NumbersAre
  <1> QED
    BY <1>1, Ids DEF AllUnsound, Grows

LEMMA EndedByStays ==
  ASSUME Grows, NEW d, NEW a, EndedBy(d, a)
  PROVE  EndedBy(d, a)'
  <1>1. PICK e \in 0..MaxEscalations, b \in 0..MaxIter :
           ~Before(d, a, e, b) /\ gate[CodeAt(Start.base, e, b)] = "ok"
    BY DEF EndedBy
  <1>2. CodeAt(Start.base, e, b) \in Code
    BY CodesAt DEF Bases
  <1>3. gate'[CodeAt(Start.base, e, b)] = "ok"
    BY <1>1, <1>2 DEF Grows
  <1> QED
    BY <1>1, <1>3, Zenon DEF EndedBy, CodeAt

LEMMA SoundRoundStays ==
  ASSUME Grows, NEW n \in 0..MaxIter, SoundRound(n)
  PROVE  SoundRound(n)'
  <1>1. n \in Nat /\ n <= MaxIter + 1
    BY NumbersAre
  <1>2. AllUnsound(n)'
    BY <1>1, AllUnsoundStays DEF SoundRound
  <1>3. answer'[FormalMethods(n)] = "sound"
    BY Ids DEF SoundRound, Grows
  <1> QED
    BY <1>2, <1>3 DEF SoundRound

LEMMA OneSoundRound ==
  ASSUME NEW n \in 0..MaxIter, NEW k \in 0..MaxIter, SoundRound(n), SoundRound(k)
  PROVE  n = k
  <1>1. n \in Nat /\ k \in Nat
    BY NumbersAre
  <1>2. ASSUME n < k PROVE FALSE
    <2>1. n \in 0..(k - 1)
      BY <1>1, <1>2
    <2> QED
      BY <2>1 DEF SoundRound, AllUnsound
  <1>3. ASSUME k < n PROVE FALSE
    <2>1. k \in 0..(n - 1)
      BY <1>1, <1>3
    <2> QED
      BY <2>1 DEF SoundRound, AllUnsound
  <1> QED
    BY <1>1, <1>2, <1>3

LEMMA JudgedStays == ASSUME Grows, NEW c, Judged(c) PROVE Judged(c)'
  <1>1. PICK n \in 0..MaxIter : answer[FormalMethods(n)] = "sound" /\ asked[FormalMethods(n)] = c
    BY DEF Judged
  <1>2. answer'[FormalMethods(n)] = "sound" /\ asked'[FormalMethods(n)] = c
    BY <1>1, Ids DEF Grows
  <1>3. answer'[Readiness] # "none" /\ asked'[Readiness] = c
    BY Ids DEF Judged, Grows
  <1> QED
    BY <1>2, <1>3 DEF Judged

LEMMA AboutStays ==
  ASSUME Grows, NEW id, NEW c, About(id, c)
  PROVE  About(id, c)'
  <1>1. \A n \in 0..MaxIter : id \in {FormalMethods(n), SoundnessRepair(n)} => Entered(n, c)'
    BY EnteredStays DEF About
  <1>2. id = Readiness => \E n \in 0..MaxIter : SoundRound(n)' /\ Entered(n, c)'
    BY EnteredStays, SoundRoundStays DEF About
  <1>3. \A a \in 0..MaxIter : id = Repair(a) => c = CodeAt(Start.base, 0, a) \/ EndedBy(0, a)'
    BY EndedByStays DEF About
  <1>4. \A d \in 0..MaxEscalations :
          id = Fix(d) => c = CodeAt(Start.base, d, MaxIter) \/ EndedBy(d, MaxIter)'
    BY EndedByStays DEF About
  <1> QED
    BY <1>1, <1>2, <1>3, <1>4 DEF About, CodeAt

LEMMA AnswersStay ==
  ASSUME Grows, Answers, NEW c,
         \A i \in Id : answer'[i] # "none" /\ answer[i] = "none" => asked'[i] = c /\ About(i, c)
  PROVE  Answers'
  <1> SUFFICES ASSUME NEW i \in Id, answer'[i] # "none" PROVE About(i, asked[i])'
    BY DEF Answers
  <1>1. PICK x : x = asked'[i] /\ About(i, x)
    <2>1. CASE answer[i] = "none"
      BY <2>1
    <2>2. CASE answer[i] # "none"
      BY <2>2 DEF Answers, Grows
    <2> QED
      BY <2>1, <2>2
  <1>2. About(i, x)'
    BY <1>1, AboutStays
  <1> QED
    BY <1>1, <1>2 DEF About

\* What a checkpoint says is about the code in hand, if what it is about is settled and the
\* code in hand is it.
LEMMA CheckpointAbout ==
  ASSUME TypeOK, Grows, Answers, NEW id \in Id, NEW a, Checkpoint(id, a),
         answer[id] = "none" => About(id, code)
  PROVE  Answers' /\ answer'[id] = a /\ a # "none" /\ (answer[id] = "none" => asked'[id] = code)
  <1>1. answer'[id] = a /\ a # "none"
    BY DEF Checkpoint, TypeOK
  <1>2. \A i \in Id : answer'[i] # "none" /\ answer[i] = "none" => i = id /\ asked'[i] = code /\ About(i, code)
    BY DEF Checkpoint, TypeOK
  <1>3. PICK c : c = code
    OBVIOUS
  <1>4. Answers'
    BY <1>2, <1>3, AnswersStay
  <1> QED
    BY <1>1, <1>2, <1>4

LEMMA AnswersKept ==
  ASSUME Grows, Answers, answer' = answer
  PROVE  Answers'
  BY AnswersStay

-----------------------------------------------------------------------------
(* What is asked is about the code in hand. *)

LEMMA NamesDiffer ==
  ASSUME NEW m \in Nat, NEW n \in Nat
  PROVE  /\ FormalMethods(m) # SoundnessRepair(n) /\ FormalMethods(m) # Repair(n)
         /\ FormalMethods(m) # Fix(n) /\ FormalMethods(m) # Readiness /\ FormalMethods(m) # Refactor
         /\ FormalMethods(m) # IpCounsel
         /\ SoundnessRepair(m) # Repair(n) /\ SoundnessRepair(m) # Fix(n)
         /\ SoundnessRepair(m) # Readiness /\ SoundnessRepair(m) # Refactor
         /\ SoundnessRepair(m) # IpCounsel
         /\ Repair(m) # Fix(n) /\ Repair(m) # Readiness /\ Repair(m) # Refactor /\ Repair(m) # IpCounsel
         /\ Fix(m) # Readiness /\ Fix(m) # Refactor /\ Fix(m) # IpCounsel
         /\ Readiness # Refactor /\ Readiness # IpCounsel
         /\ FormalMethods(m) = FormalMethods(n) => m = n
         /\ SoundnessRepair(m) = SoundnessRepair(n) => m = n
         /\ Repair(m) = Repair(n) => m = n
         /\ Fix(m) = Fix(n) => m = n
  BY DEF FormalMethods, SoundnessRepair, Repair, Fix, Readiness, Refactor, IpCounsel

LEMMA AboutOf ==
  ASSUME NEW c, NEW n \in 0..MaxIter, NEW d \in 0..MaxEscalations
  PROVE  /\ About(Refactor, c) /\ About(IpCounsel, c)
         /\ Entered(n, c) => About(FormalMethods(n), c) /\ About(SoundnessRepair(n), c)
         /\ SoundRound(n) /\ Entered(n, c) => About(Readiness, c)
         /\ c = CodeAt(Start.base, 0, n) \/ EndedBy(0, n) => About(Repair(n), c)
         /\ c = CodeAt(Start.base, d, MaxIter) \/ EndedBy(d, MaxIter) => About(Fix(d), c)
  <1> USE NumbersAre, NamesDiffer
  <1>0. n \in Nat /\ d \in Nat
    OBVIOUS
  <1>1. About(Refactor, c) /\ About(IpCounsel, c)
    BY DEF About
  <1>2. Entered(n, c) => About(FormalMethods(n), c)
    BY <1>0 DEF About
  <1>3. Entered(n, c) => About(SoundnessRepair(n), c)
    BY <1>0 DEF About
  <1>4. SoundRound(n) /\ Entered(n, c) => About(Readiness, c)
    BY <1>0 DEF About
  <1>5. c = CodeAt(Start.base, 0, n) \/ EndedBy(0, n) => About(Repair(n), c)
    BY <1>0 DEF About
  <1>6. c = CodeAt(Start.base, d, MaxIter) \/ EndedBy(d, MaxIter) => About(Fix(d), c)
    BY <1>0 DEF About
  <1> QED
    BY <1>1, <1>2, <1>3, <1>4, <1>5, <1>6

\* A check that is past a place it started from the milestones has not ended there.
LEMMA NotEndedYet ==
  ASSUME NEW d \in 0..MaxEscalations, NEW a \in 0..MaxIter,
         Behind(Start.base, d, a), gate[CodeAt(Start.base, d, a)] = "errors"
  PROVE  ~EndedBy(d, a)
  <1> SUFFICES ASSUME NEW e \in 0..MaxEscalations, NEW b \in 0..MaxIter,
                      ~Before(d, a, e, b), gate[CodeAt(Start.base, e, b)] = "ok"
               PROVE  FALSE
    BY DEF EndedBy
  <1>1. Before(e, b, d, a) \/ (e = d /\ b = a)
    BY NumbersAre DEF Before
  <1> QED
    BY <1>1 DEF Behind

\* Once the reviewer has been asked, the check of the milestones has ended: at the repair or fix
\* nobody has been asked for, or before.
LEMMA EndedBefore ==
  ASSUME NEW c, Entered(0, c), NEW d \in 0..MaxEscalations, NEW a \in 0..MaxIter,
         \/ a < MaxIter /\ answer[Repair(a)] = "none"
         \/ a = MaxIter /\ answer[Fix(d)] = "none"
  PROVE  EndedBy(d, a)
  <1>1. PICK r : Result(Start.base, r)
    BY DEF Entered
  <1>2. PICK e \in 0..MaxEscalations, b \in 0..MaxIter :
           Behind(Start.base, e, b) /\ gate[CodeAt(Start.base, e, b)] = "ok"
    BY <1>1 DEF Result
  <1>3. ~Before(d, a, e, b)
    BY <1>2 DEF Behind
  <1> QED
    BY <1>2, <1>3 DEF EndedBy

\* In the panel's checks the first round has been entered.
LEMMA PanelEntered ==
  ASSUME TypeOK, Answers, Held, pc \in {"gate", "repair", "escalate"}, panel
  PROVE  \E c : Entered(0, c)
  <1>1. AllUnsound(round + 1) /\ round \in Nat
    BY NumbersAre DEF Held, TypeOK
  <1>2. answer[FormalMethods(0)] = "unsound" /\ 0 \in 0..MaxIter
    BY <1>1, NumbersAre DEF AllUnsound
  <1>3. FormalMethods(0) \in Id
    BY <1>2, Ids
  <1>4. About(FormalMethods(0), asked[FormalMethods(0)])
    BY <1>2, <1>3 DEF Answers
  <1> QED
    BY <1>2, <1>4 DEF About

\* The code a repair or a fix plan is asked about, where it is asked.
LEMMA AsksAboutHeld ==
  ASSUME Inductive, Answers, Held
  PROVE  /\ pc = "repair" /\ answer[Repair(attempt)] = "none" => About(Repair(attempt), code)
         /\ pc = "escalate" /\ answer[Fix(depth)] = "none" => About(Fix(depth), code)
  <1>0. /\ TypeOK /\ attempt \in 0..MaxIter /\ depth \in 0..MaxEscalations
        /\ pc = "repair" => attempt < MaxIter
    BY DEF Inductive, TypeOK, LoopsAccounted
  <1>1. ASSUME pc = "repair", answer[Repair(attempt)] = "none"
        PROVE  code = CodeAt(Start.base, 0, attempt) \/ EndedBy(0, attempt)
    <2>1. CASE panel
      BY <1>0, <1>1, <2>1, PanelEntered, EndedBefore, NumbersAre
    <2>2. CASE ~panel
      <3>1. code = CodeAt(Start.base, depth, attempt) /\ Behind(Start.base, depth, attempt)
        BY <1>1, <2>2 DEF Held, Origin
      <3>2. depth = 0
        <4>1. Before(0, attempt, depth, attempt) => FALSE
          BY <1>0, <1>1, <3>1, NumbersAre DEF Behind
        <4> QED
          BY <1>0, <4>1, NumbersAre DEF Before
      <3> QED
        BY <3>1, <3>2
    <2> QED
      BY <2>1, <2>2
  <1>2. ASSUME pc = "escalate", answer[Fix(depth)] = "none"
        PROVE  code = CodeAt(Start.base, depth, MaxIter) \/ EndedBy(depth, MaxIter)
    <2>0. attempt = MaxIter
      BY <1>2 DEF Held
    <2>1. CASE panel
      BY <1>0, <1>2, <2>0, <2>1, PanelEntered, EndedBefore
    <2>2. CASE ~panel
      BY <1>2, <2>0, <2>2 DEF Held, Origin
    <2> QED
      BY <2>1, <2>2
  <1> QED
    BY <1>0, <1>1, <1>2, AboutOf

\* What has been asked is about the code in hand.
LEMMA AskedAboutHeld ==
  ASSUME Inductive, Answers, Held
  PROVE  /\ pc = "repair" /\ ~panel /\ depth = 0 /\ answer[Repair(attempt)] # "none"
            => asked[Repair(attempt)] = code
         /\ pc = "escalate" /\ ~panel /\ answer[Fix(depth)] # "none" => asked[Fix(depth)] = code
         /\ pc = "formal" /\ answer[FormalMethods(round)] # "none" => asked[FormalMethods(round)] = code
         /\ pc = "soundness" /\ answer[SoundnessRepair(round)] # "none"
            => asked[SoundnessRepair(round)] = code
         /\ pc = "readiness" /\ answer[Readiness] # "none" => asked[Readiness] = code
  <1>0. /\ attempt \in 0..MaxIter /\ depth \in 0..MaxEscalations /\ round \in 0..MaxIter
        /\ Repair(attempt) \in Id /\ Fix(depth) \in Id /\ FormalMethods(round) \in Id
        /\ SoundnessRepair(round) \in Id /\ Readiness \in Id
    BY Ids DEF Inductive, TypeOK
  <1>1. ASSUME pc \in {"repair", "escalate"}, ~panel
        PROVE  code = CodeAt(Start.base, depth, attempt) /\ ~EndedBy(depth, attempt)
    <2>1. /\ code = CodeAt(Start.base, depth, attempt) /\ Behind(Start.base, depth, attempt)
          /\ gate[code] = "errors"
      BY <1>1 DEF Held, Origin
    <2> QED
      BY <1>0, <2>1, NotEndedYet
  <1>2. ASSUME pc = "repair", ~panel, depth = 0, answer[Repair(attempt)] # "none"
        PROVE  asked[Repair(attempt)] = code
    BY <1>0, <1>1, <1>2 DEF Answers, About
  <1>3. ASSUME pc = "escalate", ~panel, answer[Fix(depth)] # "none"
        PROVE  asked[Fix(depth)] = code
    <2>1. attempt = MaxIter
      BY <1>3 DEF Held
    <2> QED
      BY <1>0, <1>1, <1>3, <2>1 DEF Answers, About
  <1>4. ASSUME pc = "formal", answer[FormalMethods(round)] # "none"
        PROVE  asked[FormalMethods(round)] = code
    <2>1. Entered(round, asked[FormalMethods(round)]) /\ Entered(round, code)
      BY <1>0, <1>4 DEF Answers, About, Held
    <2> QED
      BY <2>1, OneEntered
  <1>5. ASSUME pc = "soundness", answer[SoundnessRepair(round)] # "none"
        PROVE  asked[SoundnessRepair(round)] = code
    <2>1. Entered(round, asked[SoundnessRepair(round)]) /\ Entered(round, code)
      BY <1>0, <1>5 DEF Answers, About, Held
    <2> QED
      BY <2>1, OneEntered
  <1>6. ASSUME pc = "readiness", answer[Readiness] # "none"
        PROVE  asked[Readiness] = code
    <2>1. PICK n \in 0..MaxIter : SoundRound(n) /\ Entered(n, asked[Readiness])
      BY <1>0, <1>6 DEF Answers, About
    <2>2. SoundRound(round) /\ Entered(round, code)
      BY <1>6 DEF Held, SoundRound
    <2>3. n = round
      BY <1>0, <2>1, <2>2, OneSoundRound
    <2> QED
      BY <2>1, <2>2, <2>3, OneEntered
  <1> QED
    BY <1>2, <1>3, <1>4, <1>5, <1>6

-----------------------------------------------------------------------------
(* The replay invariant, action by action. *)

LEMMA ReplayInit == Init => Replay
  BY DEF Init, Replay, Answers, Emitted, Held

LEMMA EmittedStays ==
  ASSUME Grows, Emitted, v2' = v2
  PROVE  Emitted'
  <1>1. PICK c : c = v2
    OBVIOUS
  <1>2. c \notin {NoCode, Torn} => Judged(c)'
    BY <1>1, JudgedStays DEF Emitted
  <1> QED
    BY <1>1, <1>2 DEF Emitted, Judged

\* The gate is next: what the launch must know of the code.
LEMMA GateIsNext ==
  ASSUME pc' = "gate", NEW c0, NEW d, NEW a, NEW n,
         depth' = d, attempt' = a, round' = n, Origin' = c0, code' = CodeAt(c0, d, a), Behind(c0, d, a)',
         panel' => AllUnsound(n + 1)', ~panel' => n = 0
  PROVE  Held'
  <1>1. code' = CodeAt(Origin', depth', attempt')
    OBVIOUS
  <1>2. Behind(Origin, depth, attempt)'
    BY DEF Behind
  <1>3. panel' => AllUnsound(round + 1)'
    BY DEF AllUnsound
  <1> QED
    BY <1>1, <1>2, <1>3 DEF Held, CodeAt

LEMMA EnteredOf ==
  ASSUME NEW n, NEW c, Entered(n, c)', round' = n, code' = c
  PROVE  Entered(round, code)'
  BY DEF Entered

LEMMA UnsoundOf ==
  ASSUME NEW n, AllUnsound(n)'
  PROVE  /\ round' = n => AllUnsound(round)'
         /\ round' + 1 = n => AllUnsound(round + 1)'
  BY DEF AllUnsound

LEMMA RoundKept ==
  ASSUME TypeOK, Grows, round' = round, code' = code
  PROVE  /\ Entered(round, code) => Entered(round, code)'
         /\ AllUnsound(round) => AllUnsound(round)'
         /\ AllUnsound(round + 1) => AllUnsound(round + 1)'
  <1>1. PICK n \in 0..MaxIter, c \in Code : n = round /\ c = code
    BY DEF TypeOK
  <1>2. n \in Nat /\ n + 1 \in Nat /\ n <= MaxIter + 1 /\ n + 1 <= MaxIter + 1
    BY NumbersAre
  <1>3. Entered(n, c) => Entered(round, code)'
    BY <1>1, EnteredStays, EnteredOf
  <1>4. AllUnsound(n) => AllUnsound(round)'
    BY <1>1, <1>2, AllUnsoundStays, UnsoundOf
  <1>5. AllUnsound(n + 1) => AllUnsound(round + 1)'
    BY <1>1, <1>2, AllUnsoundStays, UnsoundOf
  <1> QED
    BY <1>1, <1>3, <1>4, <1>5

LEMMA OriginIs == TypeOK => Origin \in Bases
  BY DEF Origin, Bases, TypeOK

LEMMA HeldElsewhere ==
  /\ pc' \notin {"gate", "repair", "escalate", "refactor", "ip", "formal", "soundness", "readiness", "emit"}
     => Held'
  /\ pc' = "refactor" /\ ~panel' /\ round' = 0 /\ Result(Start.base, code)' => Held'
  /\ pc' = "ip" /\ round' = 0 /\ Entered(0, code)' => Held'
  /\ pc' = "formal" /\ Entered(round, code)' /\ AllUnsound(round)' => Held'
  /\ pc' = "soundness" /\ Entered(round, code)' /\ AllUnsound(round + 1)' => Held'
  <1>1. pc' \notin {"gate", "repair", "escalate", "refactor", "ip", "formal", "soundness", "readiness", "emit"}
        => Held'
    BY DEF Held
  <1>2. pc' = "refactor" /\ ~panel' /\ round' = 0 /\ Result(Start.base, code)' => Held'
    BY DEF Held
  <1>3. pc' = "ip" /\ round' = 0 /\ Entered(0, code)' => Held'
    BY DEF Held
  <1>4. pc' = "formal" /\ Entered(round, code)' /\ AllUnsound(round)' => Held'
    BY DEF Held
  <1>5. pc' = "soundness" /\ Entered(round, code)' /\ AllUnsound(round + 1)' => Held'
    BY DEF Held
  <1> QED
    BY <1>1, <1>2, <1>3, <1>4, <1>5

\* A launch, a crash, an error.
LEMMA ControlReplays ==
  ASSUME Inductive, Grows, Answers, Emitted, Held, Launch \/ Crash \/ Error \/ NoRefactor
  PROVE  Answers' /\ Emitted' /\ Held'
  <1>1. Answers' /\ Emitted'
    BY AnswersKept, EmittedStays DEF Launch, Crash, Error, NoRefactor, durable
  <1> SUFFICES Held'
    BY <1>1
  <1>2. CASE Launch
    <2>1. CASE v2 # NoCode
      BY <1>2, <2>1, HeldElsewhere DEF Launch
    <2>2. CASE v2 = NoCode
      <3>1. Behind(Start.base, 0, 0)'
        BY NumbersAre DEF Behind, Before
      <3>2. code' = CodeAt(Start.base, 0, 0)
        BY <1>2, <2>2 DEF Launch, CodeAt, Start, Of
      <3> QED
        BY <1>2, <2>2, <3>1, <3>2, GateIsNext DEF Launch, Origin
    <2> QED
      BY <2>1, <2>2
  <1>3. CASE Crash \/ Error
    BY <1>3, HeldElsewhere DEF Crash, Error
  <1>4. CASE NoRefactor
    <2>1. /\ pc = "refactor" /\ pc' = "ip" /\ ~wordy /\ round = 0 /\ Result(Start.base, code)
          /\ round' = round /\ code' = code /\ TypeOK
      BY <1>4 DEF NoRefactor, running, Held, Inductive
    <2>2. Entered(0, code)
      BY <2>1 DEF Entered, Refactored, TypeOK
    <2>3. Entered(round, code)'
      BY <2>1, <2>2, RoundKept
    <2> QED
      BY <2>1, <2>3, HeldElsewhere
  <1> QED
    BY <1>2, <1>3, <1>4

\* The gate: the check goes on here, or it ends here.
LEMMA GateReplays ==
  ASSUME Inductive, Grows, Answers, Emitted, Held, GatePasses \/ GateFails
  PROVE  Answers' /\ Emitted' /\ Held'
  <1>0. /\ TypeOK /\ pc = "gate" /\ code \in Code /\ attempt \in 0..MaxIter
        /\ depth \in 0..MaxEscalations /\ round \in 0..MaxIter /\ Origin \in Bases
    BY OriginIs DEF Inductive, TypeOK, GatePasses, GateFails
  <1>1. Answers' /\ Emitted'
    BY AnswersKept, EmittedStays DEF GatePasses, GateFails
  <1> SUFFICES Held'
    BY <1>1
  <1>2. PICK c0 \in Bases, d \in 0..MaxEscalations, a \in 0..MaxIter, n \in 0..MaxIter, c \in Code :
           c0 = Origin /\ d = depth /\ a = attempt /\ n = round /\ c = code
    BY <1>0
  <1>3. /\ c = CodeAt(c0, d, a) /\ Behind(c0, d, a)' /\ n \in Nat
        /\ panel => AllUnsound(n + 1)' /\ c0 = SoundnessRepair(n)
        /\ ~panel => n = 0 /\ c0 = Start.base
    <2>1. /\ c = CodeAt(c0, d, a) /\ Behind(c0, d, a) /\ n \in Nat /\ n + 1 <= MaxIter + 1
          /\ panel => AllUnsound(n + 1) /\ c0 = SoundnessRepair(n)
          /\ ~panel => n = 0 /\ c0 = Start.base
      BY <1>0, <1>2, NumbersAre DEF Held, Origin
    <2> QED
      BY <2>1, BehindStays, AllUnsoundStays
  <1>4. CASE GatePasses
    <2>1. gate'[c] = "ok" /\ code' = c
      BY <1>0, <1>2, <1>4, GateDoes DEF GatePasses
    <2>2. Result(c0, c)'
      BY <1>3, <2>1, Zenon DEF Result, CodeAt
    <2>3. CASE panel
      <3>1. pc' = "formal" /\ round' = n + 1
        BY <1>2, <1>4, <2>3 DEF GatePasses
      <3>2. Entered(n + 1, c)'
        BY <1>3, <2>2, <2>3 DEF Entered
      <3>3. Entered(round, code)' /\ AllUnsound(round)'
        BY <1>3, <2>1, <2>3, <3>1, <3>2, EnteredOf, UnsoundOf
      <3> QED
        BY <3>1, <3>3, HeldElsewhere
    <2>4. CASE ~panel
      <3>1. pc' = "refactor" /\ ~panel' /\ round' = 0
        BY <1>2, <1>3, <1>4, <2>4 DEF GatePasses
      <3>2. Result(Start.base, code)'
        BY <1>3, <2>1, <2>2, <2>4 DEF Result
      <3> QED
        BY <3>1, <3>2, HeldElsewhere
    <2> QED
      BY <2>3, <2>4
  <1>5. CASE GateFails
    <2>1. /\ gate'[c] = "errors" /\ UNCHANGED running
          /\ pc' \in {"repair", "escalate", "failed"} /\ (pc' = "escalate" => attempt' = MaxIter)
      BY <1>0, <1>2, <1>5, GateDoes DEF GateFails, running
    <2>2. code' = CodeAt(Origin', depth', attempt')
      BY <1>2, <1>3, <2>1 DEF running, Origin
    <2>3. Behind(Origin, depth, attempt)'
      <3>1. Origin' = c0 /\ depth' = d /\ attempt' = a
        BY <1>2, <2>1 DEF running, Origin
      <3> QED
        BY <1>3, <3>1 DEF Behind
    <2>4. panel' => AllUnsound(round + 1)'
      BY <1>2, <1>3, <2>1, UnsoundOf DEF running
    <2>5. ~panel' => round' = 0
      BY <1>2, <1>3, <2>1 DEF running
    <2>6. gate'[code'] = "errors"
      BY <1>2, <2>1 DEF running
    <2> QED
      BY <2>1, <2>2, <2>3, <2>4, <2>5, <2>6 DEF Held, CodeAt
  <1> QED
    BY <1>4, <1>5

\* The place after a repair, and the place after a fix plan.
LEMMA CodeAfter ==
  ASSUME NEW c0, NEW d \in 0..MaxEscalations, NEW a \in 0..MaxIter
  PROVE  /\ CodeAt(c0, d, a + 1) = Of(Repair(a))
         /\ [CodeAt(c0, d, MaxIter) EXCEPT !.fix = Fix(d)] = CodeAt(c0, d + 1, 0)
  <1>0. MaxIter \in Nat /\ d \in Nat /\ a \in Nat
    BY NumbersAre
  <1>1. CodeAt(c0, d, a + 1) = Of(Repair(a))
    BY <1>0 DEF CodeAt
  <1> DEFINE b == IF MaxIter = 0 THEN c0 ELSE Repair(MaxIter - 1)
  <1>2. CodeAt(c0, d + 1, 0) = [base |-> b, fix |-> Fix(d)]
    BY <1>0 DEF CodeAt
  <1>3. PICK f : CodeAt(c0, d, MaxIter) = [base |-> b, fix |-> f]
    <2>1. CASE MaxIter = 0 /\ d = 0
      <3>1. CodeAt(c0, d, MaxIter) = [base |-> c0, fix |-> NoFix]
        BY <2>1 DEF CodeAt, Of
      <3> QED
        BY <2>1, <3>1
    <2>2. CASE MaxIter = 0 /\ d # 0
      <3>1. CodeAt(c0, d, MaxIter) = [base |-> c0, fix |-> Fix(d - 1)]
        BY <2>2 DEF CodeAt
      <3> QED
        BY <2>2, <3>1
    <2>3. CASE MaxIter > 0
      <3>1. CodeAt(c0, d, MaxIter) = [base |-> Repair(MaxIter - 1), fix |-> NoFix]
        BY <2>3 DEF CodeAt, Of
      <3>2. MaxIter # 0
        BY <2>3
      <3> QED
        BY <3>1, <3>2
    <2> QED
      BY <1>0, <2>1, <2>2, <2>3
  <1> HIDE DEF b
  <1>4. PICK c : c = [base |-> b, fix |-> f]
    OBVIOUS
  <1>5. [c EXCEPT !.fix = Fix(d)] = [base |-> b, fix |-> Fix(d)]
    BY <1>4
  <1> QED
    BY <1>1, <1>2, <1>3, <1>4, <1>5, Zenon

\* After a repair the check has been past its place too; after a fix plan, past the whole depth.
LEMMA BehindAfter ==
  ASSUME NEW c0, NEW d \in 0..MaxEscalations, NEW a \in 0..MaxIter,
         Behind(c0, d, a)', gate'[CodeAt(c0, d, a)] = "errors"
  PROVE  /\ a < MaxIter /\ answer'[Repair(a)] # "none" => Behind(c0, d, a + 1)'
         /\ a = MaxIter /\ answer'[Fix(d)] # "none" => Behind(c0, d + 1, 0)'
  <1>1. ASSUME a < MaxIter, answer'[Repair(a)] # "none"
        PROVE  Behind(c0, d, a + 1)'
    <2> SUFFICES ASSUME NEW e \in 0..MaxEscalations, NEW b \in 0..MaxIter, Before(e, b, d, a + 1)
                 PROVE  /\ gate'[CodeAt(c0, e, b)] = "errors"
                        /\ b < MaxIter => answer'[Repair(b)] # "none"
                        /\ b = MaxIter => answer'[Fix(e)] # "none"
      BY Zenon DEF Behind, CodeAt
    <2>1. Before(e, b, d, a) \/ (e = d /\ b = a)
      BY NumbersAre DEF Before
    <2>2. CASE Before(e, b, d, a)
      BY <2>2, Zenon DEF Behind, CodeAt
    <2>3. CASE e = d /\ b = a
      BY <1>1, <2>3
    <2> QED
      BY <2>1, <2>2, <2>3
  <1>2. ASSUME a = MaxIter, answer'[Fix(d)] # "none"
        PROVE  Behind(c0, d + 1, 0)'
    <2> SUFFICES ASSUME NEW e \in 0..MaxEscalations, NEW b \in 0..MaxIter, Before(e, b, d + 1, 0)
                 PROVE  /\ gate'[CodeAt(c0, e, b)] = "errors"
                        /\ b < MaxIter => answer'[Repair(b)] # "none"
                        /\ b = MaxIter => answer'[Fix(e)] # "none"
      BY Zenon DEF Behind, CodeAt
    <2>1. Before(e, b, d, a) \/ (e = d /\ b = a)
      BY <1>2, NumbersAre DEF Before
    <2>2. CASE Before(e, b, d, a)
      BY <2>2, Zenon DEF Behind, CodeAt
    <2>3. CASE e = d /\ b = a
      BY <1>2, <2>3
    <2> QED
      BY <2>1, <2>2, <2>3
  <1> QED
    BY <1>1, <1>2

\* A repair or a fix plan: the check goes on with the code its answer names.
LEMMA RepairReplays ==
  ASSUME Inductive, Grows, Answers, Emitted, Held, RepairCrate \/ Escalate
  PROVE  Answers' /\ Emitted' /\ Held'
  <1>0. /\ TypeOK /\ pc \in {"repair", "escalate"} /\ code \in Code /\ attempt \in 0..MaxIter
        /\ depth \in 0..MaxEscalations /\ round \in 0..MaxIter /\ Origin \in Bases
        /\ Repair(attempt) \in Id /\ Fix(depth) \in Id
        /\ pc = "repair" => attempt < MaxIter
    BY OriginIs, Ids DEF Inductive, TypeOK, LoopsAccounted, RepairCrate, Escalate
  <1>1. /\ Answers'
        /\ RepairCrate => answer'[Repair(attempt)] # "none"
        /\ Escalate => answer'[Fix(depth)] # "none"
    <2>1. CASE RepairCrate
      <3>1. pc = "repair" /\ Checkpoint(Repair(attempt), "text")
        BY <2>1 DEF RepairCrate
      <3>2. answer[Repair(attempt)] = "none" => About(Repair(attempt), code)
        BY <3>1, AsksAboutHeld
      <3>3. Answers' /\ answer'[Repair(attempt)] = "text"
        BY <1>0, <3>1, <3>2, CheckpointAbout
      <3> QED
        BY <3>1, <3>3 DEF Escalate
    <2>2. CASE Escalate
      <3>1. pc = "escalate" /\ Checkpoint(Fix(depth), "text")
        BY <2>2 DEF Escalate
      <3>2. answer[Fix(depth)] = "none" => About(Fix(depth), code)
        BY <3>1, AsksAboutHeld
      <3>3. Answers' /\ answer'[Fix(depth)] = "text"
        BY <1>0, <3>1, <3>2, CheckpointAbout
      <3> QED
        BY <3>1, <3>3 DEF RepairCrate
    <2> QED
      BY <2>1, <2>2
  <1>2. Emitted'
    BY EmittedStays DEF RepairCrate, Escalate
  <1> SUFFICES Held'
    BY <1>1, <1>2
  <1>3. PICK c0 \in Bases, d \in 0..MaxEscalations, a \in 0..MaxIter, n \in 0..MaxIter, c \in Code :
           c0 = Origin /\ d = depth /\ a = attempt /\ n = round /\ c = code
    BY <1>0
  <1>4. /\ c = CodeAt(c0, d, a) /\ Behind(c0, d, a)' /\ gate'[CodeAt(c0, d, a)] = "errors"
        /\ panel => AllUnsound(n + 1)'
        /\ ~panel => n = 0
        /\ pc = "escalate" => a = MaxIter
    <2>1. /\ c = CodeAt(c0, d, a) /\ Behind(c0, d, a) /\ n + 1 \in Nat /\ n + 1 <= MaxIter + 1
          /\ gate[c] = "errors"
          /\ pc = "escalate" => a = MaxIter
          /\ panel => AllUnsound(n + 1)
          /\ ~panel => n = 0
      BY <1>0, <1>3, NumbersAre DEF Held
    <2>2. gate'[c] = gate[c]
      BY <2>1 DEF Grows
    <2> QED
      BY <2>1, <2>2, BehindStays, AllUnsoundStays
  <1>5. pc' = "gate" /\ panel' = panel /\ round' = n /\ Origin' = c0
    BY <1>3 DEF RepairCrate, Escalate, Origin
  <1>6. CASE RepairCrate
    <2>1. a < MaxIter /\ answer'[Repair(a)] # "none"
      BY <1>0, <1>1, <1>3, <1>6 DEF RepairCrate
    <2>2. code' = CodeAt(c0, d, a + 1) /\ depth' = d /\ attempt' = a + 1
      BY <1>3, <1>6, CodeAfter DEF RepairCrate
    <2>3. Behind(c0, d, a + 1)'
      BY <1>4, <2>1, BehindAfter
    <2>4. PICK b : b = a + 1
      OBVIOUS
    <2> QED
      BY <1>4, <1>5, <2>2, <2>3, <2>4, GateIsNext
  <1>7. CASE Escalate
    <2>1. a = MaxIter /\ answer'[Fix(d)] # "none"
      BY <1>0, <1>1, <1>3, <1>4, <1>7 DEF Escalate
    <2>2. code' = [CodeAt(c0, d, MaxIter) EXCEPT !.fix = Fix(d)] /\ depth' = d + 1 /\ attempt' = 0
      BY <1>3, <1>4, <1>7, <2>1 DEF Escalate
    <2>3. Behind(c0, d + 1, 0)'
      BY <1>4, <2>1, BehindAfter
    <2>4. code' = CodeAt(c0, d + 1, 0)
      BY <2>2, CodeAfter, Zenon
    <2> QED
      BY <1>4, <1>5, <2>2, <2>3, <2>4, GateIsNext
  <1> QED
    BY <1>6, <1>7

\* A soundness repair starts a new check.
LEMMA SoundnessReplays ==
  ASSUME Inductive, Grows, Answers, Emitted, Held, RepairSoundness
  PROVE  Answers' /\ Emitted' /\ Held'
  <1>0. TypeOK /\ round \in 0..MaxIter /\ SoundnessRepair(round) \in Id /\ 0 \in 0..MaxEscalations
    BY Ids, NumbersAre DEF Inductive, TypeOK
  <1>1. Checkpoint(SoundnessRepair(round), "text") /\ Entered(round, code) /\ AllUnsound(round + 1)
    BY DEF RepairSoundness, Held
  <1>2. Answers'
    BY <1>0, <1>1, AboutOf, CheckpointAbout
  <1>3. Emitted'
    BY EmittedStays DEF RepairSoundness
  <1>4. PICK n \in 0..MaxIter : n = round
    BY <1>0
  <1>5. AllUnsound(n + 1)'
    BY <1>1, <1>4, NumbersAre, AllUnsoundStays
  <1>6. Behind(SoundnessRepair(n), 0, 0)'
    BY NumbersAre DEF Behind, Before
  <1>7. code' = CodeAt(SoundnessRepair(n), 0, 0)
    BY <1>4 DEF RepairSoundness, CodeAt
  <1>8. Held'
    BY <1>4, <1>5, <1>6, <1>7, GateIsNext DEF RepairSoundness, Origin
  <1> QED
    BY <1>2, <1>3, <1>8

\* A refactor that did not fail: kept or rejected, the panel's first round is about what is held.
LEMMA RefactorReplays ==
  ASSUME Inductive, Grows, Answers, Emitted, Held, RefactorCrate
  PROVE  Answers' /\ Emitted' /\ Held'
  <1>0. TypeOK /\ Refactor \in Id /\ Of(Refactor) \in Code /\ code \in Code /\ 0 \in 0..MaxEscalations
        /\ Start.base \in Bases /\ 0 \in 0..MaxIter
    BY Ids, CodesAre, NumbersAre DEF Inductive, TypeOK, Bases
  <1>1. Checkpoint(Refactor, "text") /\ round = 0 /\ Result(Start.base, code)
    BY DEF RefactorCrate, Held
  <1>2. Answers' /\ answer'[Refactor] = "text"
    BY <1>0, <1>1, AboutOf, CheckpointAbout
  <1>3. Emitted'
    BY EmittedStays DEF RefactorCrate
  <1>4. PICK r, c : r \in Code /\ r = code /\ c = code'
    BY <1>0
  <1>5. Result(Start.base, r)'
    BY <1>0, <1>1, <1>4, ResultStays
  <1>6. \/ gate'[Of(Refactor)] = "ok" /\ c = Of(Refactor)
        \/ gate'[Of(Refactor)] = "errors" /\ c = r
    BY <1>0, <1>4, GateDoes DEF RefactorCrate
  <1>7. Refactored(r, c)'
    <2>1. wordy /\ wordy' = wordy
      BY DEF RefactorCrate
    <2>2. answer'[Refactor] # "none"
      BY <1>2
    <2> QED
      BY <1>6, <2>1, <2>2 DEF Refactored
  <1>8. Entered(0, c)'
    <2>1. r \in Code
      BY <1>4
    <2> QED
      BY <1>5, <1>7, <2>1, Zenon DEF Entered
  <1>9. Held'
    BY <1>1, <1>4, <1>8, HeldElsewhere DEF RefactorCrate, Entered
  <1> QED
    BY <1>2, <1>3, <1>9

\* The reviews: what is asked is about the code in hand, and what is answered was.
LEMMA ReviewReplays ==
  ASSUME Inductive, Grows, Answers, Emitted, Held, ReviewIp \/ Sound \/ Unsound \/ ReviewReadiness
  PROVE  Answers' /\ Emitted' /\ Held'
  <1>0. /\ TypeOK /\ round \in 0..MaxIter /\ code \in Code /\ round' = round /\ code' = code
        /\ IpCounsel \in Id /\ FormalMethods(round) \in Id /\ Readiness \in Id /\ 0 \in 0..MaxEscalations
        /\ round \in Nat
    BY Ids, NumbersAre DEF Inductive, TypeOK, ReviewIp, Sound, Unsound, ReviewReadiness, running
  <1>1. Emitted'
    BY EmittedStays DEF ReviewIp, Sound, Unsound, ReviewReadiness
  <1>2. CASE ReviewIp
    <2>1. Checkpoint(IpCounsel, "text") /\ pc' = "formal" /\ round = 0 /\ Entered(round, code)
      BY <1>2 DEF ReviewIp, Held
    <2>2. Answers'
      BY <1>0, <2>1, AboutOf, CheckpointAbout
    <2>3. AllUnsound(round)
      BY <2>1 DEF AllUnsound
    <2> QED
      BY <1>0, <1>1, <2>1, <2>2, <2>3, RoundKept, HeldElsewhere
  <1>3. CASE Sound \/ Unsound
    <2>1. pc = "formal" /\ Entered(round, code) /\ AllUnsound(round)
      BY <1>3 DEF Sound, Unsound, Held
    <2>2. PICK a : Checkpoint(FormalMethods(round), a) /\ (Sound => a = "sound") /\ (Unsound => a = "unsound")
      <3>1. CASE Sound /\ ~Unsound
        BY <3>1 DEF Sound
      <3>2. CASE Unsound /\ ~Sound
        BY <3>2 DEF Unsound
      <3>3. ~(Sound /\ Unsound)
        BY DEF Sound, Unsound
      <3> QED
        BY <1>3, <3>1, <3>2, <3>3
    <2>3. Answers' /\ answer'[FormalMethods(round)] = a /\ asked'[FormalMethods(round)] = code
      <3>1. /\ Answers' /\ answer'[FormalMethods(round)] = a
            /\ answer[FormalMethods(round)] = "none" => asked'[FormalMethods(round)] = code
        BY <1>0, <2>1, <2>2, AboutOf, CheckpointAbout
      <3>2. answer[FormalMethods(round)] # "none" => asked'[FormalMethods(round)] = code
        BY <1>0, <2>1, AskedAboutHeld DEF Grows
      <3> QED
        BY <3>1, <3>2
    <2>4. Entered(round, code)' /\ AllUnsound(round)'
      BY <1>0, <2>1, RoundKept
    <2>5. CASE Sound
      <3>1. pc' = "readiness"
        BY <2>5 DEF Sound
      <3>2. answer'[FormalMethods(round')] = "sound" /\ asked'[FormalMethods(round')] = code'
        BY <1>0, <2>2, <2>3, <2>5
      <3>3. Held'
        BY <2>4, <3>1, <3>2 DEF Held, FormalMethods
      <3> QED
        BY <1>1, <2>3, <3>3
    <2>6. CASE Unsound
      <3>1. pc' \in {"soundness", "failed"}
        BY <2>6 DEF Unsound
      <3>2. PICK n \in 0..MaxIter : n = round
        BY <1>0
      <3>3. n \in Nat /\ AllUnsound(n)'
        BY <1>0, <2>1, <3>2, AllUnsoundStays, NumbersAre
      <3>4. answer'[FormalMethods(n)] = "unsound"
        BY <2>2, <2>3, <2>6, <3>2
      <3>5. PICK m \in Nat : m = n + 1
        BY <3>3
      <3>6. AllUnsound(m)'
        <4> SUFFICES ASSUME NEW k \in 0..(m - 1) PROVE answer'[FormalMethods(k)] = "unsound"
          BY DEF AllUnsound
        <4>1. k \in 0..(n - 1) \/ k = n
          BY <3>3, <3>5
        <4> QED
          BY <3>3, <3>4, <4>1 DEF AllUnsound
      <3>7. AllUnsound(round + 1)'
        BY <1>0, <3>2, <3>5, <3>6, UnsoundOf
      <3> QED
        BY <1>1, <2>3, <2>4, <3>1, <3>7, HeldElsewhere
    <2> QED
      BY <1>3, <2>5, <2>6
  <1>4. CASE ReviewReadiness
    <2>1. /\ pc = "readiness" /\ pc' = "emit" /\ Checkpoint(Readiness, "text")
          /\ Entered(round, code) /\ AllUnsound(round)
          /\ answer[FormalMethods(round)] = "sound" /\ asked[FormalMethods(round)] = code
      BY <1>4 DEF ReviewReadiness, Held
    <2>2. About(Readiness, code)
      BY <1>0, <2>1, AboutOf DEF SoundRound
    <2>3. Answers' /\ answer'[Readiness] # "none" /\ asked'[Readiness] = code
      <3>1. /\ Answers' /\ answer'[Readiness] = "text"
            /\ answer[Readiness] = "none" => asked'[Readiness] = code
        BY <1>0, <2>1, <2>2, CheckpointAbout
      <3>2. answer[Readiness] # "none" => asked'[Readiness] = code
        BY <1>0, <2>1, AskedAboutHeld DEF Grows
      <3> QED
        BY <3>1, <3>2
    <2>4. Entered(round, code)' /\ AllUnsound(round)'
      BY <1>0, <2>1, RoundKept
    <2>5. answer'[FormalMethods(round')] = "sound" /\ asked'[FormalMethods(round')] = code'
      BY <1>0, <2>1 DEF Grows
    <2>6. answer'[Readiness] # "none" /\ asked'[Readiness] = code'
      BY <1>0, <2>3
    <2>7. Held'
      BY <2>1, <2>4, <2>5, <2>6 DEF Held, FormalMethods, Readiness
    <2> QED
      BY <1>1, <2>3, <2>7
  <1> QED
    BY <1>2, <1>3, <1>4

\* The delivery: what goes into v2.rs has been judged.
LEMMA EmitReplays ==
  ASSUME Inductive, Grows, Answers, Emitted, Held, EmitV2 \/ EmitCutOff \/ WriteCrate
  PROVE  Answers' /\ Emitted' /\ Held'
  <1>1. Answers'
    BY AnswersKept DEF EmitV2, EmitCutOff, WriteCrate
  <1>2. Held'
    BY HeldElsewhere DEF EmitV2, EmitCutOff, WriteCrate
  <1>3. Emitted'
    <2>1. CASE EmitV2
      <3>1. PICK c : c = code
        OBVIOUS
      <3>2. /\ round \in 0..MaxIter /\ v2' = c
            /\ answer[Readiness] # "none" /\ asked[Readiness] = c
            /\ answer[FormalMethods(round)] = "sound" /\ asked[FormalMethods(round)] = c
        BY <2>1, <3>1 DEF EmitV2, Held, Inductive, TypeOK
      <3>3. Judged(c)
        BY <3>2, Zenon DEF Judged
      <3>4. Judged(c)'
        BY <3>3, JudgedStays
      <3> QED
        BY <3>2, <3>4 DEF Emitted, Judged
    <2>2. CASE EmitCutOff
      BY <2>2 DEF EmitCutOff, Emitted
    <2>3. CASE WriteCrate
      BY <2>3, EmittedStays DEF WriteCrate
    <2> QED
      BY <2>1, <2>2, <2>3
  <1> QED
    BY <1>1, <1>2, <1>3

LEMMA StutterHeld == ASSUME Inductive, Grows, Held, UNCHANGED vars PROVE Held'
  <1>0. /\ TypeOK /\ UNCHANGED <<answer, asked, gate, wordy, pc, code, attempt, depth, round, panel>>
        /\ Origin \in Bases /\ Origin' = Origin /\ Start.base \in Bases
        /\ round \in 0..MaxIter /\ FormalMethods(round) \in Id /\ Readiness \in Id
    BY OriginIs, Ids DEF Inductive, TypeOK, vars, durable, running, Origin, Bases
  <1>1. PICK c0, d, a, c : c0 \in Bases /\ c0 = Origin /\ d = depth /\ a = attempt /\ c = code
    BY <1>0
  <1>2. ASSUME pc \in {"gate", "repair", "escalate"}
        PROVE  /\ code' = CodeAt(Origin', depth', attempt') /\ Behind(Origin, depth, attempt)'
               /\ pc # "gate" => gate[code] = "errors"
               /\ pc = "escalate" => attempt = MaxIter
               /\ panel => AllUnsound(round + 1)'
               /\ ~panel => round = 0
    <2>1. /\ c = CodeAt(c0, d, a) /\ Behind(c0, d, a)
          /\ pc # "gate" => gate[code] = "errors"
          /\ pc = "escalate" => attempt = MaxIter
          /\ panel => AllUnsound(round + 1)
          /\ ~panel => round = 0
      BY <1>1, <1>2 DEF Held
    <2>2. Behind(c0, d, a)'
      BY <1>1, <2>1, BehindStays
    <2>3. Behind(Origin, depth, attempt)'
      BY <1>0, <1>1, <2>2 DEF Behind
    <2>4. code' = CodeAt(Origin', depth', attempt')
      BY <1>0, <1>1, <2>1
    <2>5. panel => AllUnsound(round + 1)'
      BY <1>0, <2>1, RoundKept
    <2> QED
      BY <2>1, <2>3, <2>4, <2>5
  <1>3. pc = "refactor" => ~panel /\ round = 0 /\ Result(Start.base, code)'
    <2>1. pc = "refactor" => ~panel /\ round = 0 /\ Result(Start.base, c)
      BY <1>1 DEF Held
    <2>2. pc = "refactor" => Result(Start.base, c)'
      BY <1>0, <2>1, ResultStays
    <2> QED
      BY <1>0, <1>1, <2>1, <2>2 DEF Result
  <1>4. pc = "ip" => round = 0 /\ Entered(0, code)'
    <2>1. pc = "ip" => round = 0 /\ Entered(0, c)
      BY <1>1 DEF Held
    <2>2. pc = "ip" => Entered(0, c)'
      BY <1>0, <2>1, EnteredStays
    <2> QED
      BY <1>0, <1>1, <2>1, <2>2 DEF Entered
  <1>5. pc \in {"formal", "readiness", "emit"} => Entered(round, code)' /\ AllUnsound(round)'
    BY <1>0, RoundKept DEF Held
  <1>6. pc = "soundness" => Entered(round, code)' /\ AllUnsound(round + 1)'
    BY <1>0, RoundKept DEF Held
  <1>7. pc \in {"readiness", "emit"} =>
          answer[FormalMethods(round)] = "sound" /\ asked[FormalMethods(round)] = code
    BY DEF Held
  <1>8. pc = "emit" => answer[Readiness] # "none" /\ asked[Readiness] = code
    BY DEF Held
  <1> QED
    BY <1>0, <1>2, <1>3, <1>4, <1>5, <1>6, <1>7, <1>8 DEF Held, CodeAt, FormalMethods, Readiness

LEMMA ReplayNext == Inductive /\ Replay /\ [Next]_vars => Replay'
  <1> SUFFICES ASSUME Inductive, Replay, [Next]_vars, ~swallowed' PROVE Answers' /\ Emitted' /\ Held'
    BY DEF Replay
  <1>1. Grows /\ Answers /\ Emitted /\ Held
    BY StepGrows DEF Replay
  <1>2. ~RefactorFails
    BY DEF RefactorFails
  <1>3. CASE UNCHANGED vars
    <2>1. Answers' /\ Emitted'
      BY <1>1, <1>3, AnswersKept, EmittedStays DEF vars, durable
    <2>2. Held'
      BY <1>1, <1>3, StutterHeld
    <2> QED
      BY <2>1, <2>2
  <1> QED
    BY <1>1, <1>2, <1>3, ControlReplays, GateReplays, RepairReplays, SoundnessReplays, RefactorReplays,
       ReviewReplays, EmitReplays, Zenon DEF Next, Step

LEMMA AlwaysReplay == Spec => []Replay
  BY ReplayInit, ReplayNext, AlwaysInductive, PTL DEF Spec

-----------------------------------------------------------------------------
(* The theorems. *)

\* Every variable keeps its type: attempts, escalations and soundness rounds stay within their
\* bounds, whatever crashes, errors and launches do.
THEOREM TypeCorrect == Spec => []TypeOK
  BY AlwaysInductive, PTL DEF Inductive

\* A launch that ends well delivers code that passed the gate, with a sound verdict on record.
THEOREM OnlyPassedCodeShips == Spec => []DeliveredPassedGates
  <1>1. Inductive => DeliveredPassedGates
    <2> SUFFICES ASSUME Inductive, pc = "done", code # Torn
                 PROVE  gate[code] = "ok" /\ SomeSound
      BY DEF DeliveredPassedGates, SomeSound
    <2> QED
      BY DEF Inductive, EmittedPassed
  <1> QED
    BY <1>1, AlwaysInductive, PTL

\* The delivered directory is the delivered crate, unless the gate rejected a refactor.
THEOREM DirectoryIsTheCrate == Spec => []DirectoryIsCrateIfNotRejected
  <1>1. Inductive => DirectoryIsCrateIfNotRejected
    BY DEF Inductive, EmittedPassed, Rejected, DirectoryIsCrateIfNotRejected
  <1> QED
    BY <1>1, AlwaysInductive, PTL

\* What ships is what the soundness and readiness reviewers were asked about, however many
\* crashes, errors and launches lie in between, as long as no refactor failed in an earlier one.
THEOREM JudgedCodeShips == Spec => []DeliveredWasJudged
  <1>1. Inductive /\ Replay => DeliveredWasJudged
    <2> SUFFICES ASSUME Inductive, Replay, pc = "done", code # Torn, ~swallowed
                 PROVE  Judged(code)
      BY DEF DeliveredWasJudged, Judged
    <2>1. code = v2 /\ v2 # NoCode
      BY DEF Inductive, EmittedPassed
    <2> QED
      BY <2>1 DEF Replay, Emitted
  <1> QED
    BY <1>1, AlwaysInductive, AlwaysReplay, PTL

\* A relaunch that is answered by checkpoints is answered about the code it holds: the first
\* integration check's repairs, its fix plans, the verdicts and the soundness repairs.
THEOREM AnswersAreRelevant == Spec => AnswersAreAboutTheCode
  <1>1. ASSUME Inductive, Replay, [Next]_vars, ~swallowed'
        PROVE  /\ RepairCrate /\ ~panel /\ depth = 0 => AboutThisCode(Repair(attempt))
               /\ Escalate /\ ~panel => AboutThisCode(Fix(depth))
               /\ Sound \/ Unsound => AboutThisCode(FormalMethods(round))
               /\ RepairSoundness => AboutThisCode(SoundnessRepair(round))
    <2>1. Grows /\ Answers /\ Held /\ TypeOK
      BY <1>1, StepGrows DEF Replay, Inductive
    <2>2. /\ Repair(attempt) \in Id /\ Fix(depth) \in Id /\ FormalMethods(round) \in Id
          /\ SoundnessRepair(round) \in Id
      BY <2>1, Ids DEF TypeOK
    <2>3. ASSUME NEW id \in Id, NEW a, Checkpoint(id, a), answer[id] # "none" => asked[id] = code
          PROVE  asked'[id] = code
      BY <2>1, <2>3 DEF Checkpoint, TypeOK
    <2>4. RepairCrate /\ ~panel /\ depth = 0 => AboutThisCode(Repair(attempt))
      BY <1>1, <2>1, <2>2, <2>3, AskedAboutHeld DEF RepairCrate, AboutThisCode
    <2>5. Escalate /\ ~panel => AboutThisCode(Fix(depth))
      BY <1>1, <2>1, <2>2, <2>3, AskedAboutHeld DEF Escalate, AboutThisCode
    <2>6. Sound \/ Unsound => AboutThisCode(FormalMethods(round))
      BY <1>1, <2>1, <2>2, <2>3, AskedAboutHeld DEF Sound, Unsound, AboutThisCode
    <2>7. RepairSoundness => AboutThisCode(SoundnessRepair(round))
      BY <1>1, <2>1, <2>2, <2>3, AskedAboutHeld DEF RepairSoundness, AboutThisCode
    <2> QED
      BY <2>4, <2>5, <2>6, <2>7
  <1>2. Inductive /\ Replay /\ [Next]_vars =>
          [~swallowed' =>
             /\ RepairCrate /\ ~panel /\ depth = 0 => AboutThisCode(Repair(attempt))
             /\ Escalate /\ ~panel => AboutThisCode(Fix(depth))
             /\ Sound \/ Unsound => AboutThisCode(FormalMethods(round))
             /\ RepairSoundness => AboutThisCode(SoundnessRepair(round))]_vars
    BY <1>1, Zenon
  <1> QED
    BY <1>2, AlwaysInductive, AlwaysReplay, PTL DEF Spec, AnswersAreAboutTheCode
=============================================================================
