------------------------------ MODULE Assembly ------------------------------
(***************************************************************************)
(* From the assembled crate to the delivered one: integration gate and     *)
(* repair, escalation, refactor, review panel and soundness loop           *)
(* (ai-org-orchestrator/src/synthesis.rs, advice.rs, main.rs), run and run *)
(* again over the checkpoints that workspace.rs keeps.  A launch may die   *)
(* at any step and the next one starts over, answered by the checkpoints.  *)
(*                                                                         *)
(* Abstractions: the crate the milestones assemble is one code, the same   *)
(* in every launch; a plan of fix milestones is one answer; the gate is a  *)
(* function of the code alone: rustfmt and the manifest on disk, which the *)
(* gate merges and judges too, are left out here, and the manifest is the  *)
(* subject of Pipeline; diagnoses and deviations only change prompts and   *)
(* logs; a checkpoint cut off by a crash reads as a finding or as some     *)
(* other code.                                                             *)
(***************************************************************************)
EXTENDS Naturals

CONSTANTS
  MaxIter,        \* args.max_iter: attempts of the repair and soundness loops
  MaxEscalations  \* MAX_INTEGRATION_ESCALATIONS

ASSUME AssemblyAssumption == MaxIter \in Nat /\ MaxEscalations \in Nat

(* Checkpoints, named as their ids are. *)
Repair(n) == <<"integration/repair", n>>
Fix(d) == <<"integration-fix", d>>
SoundnessRepair(n) == <<"soundness_repair", n>>
\* Mutant: every round of the soundness check uses one id.
FormalMethods_OneId(n) == <<"formal_methods", 0>>
FormalMethods(n) == <<"formal_methods", n>>
Refactor == <<"refactor", 0>>
IpCounsel == <<"ip_counsel", 0>>
Readiness == <<"production_readiness", 0>>

Verdict == {FormalMethods(n) : n \in 0..MaxIter}
Id == {Repair(n) : n \in 0..MaxIter} \cup {Fix(d) : d \in 0..MaxEscalations}
      \cup {SoundnessRepair(n) : n \in 0..MaxIter} \cup Verdict \cup {Refactor, IpCounsel, Readiness}

(* A code is a checkpoint's answer, possibly overlaid with a fix plan's files. *)
NoFix == <<"no fix">>
Of(base) == [base |-> base, fix |-> NoFix]
Start == Of(<<"milestones">>)   \* what the milestones assembled
Torn == Of(<<"torn">>)          \* a v2.rs cut off by a crash
NoCode == Of(<<"none">>)
Code == [base : Id \cup {Start.base, Torn.base, NoCode.base},
         fix : {NoFix} \cup {Fix(d) : d \in 0..MaxEscalations}]

VARIABLES
  answer,     \* answer[id]: what a checkpoint holds
  asked,      \* asked[id]: the code it was asked about (history)
  gate,       \* gate[c]: how the quality gate finds code c, once it has looked
  v2,         \* the artifact v2.rs
  dir,        \* whose files lie in the crate's sources, artifacts/v2/src
  wordy,      \* size_advice finds long files in the integrated crate
  pc, code,   \* the running launch, and the code it holds
  attempt,    \* repair attempts of this integration check
  depth,      \* escalations of this integration check
  round,      \* rounds of the soundness check
  panel,      \* the integration check was called by the soundness check
  swallowed   \* some launch went on without its refactor (history)

durable == <<answer, asked, gate, v2, dir, wordy>>
running == <<code, attempt, depth, round, panel>>
vars == <<durable, pc, running, swallowed>>

Ended == {"down", "failed", "done"}
Working == {"gate", "repair", "escalate", "refactor", "ip", "formal", "soundness", "readiness", "emit", "write"}

\* Every variable has its type, and no loop goes past its bound.
TypeOK ==
  /\ answer \in [Id -> {"none", "text", "sound", "unsound"}]
  /\ asked \in [Id -> Code] /\ gate \in [Code -> {"unknown", "ok", "errors"}]
  /\ v2 \in Code /\ dir \subseteq Code /\ wordy \in BOOLEAN
  /\ pc \in Ended \cup Working /\ code \in Code
  /\ attempt \in 0..MaxIter /\ depth \in 0..MaxEscalations /\ round \in 0..MaxIter
  /\ panel \in BOOLEAN /\ swallowed \in BOOLEAN

Init ==
  /\ answer = [id \in Id |-> "none"] /\ asked = [id \in Id |-> NoCode]
  /\ gate = [c \in Code |-> "unknown"] /\ v2 = NoCode /\ dir = {} /\ wordy \in BOOLEAN
  /\ pc = "down" /\ code = NoCode /\ attempt = 0 /\ depth = 0 /\ round = 0 /\ panel = FALSE
  /\ swallowed = FALSE

-----------------------------------------------------------------------------
(* Workspace::checkpoint and Manager::integration_gate. *)

\* What the workspace holds answers; otherwise the agent is asked about the code in hand.
Checkpoint(id, a) ==
  \/ answer[id] # "none" /\ a = answer[id] /\ UNCHANGED <<answer, asked>>
  \/ /\ answer[id] = "none"
     /\ a \in IF id \in Verdict THEN {"sound", "unsound"} ELSE {"text"}
     /\ answer' = [answer EXCEPT ![id] = a] /\ asked' = [asked EXCEPT ![id] = code]

\* The gate replaces the directory's sources and runs build, clippy and test on them.
Gate(c, g) ==
  /\ g \in {"ok", "errors"} /\ gate[c] \in {"unknown", g}
  /\ gate' = [gate EXCEPT ![c] = g] /\ dir' = {c}

-----------------------------------------------------------------------------
(* A launch of the orchestrator. *)

\* Synthesis starts over on its checkpoints, unless v2.rs is there.
Launch ==
  /\ pc \in {"down", "failed"}
  /\ attempt' = 0 /\ depth' = 0 /\ round' = 0 /\ panel' = FALSE
  /\ \/ v2 = NoCode /\ pc' = "gate" /\ code' = Start
     \/ v2 # NoCode /\ pc' = "write" /\ code' = v2
  /\ UNCHANGED <<durable, swallowed>>

\* The process dies, or the machine.
Crash ==
  /\ pc \in Working /\ pc' = "down"
  /\ UNCHANGED <<durable, running, swallowed>>

\* An agent's or a file's error that is passed up fails the launch.
Error ==
  /\ pc \in {"gate", "repair", "escalate", "ip", "formal", "soundness", "readiness", "emit"}
  /\ pc' = "failed"
  /\ UNCHANGED <<durable, running, swallowed>>

-----------------------------------------------------------------------------
(* integration_check_and_repair. *)

\* Mutant: after a soundness repair the panel goes on without asking the reviewer again.
GatePasses_NotJudged ==
  /\ pc = "gate" /\ Gate(code, "ok")
  /\ \/ panel /\ pc' = "readiness" /\ UNCHANGED round
     \/ ~panel /\ pc' = "refactor" /\ UNCHANGED round
  /\ UNCHANGED <<answer, asked, v2, wordy, code, attempt, depth, panel, swallowed>>

\* A clean crate goes back to the caller: to the refactor, or to the next soundness round.
GatePasses ==
  /\ pc = "gate" /\ Gate(code, "ok")
  /\ \/ panel /\ pc' = "formal" /\ round' = round + 1
     \/ ~panel /\ pc' = "refactor" /\ UNCHANGED round
  /\ UNCHANGED <<answer, asked, v2, wordy, code, attempt, depth, panel, swallowed>>

\* Errors: repair while attempts are left, then escalate, then give up.
GateFails ==
  /\ pc = "gate" /\ Gate(code, "errors")
  /\ \/ attempt < MaxIter /\ pc' = "repair"
     \/ attempt = MaxIter /\ depth < MaxEscalations /\ pc' = "escalate"
     \/ attempt = MaxIter /\ depth >= MaxEscalations /\ pc' = "failed"
  /\ UNCHANGED <<answer, asked, v2, wordy, running, swallowed>>

\* The repair's id knows the attempt only: not the escalation, not the soundness round.
RepairCrate ==
  /\ pc = "repair" /\ Checkpoint(Repair(attempt), "text")
  /\ code' = Of(Repair(attempt)) /\ attempt' = attempt + 1 /\ pc' = "gate"
  /\ UNCHANGED <<gate, v2, dir, wordy, depth, round, panel, swallowed>>

\* Mutant: the recursive call is made with the depth it came with.
Escalate_SameDepth ==
  /\ pc = "escalate" /\ Checkpoint(Fix(depth), "text")
  /\ code' = [code EXCEPT !.fix = Fix(depth)] /\ attempt' = 0 /\ pc' = "gate"
  /\ UNCHANGED <<gate, v2, dir, wordy, depth, round, panel, swallowed>>

\* The fix milestones' files overlay the crate, and the whole check starts again.
Escalate ==
  /\ pc = "escalate" /\ Checkpoint(Fix(depth), "text")
  /\ code' = [code EXCEPT !.fix = Fix(depth)] /\ attempt' = 0 /\ depth' = depth + 1 /\ pc' = "gate"
  /\ UNCHANGED <<gate, v2, dir, wordy, round, panel, swallowed>>

-----------------------------------------------------------------------------
(* refactor_pass. *)

NoRefactor ==
  /\ pc = "refactor" /\ ~wordy /\ pc' = "ip"
  /\ UNCHANGED <<durable, running, swallowed>>

\* The attempt failed: the working crate is kept, and no checkpoint remembers it.
RefactorFails ==
  /\ pc = "refactor" /\ wordy /\ answer[Refactor] = "none"
  /\ pc' = "ip" /\ swallowed' = TRUE
  /\ UNCHANGED <<durable, running>>

\* Mutant: the refactored crate replaces the working one whatever the gate says.
RefactorCrate_Kept ==
  /\ pc = "refactor" /\ wordy /\ Checkpoint(Refactor, "text")
  /\ \E g \in {"ok", "errors"} : Gate(Of(Refactor), g)
  /\ code' = Of(Refactor) /\ pc' = "ip"
  /\ UNCHANGED <<v2, wordy, attempt, depth, round, panel, swallowed>>

\* The refactored crate replaces the working one if it passes the same gate.
RefactorCrate ==
  /\ pc = "refactor" /\ wordy /\ Checkpoint(Refactor, "text")
  /\ \/ Gate(Of(Refactor), "ok") /\ code' = Of(Refactor)
     \/ Gate(Of(Refactor), "errors") /\ UNCHANGED code
  /\ pc' = "ip"
  /\ UNCHANGED <<v2, wordy, attempt, depth, round, panel, swallowed>>

-----------------------------------------------------------------------------
(* run_review_panel and enforce_soundness. *)

\* IP counsel's concerns and those about readiness are deviations: they stop nothing.
ReviewIp ==
  /\ pc = "ip" /\ Checkpoint(IpCounsel, "text") /\ pc' = "formal"
  /\ UNCHANGED <<gate, v2, dir, wordy, running, swallowed>>

Sound ==
  /\ pc = "formal" /\ Checkpoint(FormalMethods(round), "sound") /\ pc' = "readiness"
  /\ UNCHANGED <<gate, v2, dir, wordy, running, swallowed>>

Unsound ==
  /\ pc = "formal" /\ Checkpoint(FormalMethods(round), "unsound")
  /\ \/ round < MaxIter /\ pc' = "soundness"
     \/ round = MaxIter /\ pc' = "failed"
  /\ UNCHANGED <<gate, v2, dir, wordy, running, swallowed>>

\* The repaired code goes through a new integration check before the next round.
RepairSoundness ==
  /\ pc = "soundness" /\ Checkpoint(SoundnessRepair(round), "text")
  /\ code' = Of(SoundnessRepair(round)) /\ attempt' = 0 /\ depth' = 0 /\ panel' = TRUE
  /\ pc' = "gate"
  /\ UNCHANGED <<gate, v2, dir, wordy, round, swallowed>>

ReviewReadiness ==
  /\ pc = "readiness" /\ Checkpoint(Readiness, "text") /\ pc' = "emit"
  /\ UNCHANGED <<gate, v2, dir, wordy, running, swallowed>>

-----------------------------------------------------------------------------
(* main: v2.rs, then the crate's files. *)

EmitV2 ==
  /\ pc = "emit" /\ v2' = code /\ pc' = "write"
  /\ UNCHANGED <<answer, asked, gate, dir, wordy, running, swallowed>>

\* fs::write creates v2.rs before it fills it.
EmitCutOff ==
  /\ pc = "emit" /\ v2' = Torn /\ pc' = "down"
  /\ UNCHANGED <<answer, asked, gate, dir, wordy, running, swallowed>>

\* emit_v2_source writes the code's files next to whatever lies there.
WriteCrate ==
  /\ pc = "write" /\ dir' = dir \cup {code} /\ pc' = "done"
  /\ UNCHANGED <<answer, asked, gate, v2, wordy, running, swallowed>>

Step ==
  \/ GatePasses \/ GateFails \/ RepairCrate \/ Escalate
  \/ NoRefactor \/ RefactorCrate
  \/ ReviewIp \/ Sound \/ Unsound \/ RepairSoundness \/ ReviewReadiness
  \/ EmitV2 \/ WriteCrate

Next == Step \/ Launch \/ Crash \/ Error \/ RefactorFails \/ EmitCutOff

Spec == Init /\ [][Next]_vars

\* The orchestrator runs, and the environment's part: agent calls and cargo runs return (the
\* code sets no timeout).  Nothing is assumed of crashes, errors or new launches.
FairSpec == Spec /\ WF_vars(Step)

-----------------------------------------------------------------------------
(* Properties. *)

\* A launch that ends well delivers code that passed the gate, after the reviewer called
\* some code sound ("Delivering something that doesn't compile as a success is exactly the
\* failure mode this closes"); a v2.rs cut off by a crash is the exception.
DeliveredPassedGates ==
  pc = "done" /\ code # Torn =>
    gate[code] = "ok" /\ \E n \in 0..MaxIter : answer[FormalMethods(n)] = "sound"

\* What is delivered is what the soundness and readiness reviewers were asked about, whatever
\* was repaired, refactored and relaunched on the way, unless a refactor failed in an earlier
\* launch: the checkpoints' verdicts are then about a code that a later refactor replaced.
DeliveredWasJudged ==
  pc = "done" /\ code # Torn /\ ~swallowed =>
    /\ asked[Readiness] = code
    /\ \E n \in 0..MaxIter : answer[FormalMethods(n)] = "sound" /\ asked[FormalMethods(n)] = code

\* The delivered sources are the files of the delivered crate and no others, unless the gate
\* rejected a refactor.
DirectoryIsCrateIfNotRejected ==
  pc = "done" /\ code # Torn /\ gate[Of(Refactor)] # "errors" => dir = {code}

\* advice.rs: "The result replaces the working crate only if it passes the same gate; otherwise
\* the working crate is kept": nothing of a rejected refactor is delivered.
DirectoryIsCrate == pc = "done" /\ code # Torn => dir = {code}

AboutThisCode(id) == asked'[id] = code

\* Each answer a launch acts on was given about the code the launch holds, however often it is
\* restarted: as long as this is the first integration check and no refactor failed.
AnswersAreAboutTheCode ==
  [][~swallowed' =>
       /\ RepairCrate /\ ~panel /\ depth = 0 => AboutThisCode(Repair(attempt))
       /\ Escalate /\ ~panel => AboutThisCode(Fix(depth))
       /\ Sound \/ Unsound => AboutThisCode(FormalMethods(round))
       /\ RepairSoundness => AboutThisCode(SoundnessRepair(round))]_vars

\* workspace.rs: checkpoints are "uniquely-`id`'d": a repair that is adopted was made for the
\* code that failed the gate.
RepairsAreAboutTheCode == [][RepairCrate => AboutThisCode(Repair(attempt))]_vars

\* A launch whose calls return ends: the loops of attempts, escalations and rounds are bounded
\* by each other's counters, which repairs and escalations set back.
EveryLaunchEnds == (pc \in Working) ~> (pc \in Ended)

-----------------------------------------------------------------------------
(* What carries the proofs in AssemblyProofs. *)

\* A loop that is to go round once more has not reached its bound.
LoopsAccounted ==
  /\ pc = "repair" => attempt < MaxIter
  /\ pc = "escalate" => depth < MaxEscalations
  /\ pc = "soundness" => round < MaxIter
  /\ panel /\ pc \in {"gate", "repair", "escalate"} => round < MaxIter

Rejected == gate[Of(Refactor)] = "errors"
SomeSound == \E n \in 0..MaxIter : answer[FormalMethods(n)] = "sound"

\* Past the integration check the launch holds code that passed it, past the panel sound code.
HeldCodePassed ==
  /\ pc \in Working => code # NoCode
  /\ pc \in {"refactor", "ip", "formal", "soundness", "readiness", "emit"} => gate[code] = "ok"
  /\ pc \in {"readiness", "emit"} => SomeSound
  /\ pc = "refactor" \/ (pc \in {"ip", "formal", "readiness", "emit"} /\ ~Rejected) => dir = {code}

\* Once v2.rs is written nothing is built any more, and what it holds passed.
EmittedPassed ==
  /\ v2 # NoCode => pc \in {"down", "failed", "write", "done"}
  /\ pc \in {"write", "done"} => code = v2
  /\ v2 \notin {NoCode, Torn} => gate[v2] = "ok" /\ SomeSound /\ (~Rejected => dir = {v2})
  /\ v2 = NoCode => pc \notin {"write", "done"}

Inductive == TypeOK /\ LoopsAccounted /\ HeldCodePassed /\ EmittedPassed
=============================================================================
