--------------------------- MODULE PipelineProofs ---------------------------
(***************************************************************************)
(* What module Pipeline promises, for all schemas, all answers, every      *)
(* number of attempts and of launches.                                     *)
(***************************************************************************)
EXTENDS Pipeline, TLAPS

-----------------------------------------------------------------------------
(* Checkpoints and schemas. *)

\* Before synthesis there is no crate in hand.
Before == {"down", "failed", "service", "watch", "source", "stages", "schema", "check", "repair",
           "size", "plan"}

\* Everything that was made from the schema was made from the one that is there.
AllMade ==
  /\ \A n \in DOMAIN plans : plans[n].schema = schema
  /\ \A n \in DOMAIN answers : answers[n].schema = schema
  /\ \A n \in DOMAIN refactors : refactors[n].schema = schema
  /\ \A crate \in v2 \cup code : crate.schema = schema

\* Only between the repair and the check that drops them are there checkpoints of a schema that
\* is gone; an end just there is what the history remembers.
SchemaInv ==
  /\ interrupted \in BOOLEAN /\ repaired \in BOOLEAN
  /\ schema = {} => /\ DOMAIN plans = {} /\ DOMAIN answers = {} /\ DOMAIN refactors = {}
                     /\ v2 = {}
  /\ pc \in {"check", "repair", "size", "plan", "v2", "gate", "refactor", "regate", "panel"} => schema # {}
  /\ pc = "gate" => turn \in DOMAIN answers
  /\ pc = "regate" => 0 \in DOMAIN refactors
  /\ pc \in Before => code = {}
  /\ interrupted \/ AllMade \/ (repaired /\ pc \in {"check", "repair"})

\* Steps that change no file and no counter: the launch goes on or a watchdog works, ...
Quiet ==
  /\ UNCHANGED <<mission, durable, counters, launch, history>>
  /\ \/ pc' = pc
     \/ pc = "service" /\ pc' = "watch"
     \/ pc = "watch" /\ pc' = "source"
     \/ pc = "size" /\ pc' \in {"v2", "plan"}
     \/ pc = "v2" /\ v2 # {} /\ pc' = "stop"
     \/ pc = "refactor" /\ pc' = "panel"
     \/ pc = "stop" /\ pc' = "emit"

\* ... or it ends.
Ending ==
  /\ UNCHANGED <<mission, durable, launch>>
  /\ pc' \in {"down", "failed"} /\ Ends

LEMMA NextCases ==
  ASSUME [Next]_vars
  PROVE  \/ Quiet \/ Ending \/ Launch \/ WriteManifest \/ RunStage \/ WriteSchema
         \/ SchemaCompiles \/ SchemaFails \/ SchemaNeverCompiles \/ RepairSchema
         \/ PlanIncrements \/ Answer \/ GatePasses \/ GateFails \/ EmitV2
         \/ AskRefactor \/ RefactorPasses \/ RefactorFails \/ RepairSoundness \/ SaveV2
  <1>1. Crash \/ KillGroup \/ ServerFails => Ending
    BY DEF Crash, KillGroup, ServerFails, Ending, Ends
  <1>2. StageFails \/ NoSource \/ GivesUp => Ending
    BY DEF StageFails, NoSource, GivesUp, Panic, Ending, Ends
  <1>3. IncrementTooBig \/ PlanFails => Ending
    BY DEF IncrementTooBig, PlanFails, GiveUp, Ending, Ends
  <1>4. StartServer \/ SpawnWatchdog => Quiet
    BY DEF StartServer, SpawnWatchdog, Quiet
  <1>5. FitsOneRun \/ StartPlanning => Quiet
    BY DEF FitsOneRun, StartPlanning, Quiet
  <1>6. FindV2 \/ StopServices \/ NoRefactor => Quiet
    BY DEF FindV2, StopServices, NoRefactor, Quiet
  <1>7. ASSUME NEW l \in 1..MaxLaunches, Watchdog(l) PROVE Quiet
    BY <1>7 DEF Watchdog, Quiet
  <1>8. UNCHANGED vars => Quiet
    BY DEF vars, Quiet
  <1> QED
    BY Zenon, <1>1, <1>2, <1>3, <1>4, <1>5, <1>6, <1>7, <1>8 DEF Next, Step

LEMMA SchemaInvInit == Init => SchemaInv
  BY DEF Init, SchemaInv, Before, AllMade, Nothing

LEMMA SchemaInvNext == SchemaInv /\ [Next]_vars => SchemaInv'
  <1> SUFFICES ASSUME SchemaInv, [Next]_vars PROVE SchemaInv'
    OBVIOUS
  <1> USE DEF SchemaInv, Before, durable, checkpoints, counters, history, Forget
  <1>1. CASE Quiet
    BY <1>1 DEF Quiet, AllMade
  <1>2. CASE Ending
    BY <1>2 DEF Ending, Ends, AllMade
  <1>3. CASE Launch
    BY <1>3 DEF Launch, AllMade
  <1>4. CASE WriteManifest
    BY <1>4 DEF WriteManifest, AllMade
  <1>5. CASE RunStage
    BY <1>5 DEF RunStage, AllMade
  <1>6. CASE WriteSchema
    BY <1>6 DEF WriteSchema, AllMade
  <1>7. CASE SchemaCompiles
    BY <1>7 DEF SchemaCompiles, ResetSynthesis, AllMade, Nothing
  <1>8. CASE SchemaFails
    BY <1>8 DEF SchemaFails, AllMade
  <1>9. CASE SchemaNeverCompiles
    BY <1>9 DEF SchemaNeverCompiles, GiveUp, Ends, AllMade
  <1>10. CASE RepairSchema
    BY <1>10 DEF RepairSchema, AllMade
  <1>11. CASE PlanIncrements
    BY <1>11 DEF PlanIncrements, Checkpoint, Saved, AllMade
  <1>12. CASE Answer
    BY <1>12 DEF Answer, Checkpoint, Saved, AllMade
  <1>13. CASE GatePasses
    BY <1>13 DEF GatePasses, Passes, AllMade
  <1>14. CASE GateFails
    BY <1>14 DEF GateFails, AllMade
  <1>15. CASE EmitV2
    BY <1>15 DEF EmitV2, AllMade
  <1>16. CASE AskRefactor
    BY <1>16 DEF AskRefactor, Checkpoint, Saved, AllMade
  <1>17. CASE RefactorPasses
    BY <1>17 DEF RefactorPasses, Passes, AllMade
  <1>18. CASE RefactorFails
    BY <1>18 DEF RefactorFails, AllMade
  <1>19. CASE RepairSoundness
    BY <1>19 DEF RepairSoundness, AllMade
  <1>20. CASE SaveV2
    BY <1>20 DEF SaveV2, AllMade
  <1> QED
    BY Zenon, <1>1, <1>2, <1>3, <1>4, <1>5, <1>6, <1>7, <1>8, <1>9, <1>10, <1>11, <1>12, <1>13,
       <1>14, <1>15, <1>16, <1>17, <1>18, <1>19, <1>20, NextCases

\* main.rs and workspace.rs, reset_synthesis: what a launch works with was made for the schema
\* that it works on, however often it was repaired; a crash before the reset is the exception.
THEOREM WorkIsForThisSchema == Spec => []MadeForThisSchema
  <1>1. SchemaInv => MadeForThisSchema
    BY DEF SchemaInv, AllMade, MadeForThisSchema
  <1> QED
    BY SchemaInvInit, SchemaInvNext, <1>1, PTL DEF Spec

-----------------------------------------------------------------------------
(* The manifest that is delivered. *)

\* v2.rs and the crate in hand carry the manifest of their gate, or none; then the launch that
\* made the crate has that manifest on disk, as long as it has discarded no refactor of it.
ManifestInv ==
  /\ fresh \in BOOLEAN /\ discarded \in BOOLEAN
  /\ \A crate \in v2 \cup code : crate.section.kind = "none" \/ crate.section.deps = judged
  /\ v2 = {} \/ \E crate \in v2 : v2 = {crate}
  /\ code = {} \/ \E crate \in code : code = {crate}
  /\ pc \in Before => ~fresh /\ code = {}
  /\ pc = "v2" => ~fresh \/ v2 = {}
  /\ pc \in {"gate", "refactor", "regate", "panel"} => v2 = {}
  /\ pc \in {"refactor", "regate"} => ~discarded
  /\ pc \in {"refactor", "regate", "panel"} => manifest = judged \/ discarded
  /\ pc \in {"stop", "emit"} /\ fresh => manifest = judged \/ discarded
  /\ DeliveredAsJudged

LEMMA ManifestInvInit == Init => ManifestInv
  BY DEF Init, ManifestInv, Before, DeliveredAsJudged

\* A crate that passes the gate has, or finds on disk, the manifest that it passed with.
Judged ==
  /\ manifest' = judged' /\ discarded' = FALSE
  /\ \E crate \in code' : /\ code' = {crate}
                          /\ crate.section.kind = "none" \/ crate.section.deps = judged'

LEMMA PassesKeeps ==
  ASSUME NEW answer, Passes(answer)
  PROVE  Judged
  <1> DEFINE crate == [schema |-> answer.schema, section |-> Clean(answer.section)]
  <1>1. code' = {crate} /\ crate.section = Clean(answer.section)
    BY DEF Passes
  <1>2. crate.section.kind = "none" \/ crate.section.deps = Reconciled(answer.section)
    BY <1>1 DEF Clean, NoSection
  <1>3. judged' = manifest' /\ manifest' = Reconciled(answer.section) /\ discarded' = FALSE
    BY DEF Passes
  <1> HIDE DEF crate
  <1> QED
    BY <1>1, <1>2, <1>3 DEF Judged

LEMMA ManifestInvNext == ManifestInv /\ [Next]_vars => ManifestInv'
  <1> SUFFICES ASSUME ManifestInv, [Next]_vars PROVE ManifestInv'
    OBVIOUS
  <1> USE DEF ManifestInv, Before, DeliveredAsJudged, durable, checkpoints, counters, history, Forget
  <1>1. CASE Quiet
    BY <1>1 DEF Quiet
  <1>2. CASE Ending
    BY <1>2 DEF Ending, Ends
  <1>3. CASE Launch
    BY <1>3 DEF Launch
  <1>4. CASE WriteManifest
    BY <1>4 DEF WriteManifest
  <1>5. CASE RunStage
    BY <1>5 DEF RunStage
  <1>6. CASE WriteSchema
    BY <1>6 DEF WriteSchema
  <1>7. CASE SchemaCompiles
    BY <1>7 DEF SchemaCompiles, ResetSynthesis
  <1>8. CASE SchemaFails
    BY <1>8 DEF SchemaFails
  <1>9. CASE SchemaNeverCompiles
    BY <1>9 DEF SchemaNeverCompiles, GiveUp, Ends
  <1>10. CASE RepairSchema
    BY <1>10 DEF RepairSchema
  <1>11. CASE PlanIncrements
    BY <1>11 DEF PlanIncrements
  <1>12. CASE Answer
    BY <1>12 DEF Answer
  <1>13. CASE GatePasses
    BY <1>13, PassesKeeps DEF GatePasses, Judged
  <1>14. CASE GateFails
    BY <1>14 DEF GateFails
  <1>15. CASE EmitV2
    BY <1>15 DEF EmitV2
  <1>16. CASE AskRefactor
    BY <1>16 DEF AskRefactor, Checkpoint, Saved
  <1>17. CASE RefactorPasses
    BY <1>17, PassesKeeps DEF RefactorPasses, Judged
  <1>18. CASE RefactorFails
    BY <1>18 DEF RefactorFails
  <1>19. CASE RepairSoundness
    BY <1>19 DEF RepairSoundness
  <1>20. CASE SaveV2
    BY <1>20 DEF SaveV2
  <1> QED
    BY Zenon, <1>1, <1>2, <1>3, <1>4, <1>5, <1>6, <1>7, <1>8, <1>9, <1>10, <1>11, <1>12, <1>13,
       <1>14, <1>15, <1>16, <1>17, <1>18, <1>19, <1>20, NextCases

\* main.rs, v2_code and emit_v2_source: the manifest delivered is the one that passed the gate.
THEOREM ManifestIsJudged == Spec => []DeliveredAsJudged
  <1>1. ManifestInv => DeliveredAsJudged
    BY DEF ManifestInv
  <1> QED
    BY ManifestInvInit, ManifestInvNext, <1>1, PTL DEF Spec

-----------------------------------------------------------------------------
(* The crates a schema declares. *)

WholeAnswer ==
  \/ \E n \in DOMAIN answers : answers[n].section.kind = "whole"
  \/ \E n \in DOMAIN refactors : refactors[n].section.kind = "whole"
DepsOf(made) == UNION {s.deps : s \in made}

\* The manifest on disk, and the one v2.rs carries, have what the schema needs.
DepsInv ==
  \/ interrupted
  \/ WholeAnswer
  \/ /\ pc \in {"size", "plan", "v2", "gate", "refactor", "regate", "panel", "stop", "emit", "done"} =>
          DepsOf(schema) \subseteq manifest
     /\ \A crate \in v2 \cup code :
          crate.section.kind = "none" \/ DepsOf(crate.schema) \subseteq crate.section.deps

LEMMA DepsInvInit == Init => DepsInv
  BY DEF Init, DepsInv

LEMMA DepsInvNext == SchemaInv /\ DepsInv /\ [Next]_vars => DepsInv'
  <1> SUFFICES ASSUME SchemaInv, DepsInv, [Next]_vars PROVE DepsInv'
    OBVIOUS
  <1> USE DEF DepsInv, WholeAnswer, SchemaInv, Before, durable, checkpoints, counters, history, Forget
  <1>1. CASE Quiet
    BY <1>1 DEF Quiet
  <1>2. CASE Ending
    BY <1>2 DEF Ending, Ends
  <1>3. CASE Launch
    BY <1>3 DEF Launch
  <1>4. CASE WriteManifest
    BY <1>4 DEF WriteManifest
  <1>5. CASE RunStage
    BY <1>5 DEF RunStage
  <1>6. CASE WriteSchema
    BY <1>6 DEF WriteSchema
  <1>7. CASE SchemaCompiles
    BY <1>7 DEF SchemaCompiles, ResetSynthesis, Declared, DepsOf, Nothing
  <1>8. CASE SchemaFails
    BY <1>8 DEF SchemaFails
  <1>9. CASE SchemaNeverCompiles
    BY <1>9 DEF SchemaNeverCompiles, GiveUp, Ends
  <1>10. CASE RepairSchema
    BY <1>10 DEF RepairSchema
  <1>11. CASE PlanIncrements
    BY <1>11 DEF PlanIncrements
  <1>12. CASE Answer
    BY <1>12 DEF Answer, Checkpoint, Saved
  <1>13. CASE GatePasses
    BY <1>13 DEF GatePasses, Passes, Clean, NoSection, Reconciled, AllMade
  <1>14. CASE GateFails
    BY <1>14 DEF GateFails, Reconciled
  <1>15. CASE EmitV2
    BY <1>15 DEF EmitV2, AllMade
  <1>16. CASE AskRefactor
    BY <1>16 DEF AskRefactor, Checkpoint, Saved
  <1>17. CASE RefactorPasses
    BY <1>17 DEF RefactorPasses, Passes, Clean, NoSection, Reconciled, AllMade
  <1>18. CASE RefactorFails
    BY <1>18 DEF RefactorFails, Reconciled
  <1>19. CASE RepairSoundness
    BY <1>19 DEF RepairSoundness
  <1>20. CASE SaveV2
    BY <1>20 DEF SaveV2, AllMade
  <1> QED
    BY Zenon, <1>1, <1>2, <1>3, <1>4, <1>5, <1>6, <1>7, <1>8, <1>9, <1>10, <1>11, <1>12, <1>13,
       <1>14, <1>15, <1>16, <1>17, <1>18, <1>19, <1>20, NextCases

\* manifest.rs and quality.rs: a schema's crates stay in the manifest through every repair,
\* answer, gate and relaunch, unless an answer carries a complete manifest of its own.
THEOREM CratesStay == Spec => []DependenciesKept
  <1>1. DepsInv => DependenciesKept
    BY DEF DepsInv, WholeAnswer, DepsOf, DependenciesKept, Declared
  <1> QED
    BY SchemaInvInit, SchemaInvNext, DepsInvInit, DepsInvNext, <1>1, PTL DEF Spec

-----------------------------------------------------------------------------
(* Types and bounds. *)

FilesTyped ==
  /\ mission \in Missions
  /\ artifacts \subseteq {"contract", "acceptance", "matrix", "inductive", "increments"}
  /\ schema = {} \/ \E s \in Schemas : schema = {s}
  /\ DOMAIN plans \subseteq {n \in Nat : n < PlanAttempts}
  /\ DOMAIN answers \subseteq {n \in Nat : n < MaxAnswers}
  /\ DOMAIN refactors \subseteq {0}

\* A loop's round is below its bound where the loop goes on.
RoundsLeft ==
  /\ tries \in Nat /\ tries <= SchemaRepairAttempts
  /\ turn \in Nat /\ turn <= MaxAnswers + PlanAttempts
  /\ pc = "repair" => tries < SchemaRepairAttempts
  /\ pc = "plan" => turn <= PlanAttempts
  /\ pc = "v2" => turn <= MaxAnswers
  /\ pc \in {"gate", "refactor", "regate", "panel"} => turn < MaxAnswers
  /\ pc \in {"service", "watch", "source", "stages", "schema", "down", "failed"} => turn = 0 /\ tries = 0
  /\ pc \in {"check", "repair", "size"} => turn = 0

LaunchesTyped ==
  /\ launch \in Nat /\ launch <= MaxLaunches
  /\ pc \in Working => launch > 0
  /\ servers \subseteq {l \in Nat : 1 <= l /\ l <= launch}
  /\ watchdogs \subseteq {l \in Nat : 1 <= l /\ l <= launch}
  /\ left \subseteq {l \in Nat : 1 <= l /\ l <= launch}

Place == pc \in Ended \cup Working

Flags == repaired \in BOOLEAN /\ fresh \in BOOLEAN /\ interrupted \in BOOLEAN /\ discarded \in BOOLEAN

Typed == FilesTyped /\ Place /\ RoundsLeft /\ LaunchesTyped /\ Flags

LEMMA TypedIs == Typed => TypeOK
  <1>1. /\ {n \in Nat : n < PlanAttempts} = 0..(PlanAttempts - 1)
        /\ {n \in Nat : n < MaxAnswers} = 0..(MaxAnswers - 1)
    BY PipelineAssumption
  <1>2. ASSUME Typed PROVE {l \in Nat : 1 <= l /\ l <= launch} = 1..launch
    BY <1>2 DEF Typed, LaunchesTyped
  <1>3. Typed => /\ tries \in 0..SchemaRepairAttempts /\ turn \in 0..(MaxAnswers + PlanAttempts)
                 /\ launch \in 0..MaxLaunches
    BY PipelineAssumption DEF Typed, LaunchesTyped, RoundsLeft
  <1> QED
    BY Zenon, <1>1, <1>2, <1>3 DEF Typed, FilesTyped, RoundsLeft, LaunchesTyped, Place, Flags, TypeOK

LEMMA TypedInit == Init => Typed
  <1>1. Init => FilesTyped
    BY DEF Init, FilesTyped, Nothing
  <1>2. Init => RoundsLeft
    BY PipelineAssumption DEF Init, RoundsLeft
  <1>3. Init => LaunchesTyped
    BY PipelineAssumption DEF Init, LaunchesTyped, Working
  <1>4. Init => Flags /\ Place
    BY Zenon DEF Init, Flags, Place, Ended
  <1> QED
    BY <1>1, <1>2, <1>3, <1>4 DEF Typed

\* A checkpoint is written for the round that the launch is at.
LEMMA FilesTypedNext == Typed /\ [Next]_vars => FilesTyped'
  <1> SUFFICES ASSUME Typed, [Next]_vars PROVE FilesTyped'
    OBVIOUS
  <1> USE DEF Typed, FilesTyped, durable, checkpoints
  <1>1. CASE Quiet \/ Ending \/ Launch
    <2>1. UNCHANGED <<mission, durable>>
      BY Zenon, <1>1 DEF Quiet, Ending, Launch
    <2> QED
      BY <2>1
  <1>2. CASE WriteManifest \/ SchemaFails \/ SchemaNeverCompiles
    <2>1. UNCHANGED <<mission, artifacts, schema, plans, answers, refactors>>
      BY <1>2 DEF WriteManifest, SchemaFails, SchemaNeverCompiles
    <2> QED
      BY <2>1
  <1>3. CASE RunStage
    <2>1. \A n \in 1..4 : Stages[n] \in {"contract", "acceptance", "matrix", "inductive"}
      BY DEF Stages
    <2>2. artifacts' \subseteq artifacts \cup {Stages[n] : n \in 1..4}
      BY <1>3 DEF RunStage, Missing
    <2>3. UNCHANGED <<mission, schema, plans, answers, refactors>>
      BY <1>3 DEF RunStage
    <2> QED
      BY <2>1, <2>2, <2>3
  <1>4. CASE WriteSchema \/ RepairSchema
    BY <1>4 DEF WriteSchema, RepairSchema
  <1>5. CASE SchemaCompiles
    BY <1>5 DEF SchemaCompiles, ResetSynthesis, Nothing
  <1>6. CASE PlanIncrements
    BY <1>6 DEF PlanIncrements, Saved, RoundsLeft
  <1>7. CASE Answer
    BY <1>7 DEF Answer, Saved, RoundsLeft
  <1>8. CASE GatePasses \/ GateFails \/ EmitV2
    BY <1>8 DEF GatePasses, GateFails, EmitV2
  <1>9. CASE AskRefactor
    BY <1>9 DEF AskRefactor, Saved
  <1>10. CASE RefactorPasses \/ RefactorFails \/ RepairSoundness \/ SaveV2
    BY <1>10 DEF RefactorPasses, RefactorFails, RepairSoundness, SaveV2
  <1> QED
    BY Zenon, <1>1, <1>2, <1>3, <1>4, <1>5, <1>6, <1>7, <1>8, <1>9, <1>10, NextCases

LEMMA PlaceNext == Typed /\ [Next]_vars => Place'
  <1> SUFFICES ASSUME Place, [Next]_vars PROVE Place'
    BY DEF Typed
  <1> USE DEF Place, Ended, Working
  <1>1. CASE Quiet \/ Ending \/ Launch
    BY <1>1 DEF Quiet, Ending, Launch
  <1>2. CASE WriteManifest \/ RunStage \/ WriteSchema
    BY <1>2 DEF WriteManifest, RunStage, WriteSchema
  <1>3. CASE SchemaCompiles \/ SchemaFails \/ SchemaNeverCompiles \/ RepairSchema
    BY <1>3 DEF SchemaCompiles, SchemaFails, SchemaNeverCompiles, GiveUp, RepairSchema
  <1>4. CASE PlanIncrements \/ Answer
    BY <1>4 DEF PlanIncrements, Answer
  <1>5. CASE GatePasses \/ GateFails \/ EmitV2
    BY <1>5 DEF GatePasses, GateFails, EmitV2
  <1>6. CASE AskRefactor \/ RefactorPasses \/ RefactorFails \/ RepairSoundness \/ SaveV2
    BY <1>6 DEF AskRefactor, RefactorPasses, RefactorFails, RepairSoundness, SaveV2
  <1> QED
    BY Zenon, <1>1, <1>2, <1>3, <1>4, <1>5, <1>6, NextCases

LEMMA RoundsLeftNext == Typed /\ [Next]_vars => RoundsLeft'
  <1> SUFFICES ASSUME RoundsLeft, [Next]_vars PROVE RoundsLeft'
    BY DEF Typed
  <1> USE PipelineAssumption DEF RoundsLeft, counters
  <1>1. CASE Quiet
    <2>1. UNCHANGED <<tries, turn>>
      BY <1>1 DEF Quiet
    <2>2. CASE pc' = pc
      BY <2>1, <2>2
    <2>3. CASE pc = "size" /\ pc' \in {"v2", "plan"}
      BY <2>1, <2>3
    <2>4. CASE pc = "refactor" /\ pc' = "panel"
      BY <2>1, <2>4
    <2>5. CASE /\ pc \in {"service", "watch", "v2", "stop"}
               /\ pc' \in {"watch", "source", "stop", "emit"}
               /\ pc' \in {"watch", "source"} => pc \in {"service", "watch"}
      BY <2>1, <2>5
    <2> QED
      BY <1>1, <2>2, <2>3, <2>4, <2>5 DEF Quiet
  <1>2. CASE Ending
    <2>1. tries' = 0 /\ turn' = 0 /\ pc' \in {"down", "failed"}
      BY <1>2 DEF Ending, Ends, Forget
    <2> QED
      BY <2>1
  <1>3. CASE Launch
    BY <1>3 DEF Launch
  <1>4. CASE WriteManifest \/ RunStage \/ WriteSchema
    <2>1. /\ UNCHANGED <<tries, turn>> /\ pc \in {"source", "stages", "schema"}
          /\ pc' \in {"stages", "schema", "check"}
      BY <1>4 DEF WriteManifest, RunStage, WriteSchema
    <2> QED
      BY <2>1
  <1>5. CASE SchemaCompiles
    BY <1>5 DEF SchemaCompiles
  <1>6. CASE SchemaFails
    BY <1>6 DEF SchemaFails
  <1>7. CASE SchemaNeverCompiles
    BY <1>7 DEF SchemaNeverCompiles, GiveUp, Ends, Forget
  <1>8. CASE RepairSchema
    BY <1>8 DEF RepairSchema
  <1>9. CASE PlanIncrements
    <2>1. CASE pc' = "handed over" /\ UNCHANGED <<tries, turn>>
      BY <2>1
    <2>2. CASE pc = "plan" /\ pc' = pc /\ turn < PlanAttempts /\ turn' = turn + 1 /\ UNCHANGED tries
      BY <2>2
    <2> QED
      BY <1>9, <2>1, <2>2 DEF PlanIncrements
  <1>10. CASE Answer
    BY <1>10 DEF Answer
  <1>11. CASE GatePasses \/ EmitV2
    BY <1>11 DEF GatePasses, EmitV2
  <1>12. CASE GateFails
    BY <1>12 DEF GateFails
  <1>13. CASE AskRefactor \/ RefactorPasses \/ RefactorFails
    <2>1. UNCHANGED <<tries, turn>> /\ pc \in {"refactor", "regate"} /\ pc' \in {"regate", "panel"}
      BY <1>13 DEF AskRefactor, RefactorPasses, RefactorFails
    <2> QED
      BY <2>1
  <1>14. CASE RepairSoundness
    BY <1>14 DEF RepairSoundness
  <1>15. CASE SaveV2
    BY <1>15 DEF SaveV2
  <1> QED
    BY Zenon, <1>1, <1>2, <1>3, <1>4, <1>5, <1>6, <1>7, <1>8, <1>9, <1>10, <1>11, <1>12, <1>13,
       <1>14, <1>15, NextCases

LEMMA FlagsNext == Typed /\ [Next]_vars => Flags'
  <1> SUFFICES ASSUME Flags, [Next]_vars PROVE Flags'
    BY DEF Typed
  <1> USE DEF Flags, counters, history
  <1>1. CASE Quiet
    BY Zenon, <1>1 DEF Quiet
  <1>2. CASE Ending
    BY Zenon, <1>2 DEF Ending, Ends, Forget
  <1>3. CASE Launch
    BY Zenon, <1>3 DEF Launch
  <1>4. CASE WriteManifest \/ RunStage \/ WriteSchema
    BY Zenon, <1>4 DEF WriteManifest, RunStage, WriteSchema
  <1>5. CASE SchemaCompiles \/ SchemaFails \/ RepairSchema
    BY Zenon, <1>5 DEF SchemaCompiles, SchemaFails, RepairSchema
  <1>6. CASE SchemaNeverCompiles
    BY Zenon, <1>6 DEF SchemaNeverCompiles, GiveUp, Ends, Forget
  <1>7. CASE PlanIncrements \/ Answer
    BY Zenon, <1>7 DEF PlanIncrements, Answer
  <1>8. CASE GatePasses \/ GateFails \/ EmitV2
    BY Zenon, <1>8 DEF GatePasses, Passes, GateFails, EmitV2
  <1>9. CASE AskRefactor \/ RefactorPasses
    BY Zenon, <1>9 DEF AskRefactor, RefactorPasses, Passes
  <1>10. CASE RefactorFails \/ RepairSoundness \/ SaveV2
    BY Zenon, <1>10 DEF RefactorFails, RepairSoundness, SaveV2
  <1> QED
    BY Zenon, <1>1, <1>2, <1>3, <1>4, <1>5, <1>6, <1>7, <1>8, <1>9, <1>10, NextCases

LEMMA LaunchesTypedNext == Typed /\ [Next]_vars => LaunchesTyped'
  <1> SUFFICES ASSUME LaunchesTyped, mission \in Missions, [Next]_vars PROVE LaunchesTyped'
    BY DEF Typed, FilesTyped
  <1> USE PipelineAssumption DEF LaunchesTyped, Working, counters, services, history
  <1>1. CASE Launch
    <2>1. mission.launches \in Nat /\ mission.launches <= MaxLaunches
      BY PipelineAssumption
    <2> QED
      BY <1>1, <2>1 DEF Launch
  <1>2. CASE Crash \/ KillGroup \/ ServerFails
    <2>1. /\ launch' = launch /\ launch > 0 /\ pc' \notin Working
          /\ servers' \subseteq servers \cup {launch} /\ watchdogs' \subseteq watchdogs
          /\ left' \subseteq left \cup {launch}
      BY <1>2 DEF Crash, KillGroup, ServerFails, Ends
    <2> QED
      BY <2>1
  <1>3. CASE StartServer \/ SpawnWatchdog
    <2>1. /\ launch' = launch /\ launch > 0
          /\ servers' \subseteq servers \cup {launch} /\ watchdogs' \subseteq watchdogs \cup {launch}
          /\ left' = left
      BY <1>3 DEF StartServer, SpawnWatchdog
    <2> QED
      BY <2>1
  <1>4. ASSUME NEW l \in 1..MaxLaunches, Watchdog(l) PROVE LaunchesTyped'
    BY <1>4 DEF Watchdog
  <1>5. CASE NoSource \/ StageFails \/ GivesUp
    BY <1>5 DEF NoSource, StageFails, GivesUp, Panic, Ends
  <1>6. CASE SchemaNeverCompiles \/ IncrementTooBig \/ PlanFails
    BY <1>6 DEF SchemaNeverCompiles, IncrementTooBig, PlanFails, GiveUp, Ends
  <1>7. CASE WriteManifest \/ RunStage \/ WriteSchema
    BY <1>7 DEF WriteManifest, RunStage, WriteSchema
  <1>8. CASE SchemaCompiles \/ SchemaFails \/ RepairSchema
    BY <1>8 DEF SchemaCompiles, SchemaFails, RepairSchema
  <1>9. CASE FitsOneRun \/ StartPlanning \/ FindV2 \/ StopServices \/ NoRefactor
    BY <1>9 DEF FitsOneRun, StartPlanning, FindV2, StopServices, NoRefactor
  <1>10. CASE PlanIncrements
    BY <1>10 DEF PlanIncrements
  <1>11. CASE Answer \/ GatePasses \/ GateFails \/ EmitV2
    BY <1>11 DEF Answer, GatePasses, GateFails, EmitV2
  <1>12. CASE AskRefactor \/ RefactorPasses \/ RefactorFails \/ RepairSoundness \/ SaveV2
    BY <1>12 DEF AskRefactor, RefactorPasses, RefactorFails, RepairSoundness, SaveV2
  <1>13. CASE UNCHANGED vars
    BY <1>13 DEF vars
  <1> QED
    BY Zenon, <1>1, <1>2, <1>3, <1>4, <1>5, <1>6, <1>7, <1>8, <1>9, <1>10, <1>11, <1>12, <1>13
    DEF Next, Step

\* main.rs, schema_check.rs and increments.rs: no launch repairs, plans or answers more often than its
\* budget says, whatever the launches before it left behind, and every variable has its type.
THEOREM TypeCorrect == Spec => []TypeOK
  <1>1. Typed /\ [Next]_vars => Typed'
    BY FilesTypedNext, PlaceNext, RoundsLeftNext, FlagsNext, LaunchesTypedNext DEF Typed
  <1> QED
    BY TypedInit, TypedIs, <1>1, PTL DEF Spec

-----------------------------------------------------------------------------
(* Servers. *)

\* A server that runs has its watchdog or the launch that started it, or nobody can stop it.
Kept ==
  /\ servers \subseteq watchdogs \cup left \cup {l \in {launch} : pc \in Working}
  /\ pc = "emit" => launch \notin servers

LEMMA KeptInit == Init => Kept
  BY DEF Init, Kept

LEMMA KeptNext == Kept /\ [Next]_vars => Kept'
  <1> SUFFICES ASSUME Kept, [Next]_vars PROVE Kept'
    OBVIOUS
  <1> USE DEF Kept, Working, durable, checkpoints, counters, services, history
  <1>1. CASE Launch
    BY <1>1 DEF Launch
  <1>2. CASE Crash \/ KillGroup \/ ServerFails
    BY <1>2 DEF Crash, KillGroup, ServerFails, Ends
  <1>3. CASE StartServer \/ SpawnWatchdog
    BY <1>3 DEF StartServer, SpawnWatchdog
  <1>4. ASSUME NEW l \in 1..MaxLaunches, Watchdog(l) PROVE Kept'
    BY <1>4 DEF Watchdog
  <1>5. CASE NoSource \/ StageFails \/ GivesUp
    BY <1>5 DEF NoSource, StageFails, GivesUp, Panic, Ends
  <1>6. CASE SchemaNeverCompiles \/ IncrementTooBig \/ PlanFails
    BY <1>6 DEF SchemaNeverCompiles, IncrementTooBig, PlanFails, GiveUp, Ends
  <1>7. CASE WriteManifest \/ RunStage \/ WriteSchema
    BY <1>7 DEF WriteManifest, RunStage, WriteSchema
  <1>8. CASE SchemaCompiles \/ SchemaFails \/ RepairSchema
    BY <1>8 DEF SchemaCompiles, SchemaFails, RepairSchema
  <1>9. CASE FitsOneRun \/ StartPlanning \/ FindV2 \/ StopServices \/ NoRefactor
    BY <1>9 DEF FitsOneRun, StartPlanning, FindV2, StopServices, NoRefactor
  <1>10. CASE PlanIncrements
    BY <1>10 DEF PlanIncrements
  <1>11. CASE Answer \/ GatePasses \/ GateFails \/ EmitV2
    BY <1>11 DEF Answer, GatePasses, GateFails, EmitV2
  <1>12. CASE AskRefactor \/ RefactorPasses \/ RefactorFails \/ RepairSoundness \/ SaveV2
    BY <1>12 DEF AskRefactor, RefactorPasses, RefactorFails, RepairSoundness, SaveV2
  <1>13. CASE UNCHANGED vars
    BY <1>13 DEF vars
  <1> QED
    BY Zenon, <1>1, <1>2, <1>3, <1>4, <1>5, <1>6, <1>7, <1>8, <1>9, <1>10, <1>11, <1>12, <1>13
    DEF Next, Step

\* services.rs: in every order of starts, ends, kills and relaunches, a server that runs while no
\* launch is at work has a watchdog that is still to stop it, or its launch died before the
\* watchdog was there, or with it.  (That the watchdog then stops it is ServersStop.)
THEOREM ServersAreKept == Spec => [](pc \in Ended => servers \subseteq watchdogs \cup left)
  <1>1. Kept => (pc \in Ended => servers \subseteq watchdogs \cup left)
    BY DEF Kept, Ended, Working
  <1> QED
    BY KeptInit, KeptNext, <1>1, PTL DEF Spec
=============================================================================
