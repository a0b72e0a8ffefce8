------------------------------ MODULE Pipeline ------------------------------
(***************************************************************************)
(* The orchestrator's main program (ai-org-orchestrator/src/main.rs,       *)
(* services.rs, schema_check.rs, increments.rs, quality.rs): a launch      *)
(* starts the mission's services, writes the crate's manifest, goes        *)
(* through the stages its workspace has no artifact of, makes the schema   *)
(* compile, hands a mission that is too big to the queue, or synthesizes,  *)
(* and delivers.  Launches follow each other on one workspace.             *)
(*                                                                         *)
(* Abstractions: the contract stage is one step (Contract models its       *)
(* loop) and synthesis a series of answers, each put to the gate, with the *)
(* refactor of the one that passed and the repairs the review panel asks   *)
(* for (Assembly and Milestones model their control); a manifest is its    *)
(* set of added dependencies; a launch's number stands for its process id. *)
(* Cut-off writes are in Contract and Assembly.                            *)
(***************************************************************************)
EXTENDS Naturals

CONSTANTS
  Missions,       \* what a mission and its source may ask for, each a record: services, split,
                  \*   chain.json, files to read; and launches: how many it gets (bound of the model)
  Schemas,        \* the schemas an architect may write, each a record:
                  \*   deps: the crates it declares; sound: its code compiles; big: over budget
  Ghosts,         \* crates that cannot be had: no manifest that names one compiles
  Sections,       \* the Cargo.toml sections of an answer: kind and deps
  SchemaRepairAttempts, PlanAttempts,  \* SCHEMA_REPAIR_ATTEMPTS, PLAN_ATTEMPTS
  MaxAnswers,     \* answers synthesis puts to the gate before it gives up
  MaxLaunches     \* the most of these launches

ASSUME PipelineAssumption ==
  /\ SchemaRepairAttempts \in Nat /\ PlanAttempts \in Nat /\ MaxAnswers \in Nat /\ MaxLaunches \in Nat
  /\ Missions \subseteq [services : BOOLEAN, split : BOOLEAN, chain : BOOLEAN, readable : BOOLEAN,
                          launches : 0..MaxLaunches]

Stages == <<"contract", "acceptance", "matrix", "inductive">>

VARIABLES
  mission,     \* what the mission and the source ask for
  artifacts,   \* the artifacts of the plain stages, and increments.json
  schema,      \* schema.rs: the schemas it holds, one or none
  plans,       \* plans[n]: checkpoint IncrementPlanner/n
  answers,     \* answers[n]: checkpoint n of synthesis
  refactors,   \* refactors[0]: checkpoint refactor/0
  v2,          \* v2.rs, with the Cargo.toml section it carries: one or none
  manifest,    \* v2/Cargo.toml
  pc, tries, repaired, turn,  \* the running launch, and its counters
  code,        \* the crate in hand that passed the gate, with its section: one or none
  fresh,       \* this launch synthesized, it did not find v2.rs
  launch,      \* its process id
  servers, watchdogs,  \* launches whose Postgres server runs, and whose watchdog does
  judged,      \* the manifest of the gate that the last crate passed (history)
  discarded,   \* that crate was kept in place of a refactored one (history)
  interrupted, \* a launch ended between saving a repaired schema and dropping the checkpoints (history)
  left         \* launches that nobody can clean up after (history)

checkpoints == <<plans, answers, refactors>>
durable == <<artifacts, schema, checkpoints, v2, manifest>>
counters == <<tries, repaired, turn, code, fresh>>
services == <<servers, watchdogs>>
history == <<judged, discarded, interrupted, left>>
vars == <<mission, durable, pc, counters, launch, services, history>>

Nothing == [n \in {} |-> {}]
Ended == {"down", "failed", "handed over", "done"}
Working == {"service", "watch", "source", "stages", "schema", "check", "repair", "size", "plan",
            "v2", "gate", "refactor", "regate", "panel", "stop", "emit"}

\* Every variable has its type, and no loop goes past its bound.
TypeOK ==
  /\ mission \in Missions
  /\ artifacts \subseteq {"contract", "acceptance", "matrix", "inductive", "increments"}
  /\ schema = {} \/ \E s \in Schemas : schema = {s}
  /\ DOMAIN plans \subseteq 0..(PlanAttempts - 1) /\ DOMAIN answers \subseteq 0..(MaxAnswers - 1)
  /\ DOMAIN refactors \subseteq {0}
  /\ pc \in Ended \cup Working
  /\ tries \in 0..SchemaRepairAttempts /\ turn \in 0..(MaxAnswers + PlanAttempts)
  /\ repaired \in BOOLEAN /\ fresh \in BOOLEAN /\ interrupted \in BOOLEAN /\ discarded \in BOOLEAN
  /\ launch \in 0..MaxLaunches
  /\ servers \subseteq 1..launch /\ watchdogs \subseteq 1..launch /\ left \subseteq 1..launch

Init ==
  /\ mission \in Missions
  /\ artifacts = {} /\ schema = {} /\ plans = Nothing /\ answers = Nothing
  /\ refactors = Nothing /\ v2 = {} /\ manifest = {}
  /\ pc = "down" /\ tries = 0 /\ repaired = FALSE /\ turn = 0
  /\ code = {} /\ fresh = FALSE
  /\ launch = 0 /\ servers = {} /\ watchdogs = {}
  /\ judged = {} /\ discarded = FALSE /\ interrupted = FALSE /\ left = {}

-----------------------------------------------------------------------------
(* How a launch starts and ends. *)

\* The queue runs the job, or runs it again after a crash, a failure or a cut-off end.
Launch ==
  /\ pc \in {"down", "failed"} /\ launch < mission.launches
  /\ launch' = launch + 1
  /\ pc' = IF mission.services THEN "service" ELSE "source"
  /\ UNCHANGED <<mission, durable, counters, services, history>>

\* What a process has in memory.
Forget == tries' = 0 /\ repaired' = FALSE /\ turn' = 0 /\ code' = {} /\ fresh' = FALSE

\* A launch ends where it does: the checkpoints that a repaired schema makes stale stay behind,
\* and so does a server that has no watchdog.
Ends ==
  /\ Forget
  /\ interrupted' = (interrupted \/ (repaired /\ pc \in {"check", "repair"}))
  /\ left' = left \cup ({launch} \cap (servers' \ watchdogs'))
  /\ UNCHANGED <<judged, discarded>>

\* process::exit(1) after services::stop_all.
GiveUp ==
  /\ servers' = servers \ {launch} /\ UNCHANGED watchdogs
  /\ pc' = "failed" /\ Ends

\* A panic, or an exit that forgets the services.
Panic == UNCHANGED services /\ pc' = "failed" /\ Ends

\* The process dies alone, or the machine takes no one else along.
Crash ==
  /\ pc \in Working /\ pc' = "down" /\ UNCHANGED services /\ Ends
  /\ UNCHANGED <<mission, durable, launch>>

\* The queue cancels the job or recovers it: the whole process group is killed, the watchdog
\* with it; the server has a session of its own.
KillGroup ==
  /\ pc \in Working \cup {"down"} /\ launch > 0 /\ pc' = "down"
  /\ watchdogs' = watchdogs \ {launch} /\ UNCHANGED servers /\ Ends
  /\ UNCHANGED <<mission, durable, launch>>

-----------------------------------------------------------------------------
(* Postgres::start, stop and its watchdog. *)

StartServer ==
  /\ pc = "service" /\ servers' = servers \cup {launch} /\ pc' = "watch"
  /\ UNCHANGED <<mission, durable, counters, launch, watchdogs, history>>

\* pg_ctl reports a failure: the server did not start, or not in time.
ServerFails ==
  /\ pc = "service" /\ pc' = "failed"
  /\ servers' \in {servers, servers \cup {launch}} /\ UNCHANGED watchdogs /\ Ends
  /\ UNCHANGED <<mission, durable, launch>>

SpawnWatchdog ==
  /\ pc = "watch" /\ watchdogs' = watchdogs \cup {launch} /\ pc' = "source"
  /\ UNCHANGED <<mission, durable, counters, launch, servers, history>>

Alive(l) == l = launch /\ pc \in Working

\* Mutant: the watchdog removes the server's files and does not stop it.
Watchdog_FilesOnly(l) ==
  /\ l \in watchdogs /\ ~Alive(l) /\ watchdogs' = watchdogs \ {l}
  /\ UNCHANGED <<mission, durable, pc, counters, launch, servers, history>>

\* The watchdog finds the process gone: it stops the server and removes its files.
Watchdog(l) ==
  /\ l \in watchdogs /\ ~Alive(l)
  /\ servers' = servers \ {l} /\ watchdogs' = watchdogs \ {l}
  /\ UNCHANGED <<mission, durable, pc, counters, launch, history>>

-----------------------------------------------------------------------------
(* The manifest and the plain stages. *)

\* Nothing to read: the launch ends, and its services run on.
NoSource ==
  /\ pc = "source" /\ ~mission.readable /\ Panic
  /\ UNCHANGED <<mission, durable, launch>>

\* The manifest is written anew from the source's by every launch.
WriteManifest ==
  /\ pc = "source" /\ mission.readable /\ manifest' = {} /\ pc' = "stages"
  /\ UNCHANGED <<mission, artifacts, schema, checkpoints, v2, counters, launch, services, history>>

Missing == {n \in 1..4 : Stages[n] \notin artifacts}

\* An artifact of an earlier launch is taken as it is; the others are made in order.
RunStage ==
  /\ pc = "stages"
  /\ \/ Missing = {} /\ pc' = "schema" /\ UNCHANGED artifacts
     \/ /\ UNCHANGED pc
        /\ \E n \in Missing : (\A m \in Missing : n <= m) /\ artifacts' = artifacts \cup {Stages[n]}
  /\ UNCHANGED <<mission, schema, checkpoints, v2, manifest, counters, launch, services, history>>

\* An agent's error is not handled: .expect("... failed").
StageFails ==
  /\ \/ pc = "stages" /\ Missing # {}
     \/ pc = "schema" /\ schema = {}
     \/ pc = "repair"
     \/ pc = "v2" /\ v2 = {}
     \/ pc = "panel"
  /\ Panic
  /\ UNCHANGED <<mission, durable, launch>>

-----------------------------------------------------------------------------
(* The schema. *)

WriteSchema ==
  /\ pc = "schema" /\ pc' = "check"
  /\ IF schema # {} THEN UNCHANGED schema ELSE \E s \in Schemas : schema' = {s}
  /\ UNCHANGED <<mission, artifacts, checkpoints, v2, manifest, counters, launch, services, history>>

Declared == UNION {s.deps : s \in schema}

\* Mutant: a repaired schema does not drop what was made for the old one.
ResetSynthesis_Not == UNCHANGED <<checkpoints, v2>>

ResetSynthesis ==
  IF repaired THEN plans' = Nothing /\ answers' = Nothing /\ refactors' = Nothing /\ v2' = {}
  ELSE UNCHANGED <<checkpoints, v2>>

\* The schema's crates are added to the manifest on disk, and cargo finds nothing to say.
SchemaCompiles ==
  /\ pc = "check" /\ manifest' = manifest \cup Declared
  /\ \A s \in schema : s.sound
  /\ manifest' \cap Ghosts = {}
  /\ ResetSynthesis /\ pc' = "size"
  /\ UNCHANGED <<mission, artifacts, schema, counters, launch, services, history>>

\* cargo can fail on any schema: it may need the network.
SchemaFails ==
  /\ pc = "check" /\ tries < SchemaRepairAttempts
  /\ manifest' = manifest \cup Declared /\ pc' = "repair"
  /\ UNCHANGED <<mission, artifacts, schema, checkpoints, v2, counters, launch, services, history>>

SchemaNeverCompiles ==
  /\ pc = "check" /\ tries = SchemaRepairAttempts
  /\ manifest' = manifest \cup Declared /\ GiveUp
  /\ UNCHANGED <<mission, artifacts, schema, checkpoints, v2, launch>>

\* The repaired schema is saved before it is checked.
RepairSchema ==
  /\ pc = "repair" /\ \E s \in Schemas : schema' = {s}
  /\ repaired' = TRUE /\ tries' = tries + 1 /\ pc' = "check"
  /\ UNCHANGED <<mission, artifacts, checkpoints, v2, manifest, turn, code, fresh, launch,
                  services, history>>

-----------------------------------------------------------------------------
(* A mission that is too big for one run. *)

TooBig == mission.split /\ \A s \in schema : s.big

FitsOneRun ==
  /\ pc = "size" /\ ~TooBig /\ pc' = "v2"
  /\ UNCHANGED <<mission, durable, counters, launch, services, history>>

IncrementTooBig ==
  /\ pc = "size" /\ TooBig /\ mission.chain /\ GiveUp
  /\ UNCHANGED <<mission, durable, launch>>

StartPlanning ==
  /\ pc = "size" /\ TooBig /\ ~mission.chain /\ pc' = "plan"
  /\ UNCHANGED <<mission, durable, counters, launch, services, history>>

\* A checkpoint is written, or is there already.
Saved(table, n, entry) == [m \in DOMAIN table \cup {n} |-> IF m = n THEN entry ELSE table[m]]

\* A checkpoint's answer, or a new one about the schema of now.
Checkpoint(table, n, answer) ==
  IF n \in DOMAIN table THEN answer = table[n] ELSE answer.schema = schema

\* The planner's reply holds a number of increments that can be used, or does not.
PlanIncrements ==
  /\ pc = "plan" /\ turn < PlanAttempts
  /\ \E plan \in [schema : {schema} \cup {plans[n].schema : n \in DOMAIN plans}, usable : BOOLEAN] :
       /\ Checkpoint(plans, turn, plan) /\ plans' = Saved(plans, turn, plan)
       /\ \/ /\ plan.usable /\ artifacts' = artifacts \cup {"increments"} /\ UNCHANGED turn
             /\ pc' = "handed over" /\ servers' = servers \ {launch}
          \/ ~plan.usable /\ turn' = turn + 1 /\ UNCHANGED <<pc, artifacts, servers>>
  /\ UNCHANGED <<mission, schema, answers, refactors, v2, manifest, tries, repaired, code, fresh,
                  launch, watchdogs, history>>

\* No usable plan, or no answer at all.
PlanFails ==
  /\ pc = "plan" /\ GiveUp
  /\ UNCHANGED <<mission, durable, launch>>

-----------------------------------------------------------------------------
(* Synthesis, its gate and the manifest. *)

FindV2 ==
  /\ pc = "v2" /\ v2 # {} /\ pc' = "stop"
  /\ UNCHANGED <<mission, durable, counters, launch, services, history>>

Answer ==
  /\ pc = "v2" /\ v2 = {} /\ turn < MaxAnswers
  /\ \E answer \in [schema : {schema} \cup {answers[n].schema : n \in DOMAIN answers}, section : Sections] :
       Checkpoint(answers, turn, answer) /\ answers' = Saved(answers, turn, answer)
  /\ fresh' = TRUE /\ pc' = "gate"
  /\ UNCHANGED <<mission, artifacts, schema, plans, refactors, v2, manifest, tries, repaired, turn,
                  code, launch, services, history>>

\* Mutant: a bare [dependencies] replaces the manifest, as in job #36.
Reconciled_Replace(section) ==
  IF section.kind \in {"bare", "whole"} THEN section.deps ELSE manifest

\* A whole manifest is taken as it is, bare dependencies are added to the one on disk, and a
\* malformed one is left aside.
Reconciled(section) ==
  CASE section.kind = "whole" -> section.deps
    [] section.kind = "bare" -> manifest \cup section.deps
    [] OTHER -> manifest

NoSection == [kind |-> "none", deps |-> {}]

\* Mutant: the clean code keeps the section as the agent wrote it.
Clean_AsWritten(section) == section

\* The clean code's section is what lies on disk after the gate.
Clean(section) ==
  IF section.kind = "none" THEN NoSection ELSE [kind |-> "whole", deps |-> Reconciled(section)]

\* The gate finds nothing to say of a crate, which is then the one in hand.
Passes(answer) ==
  /\ answer.section.kind # "malformed"
  /\ manifest' = Reconciled(answer.section) /\ manifest' \cap Ghosts = {}
  /\ code' = {[schema |-> answer.schema, section |-> Clean(answer.section)]}
  /\ judged' = manifest' /\ discarded' = FALSE

\* A crate in hand means that the panel had this one repaired; the first one may be refactored.
GatePasses ==
  /\ pc = "gate" /\ Passes(answers[turn])
  /\ pc' = IF code = {} THEN "refactor" ELSE "panel"
  /\ UNCHANGED <<mission, artifacts, schema, checkpoints, v2, tries, repaired, turn, fresh, launch,
                 services, interrupted, left>>

GateFails ==
  /\ pc = "gate" /\ manifest' = Reconciled(answers[turn].section)
  /\ turn' = turn + 1 /\ pc' = "v2"
  /\ UNCHANGED <<mission, artifacts, schema, checkpoints, v2, tries, repaired, code, fresh, launch,
                 services, history>>

\* No file is long, the agent fails, or the crate is a merged one: refactor_pass does nothing.
NoRefactor ==
  /\ pc = "refactor" /\ pc' = "panel"
  /\ UNCHANGED <<mission, durable, counters, launch, services, history>>

AskRefactor ==
  /\ pc = "refactor" /\ pc' = "regate"
  /\ \E answer \in [schema : {schema} \cup {refactors[n].schema : n \in DOMAIN refactors}, section : Sections] :
       Checkpoint(refactors, 0, answer) /\ refactors' = Saved(refactors, 0, answer)
  /\ UNCHANGED <<mission, artifacts, schema, plans, answers, v2, manifest, counters, launch,
                  services, history>>

RefactorPasses ==
  /\ pc = "regate" /\ Passes(refactors[0]) /\ pc' = "panel"
  /\ UNCHANGED <<mission, artifacts, schema, checkpoints, v2, tries, repaired, turn, fresh, launch,
                 services, interrupted, left>>

\* The working crate is kept; the manifest on disk is the one that the gate made of the
\* refactored crate's.
RefactorFails ==
  /\ pc = "regate" /\ manifest' = Reconciled(refactors[0].section)
  /\ discarded' = TRUE /\ pc' = "panel"
  /\ UNCHANGED <<mission, artifacts, schema, checkpoints, v2, counters, launch, services,
                 judged, interrupted, left>>

\* The panel finds the crate unsound: a repaired one must pass the gate.
RepairSoundness ==
  /\ pc = "panel" /\ turn' = turn + 1 /\ pc' = "v2"
  /\ UNCHANGED <<mission, durable, tries, repaired, code, fresh, launch, services, history>>

\* The panel has no objection, and main saves the crate.
SaveV2 ==
  /\ pc = "panel" /\ v2' = code /\ code' = {} /\ pc' = "stop"
  /\ UNCHANGED <<mission, artifacts, schema, checkpoints, manifest, tries, repaired, turn, fresh, launch,
                 services, history>>

\* Synthesis used up its attempts: its error panics in main.
GivesUp ==
  /\ pc = "v2" /\ v2 = {} /\ turn = MaxAnswers /\ Panic
  /\ UNCHANGED <<mission, durable, launch>>

StopServices ==
  /\ pc = "stop" /\ servers' = servers \ {launch} /\ pc' = "emit"
  /\ UNCHANGED <<mission, durable, counters, launch, watchdogs, history>>

\* emit_v2_source writes every file v2.rs carries, the manifest if it is one.
EmitV2 ==
  /\ pc = "emit" /\ pc' = "done"
  /\ \E crate \in v2 : manifest' = IF crate.section.kind = "none" THEN manifest ELSE crate.section.deps
  /\ UNCHANGED <<mission, artifacts, schema, checkpoints, v2, counters, launch, services, history>>

Step ==
  \/ StartServer \/ SpawnWatchdog \/ NoSource \/ WriteManifest \/ RunStage \/ WriteSchema
  \/ SchemaCompiles \/ SchemaFails \/ SchemaNeverCompiles \/ RepairSchema
  \/ FitsOneRun \/ IncrementTooBig \/ StartPlanning \/ PlanIncrements \/ PlanFails
  \/ FindV2 \/ Answer \/ GatePasses \/ GateFails
  \/ NoRefactor \/ AskRefactor \/ RefactorPasses \/ RefactorFails \/ RepairSoundness \/ SaveV2
  \/ GivesUp \/ StopServices \/ EmitV2

Next ==
  \/ Step \/ Launch \/ Crash \/ KillGroup \/ ServerFails \/ StageFails
  \/ \E l \in 1..MaxLaunches : Watchdog(l)

Spec == Init /\ [][Next]_vars

\* The orchestrator runs, its calls return, and its watchdogs look every five seconds.
\* Nothing is assumed of crashes, kills, errors or new launches.
FairSpec == Spec /\ WF_vars(Step) /\ \A l \in 1..MaxLaunches : WF_vars(Watchdog(l))

-----------------------------------------------------------------------------
(* Properties. *)

\* "so a changed schema is not answered from checkpoints made against the old one": from the
\* size check on, every checkpoint a launch has, and v2.rs, were made against the schema that
\* lies in the workspace, however often it was repaired and relaunched; unless a launch ended
\* after it saved a repaired schema and before it dropped what was made for the one before.
MadeForThisSchema ==
  pc \in {"plan", "v2", "gate", "refactor", "regate", "panel", "stop", "emit", "done"} =>
    \/ interrupted
    \/ /\ \A n \in DOMAIN plans : plans[n].schema = schema
       /\ \A n \in DOMAIN answers : answers[n].schema = schema
       /\ \A n \in DOMAIN refactors : refactors[n].schema = schema
       /\ \A crate \in v2 : crate.schema = schema

\* The delivered manifest is the one that the delivered crate passed its last gate with, through
\* every reset, overlay, refactor, repair and replay; unless the crate carries no manifest of
\* its own and then this launch found it as v2.rs, and wrote a manifest anew, or a refactor of
\* it was discarded, see WorkingCrateIsKept.
DeliveredAsJudged ==
  pc = "done" => \A crate \in v2 :
    (fresh /\ ~discarded) \/ crate.section.kind # "none" => manifest = judged

\* "otherwise the working crate is kept": of every crate that this launch made.  The code does
\* not keep this: what a discarded refactor adds to the manifest stays on disk, and is delivered
\* with a crate that carries none.
WorkingCrateIsKept == pc = "done" /\ fresh => manifest = judged

\* The crates the schema declares stay in the manifest to the end, whatever bare or malformed
\* manifests the answers carry; only a complete manifest may drop them (job #36), and a v2.rs that
\* was made for the schema before, which a crash may leave behind (see MadeForThisSchema).
DependenciesKept ==
  pc \in {"size", "v2", "gate", "refactor", "regate", "panel", "stop", "emit", "done"} =>
    \/ interrupted
    \/ Declared \subseteq manifest
    \/ \E n \in DOMAIN answers : answers[n].section.kind = "whole"
    \/ \E n \in DOMAIN refactors : refactors[n].section.kind = "whole"

\* "It is stopped and deleted by `stop`, and by a watchdog if the orchestrator is killed before
\* it can": a server of a launch does not outlive it for good; unless the launch died before
\* the watchdog was there, or the watchdog was killed along with it.
ServersStop == \A l \in 1..MaxLaunches : (l \in servers) ~> (l \notin servers \/ l \in left)

\* The same, without the exceptions.
NoServerIsLeft == \A l \in 1..MaxLaunches : (l \in servers) ~> (l \notin servers)

=============================================================================
