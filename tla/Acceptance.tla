----------------------------- MODULE Acceptance -----------------------------
(***************************************************************************)
(* A benchmark task's hidden checks (bench/src/taskspec.rs, acceptance.rs): *)
(* which tasks load, and what is found out about a finished crate.         *)
(*                                                                         *)
(* Of a check it matters which of its expectations the crate's program     *)
(* meets; the texts that are compared, and what a difference looks like,   *)
(* are left out.                                                           *)
(***************************************************************************)
EXTENDS FiniteSets

CONSTANTS
  Checks,  \* the [[check]] entries tasks may have
  Tests    \* the tests in acceptance/tests

\* What a check may expect; one that expects nothing only runs the program.
Expectations == {"stdout", "stderr", "exit"}

\* task.toml and what lies beside it.  complete: its name is its directory's, and source/,
\* mission.md, acceptance/ and both solutions are there.
Task == [complete : BOOLEAN, binary : {"none", "bare name", "path"},
         checks : SUBSET [name : Checks, expects : SUBSET Expectations],
         cargoTests : BOOLEAN, testFiles : BOOLEAN]

\* Mutant: a task need not check anything.
LoadOne_Anything(t) ==
  /\ t.complete
  /\ t.binary # "path"
  /\ t.cargoTests => t.testFiles
  /\ t.checks # {} => t.binary # "none"

LoadOne(t) ==
  /\ t.complete
  /\ t.binary # "path"
  /\ t.cargoTests => t.testFiles
  /\ t.cargoTests \/ t.checks # {}
  /\ t.checks # {} => t.binary # "none"

\* A crate: whether it builds, whether that gives the binary the task names, what its program
\* does with each check's input, and what the acceptance tests say of it.
Crate == [builds : BOOLEAN, binary : BOOLEAN,
          program : [Checks -> [starts : BOOLEAN, ends : BOOLEAN, meets : SUBSET Expectations]],
          testsRun : BOOLEAN, failing : SUBSET Tests]

Passed(name) == [name |-> name, passed |-> TRUE]
Fail(name) == [name |-> name, passed |-> FALSE]

\* One run of the program, whose group is killed when its time is up: that, too, fails.
RunOneCheck(crate, check) ==
  LET did == crate.program[check.name]
  IN  [name |-> check.name,
       passed |-> did.starts /\ did.ends /\ check.expects \subseteq did.meets]

RunBinary(task, crate) ==
  IF task.checks = {} THEN {}
  ELSE IF crate.binary THEN {RunOneCheck(crate, check) : check \in task.checks}
  ELSE {Fail("binary")}

\* cargo test, told to run the acceptance tests only: each failing test is named, and where
\* none is, because they do not compile, end or get there, the whole is.
RunCargoTests(crate) ==
  IF crate.testsRun /\ crate.failing = {} THEN {Passed("cargo_tests")}
  ELSE IF crate.testsRun THEN {Fail(test) : test \in crate.failing}
  ELSE {Fail("cargo_tests")}

\* The crate is built in a copy of its own; one that does not build is checked no further.
RunChecks(task, crate) ==
  IF ~crate.builds THEN {Fail("build")}
  ELSE RunBinary(task, crate) \cup (IF task.cargoTests THEN RunCargoTests(crate) ELSE {})

\* No directory for the copy, or no copy.
NoCopy == {Fail("setup")}

FailedOf(outcomes) == {o.name : o \in {x \in outcomes : ~x.passed}}

\* What a task asks of a crate: that it builds, that the program it names ends on every input
\* as the check expects, and that no acceptance test fails.
Accepts(task, crate) ==
  /\ crate.builds
  /\ \A check \in task.checks :
       /\ crate.binary
       /\ crate.program[check.name].starts /\ crate.program[check.name].ends
       /\ \A e \in check.expects : e \in crate.program[check.name].meets
  /\ task.cargoTests => crate.testsRun /\ crate.failing = {}
=============================================================================
