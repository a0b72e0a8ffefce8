------------------------------ MODULE MCBench -------------------------------
(* A few tasks and the crates that tell their checks apart. *)
EXTENDS Bench

CONSTANTS c1, t1

MCChecks == {c1}
MCTests == {t1}

Exact == [name |-> c1, expects |-> {"stdout", "exit"}]

\* Tasks of each kind, two that do not load among them.
MCTasks == {[complete |-> TRUE, binary |-> b, checks |-> C, cargoTests |-> T, testFiles |-> T] :
              b \in {"none", "bare name"}, C \in {{}, {Exact}}, T \in BOOLEAN}

DeliveredCrate(builds, binary, program, tests) ==
  [builds |-> builds, binary |-> binary, program |-> [c \in MCChecks |-> program],
   testsRun |-> tests # "none run", failing |-> IF tests = "one fails" THEN {t1} ELSE {}]

Ran(ends, meets) == [starts |-> TRUE, ends |-> ends, meets |-> meets]
TestRuns == {"none run", "one fails", "all pass"}

\* Crates that lack one thing: they do not build, build no such binary, have a program that
\* hangs or meets a part of what the check expects, or tests that do not run or fail; and one
\* that lacks nothing.
MCCrates ==
  {DeliveredCrate(FALSE, FALSE, Ran(FALSE, {}), "none run"),
   DeliveredCrate(TRUE, FALSE, Ran(FALSE, {}), "all pass"),
   DeliveredCrate(TRUE, TRUE, Ran(FALSE, {"stdout"}), "all pass"),
   DeliveredCrate(TRUE, TRUE, Ran(TRUE, {"stdout"}), "all pass")}
    \cup {DeliveredCrate(TRUE, TRUE, Ran(TRUE, {"stdout", "exit"}), t) : t \in TestRuns}
=============================================================================
