---------------------------- MODULE MCMilestones ----------------------------
(* Small plans and scenes for model checking Milestones. *)
EXTENDS Milestones

M(name, hard, agentic, deps) == [name |-> name, hard |-> hard, agentic |-> agentic, deps |-> deps]

Hard    == <<M("a", TRUE, FALSE, {})>>
Plain   == <<M("a", FALSE, FALSE, {})>>
Agentic == <<M("a", FALSE, TRUE, {})>>
FanOut  == <<M("a", FALSE, FALSE, {}), M("b", FALSE, FALSE, {})>>
Mixed   == <<M("a", TRUE, FALSE, {}), M("b", FALSE, TRUE, {})>>
Late    == <<M("a", FALSE, FALSE, {"b"}), M("b", FALSE, FALSE, {"other"})>>
Cycle   == <<M("a", FALSE, FALSE, {"b"}), M("b", FALSE, FALSE, {"a"})>>
MCPlans == {<< >>, Hard, Plain, Agentic, FanOut, Mixed, Late, Cycle}

Scene(first, split, gap, verdicts, reviews, n) ==
    [first |-> first, gap |-> gap, split |-> split,
     verdicts |-> verdicts, reviews |-> reviews, launches |-> n]

\* Splits of one milestone over two launches; splits within a fan-out; orders
\* that are not the plan's; rounds of gaps and reviews.
MCScenes == {
    Scene({Hard, Agentic}, {<< >>, Plain}, {<< >>}, {"clean", "e1"}, {TRUE}, 2),
    Scene({Mixed}, {FanOut}, {<< >>}, {"clean"}, {TRUE}, 1),
    Scene({Late, Cycle, FanOut}, {<< >>}, {<< >>}, {"clean"}, {TRUE}, 1),
    Scene({Plain}, {<< >>}, {Plain, << >>}, {"clean", "e2"}, BOOLEAN, 1),
    Scene({FanOut}, {<< >>}, {<< >>}, {"clean", "e2"}, {TRUE}, 1),
    Scene({Plain}, {Plain}, {<< >>}, {"e1", "e2"}, {TRUE}, 1)}
=============================================================================
