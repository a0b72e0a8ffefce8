--------------------------- MODULE MCConversation ---------------------------
(* Small fleets and requests for model checking Conversation. *)
EXTENDS Conversation

Reviewer == KindOf("SecurityReviewer", TRUE, FALSE, FALSE)
Merger   == KindOf("MergeAgent", TRUE, FALSE, FALSE)
Planner  == KindOf("MilestonePlanner", FALSE, TRUE, FALSE)

Groq     == Entry("openai_compat", "groq", <<Named("llama-3.3-70b-versatile")>>)
Gx10     == Entry("openai_compat", "gx10", <<Named("mistral")>>)

Run(config, env, down, skipQq, agents) ==
    [config |-> config, env |-> env, down |-> down, skipQq |-> skipQq, kinds |-> agents]

\* Reviewers on two providers that no probe has looked at and of which one comes
\* and goes; conversations on two providers, both there; and with the probes, which
\* may reject the one that is there.
MCRuns == {
    Run(<< >>, {"anthropic", "claude_cli"}, {}, TRUE, {Reviewer}),
    Run(<<Groq, Gx10>>, {}, {}, TRUE, {Planner}),
    Run(<<Groq, Gx10>>, {}, {"gx10"}, FALSE, {Planner})}

\* A configured "groq" entry and GROQ_API_KEY give two slots of one name.
MCTwins == {Run(<<Groq>>, {"groq"}, {}, TRUE, {Planner, Merger})}
=============================================================================
