----------------------------- MODULE MCPipeline -----------------------------
EXTENDS Pipeline

\* Every mission without services three times, and those with services, whose servers multiply
\* the states, twice and without the split.
MCMissions ==
  [services : {FALSE}, split : BOOLEAN, chain : BOOLEAN, readable : BOOLEAN, launches : {3}]
    \cup [services : {TRUE}, split : {FALSE}, chain : {FALSE}, readable : BOOLEAN, launches : {2}]

MCSchemas == {[deps |-> {"ghost"}, sound |-> TRUE, big |-> FALSE],
              [deps |-> {"serde"}, sound |-> TRUE, big |-> FALSE],
              [deps |-> {"tokio"}, sound |-> TRUE, big |-> TRUE]}

MCGhosts == {"ghost"}

MCSections == {NoSection,
               [kind |-> "bare", deps |-> {"axum"}],
               [kind |-> "whole", deps |-> {"axum"}],
               [kind |-> "malformed", deps |-> {}]}
=============================================================================
