------------------------- MODULE MCFeatureRequests -------------------------
(* Instances of FeatureRequests for TLC. *)
EXTENDS FeatureRequests

Own == [j \in Jobs |-> j]

\* A pipeline that reports to a server and whose stage starts a thread, one
\* that is launched again, and two short jobs that raise the same requests
\* while users decide on them.
MCScenarios ==
    {[jobs |-> 1, ws |-> Own, reporting |-> TRUE, stages |-> 2, notes |-> 0, kills |-> 0,
      raise |-> {}, decisions |-> 0],
     [jobs |-> 1, ws |-> Own, reporting |-> TRUE, stages |-> 1, notes |-> 2, kills |-> 0,
      raise |-> {}, decisions |-> 0],
     [jobs |-> 1, ws |-> Own, reporting |-> TRUE, stages |-> 1, notes |-> 0, kills |-> 1,
      raise |-> {}, decisions |-> 0],
     [jobs |-> 2, ws |-> Own, reporting |-> FALSE, stages |-> 0, notes |-> 0, kills |-> 0,
      raise |-> Slug, decisions |-> 2]}

\* A run without a server.
MCResumed ==
    {[jobs |-> 1, ws |-> Own, reporting |-> FALSE, stages |-> 1, notes |-> 0, kills |-> 1,
      raise |-> {}, decisions |-> 0]}
=============================================================================
