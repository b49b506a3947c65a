---------------------------- MODULE MCPairListing ----------------------------
(* PairListing and AnalysisRun on small histories. *)
EXTENDS PairListing

\* One target of each kind: counts that extend each other, the second beyond
\* the root of three pairs, and `through` names the newest commit itself.
MixedTargets ==
    {[kind |-> "total_pairs", value |-> 1], [kind |-> "additional_pairs", value |-> 2],
     [kind |-> "through", value |-> 0], [kind |-> "all", value |-> 0]}

TwoQueries == {[filter |-> "any", oldestFirst |-> FALSE],
               [filter |-> "failed", oldestFirst |-> TRUE]}
=============================================================================
