------------------------ MODULE MCBenchmarkExecution -------------------------
(* BenchmarkExecution for TLC: two cases, two launches on one run directory, *)
(* two troubles.                                                             *)
EXTENDS BenchmarkExecution

Mode(retry, cacheOn, refresh, capture) ==
    [retry |-> retry, cache |-> cacheOn, refresh |-> refresh, capture |-> capture]
MCModes == {Mode(TRUE, TRUE, FALSE, "diagnostics"), Mode(FALSE, TRUE, TRUE, "review"),
            Mode(FALSE, FALSE, FALSE, "plain")}
MCScores == {"oracle_pass"}
=============================================================================
