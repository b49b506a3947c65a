------------------------ MODULE MCBenchmarkArtifacts -------------------------
(* BenchmarkArtifacts for TLC: two interchangeable processes over one data  *)
(* root, three launches, two troubles.                                      *)
EXTENDS BenchmarkArtifacts, TLC

ProcessSymmetry == Permutations(Processes)
=============================================================================
