------------------------ MODULE MCProcessSupervision ------------------------
(* A leader and two descendants, enough for a process that forks another    *)
(* one and ends while the scan is under way, or that leaves the group with   *)
(* the pipe; a capture with a head and a tail of one byte.                   *)
EXTENDS ProcessSupervision

CONSTANTS leader, a, b
ThreeProcs == {leader, a, b}
=============================================================================
