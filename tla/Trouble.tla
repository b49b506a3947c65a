------------------------------- MODULE Trouble -------------------------------
(***************************************************************************)
(* A bounded supply of what goes wrong around the program: crashes, full   *)
(* disks, dead subprocesses, rewritten branches, upgraded tools.           *)
(***************************************************************************)
EXTENDS Naturals

CONSTANT MaxTroubles
ASSUME TroubleAssumption == MaxTroubles \in Nat

VARIABLE troubles

Strike == troubles < MaxTroubles /\ troubles' = troubles + 1
NoStrike == UNCHANGED troubles
=============================================================================
