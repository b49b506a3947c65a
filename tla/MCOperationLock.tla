--------------------------- MODULE MCOperationLock ---------------------------
(* The instance of OperationLock that TLC checks; without symmetry, for the  *)
(* sake of the liveness property.                                            *)
EXTENDS OperationLock
=============================================================================
