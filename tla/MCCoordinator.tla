--------------------------- MODULE MCCoordinator ---------------------------
(* A small instance of Coordinator: two workers, a work queue of two, and   *)
(* as many outcome slots as workers (the smallest the code accepts), so     *)
(* that the queues fill, the slots run out and outcomes arrive out of order.*)
EXTENDS Coordinator

\* A resumed suffix: pairs 1..3 after one verified outcome.
Suffix == <<1, 2, 3>>
=============================================================================
