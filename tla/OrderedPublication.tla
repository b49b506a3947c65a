------------------------- MODULE OrderedPublication -------------------------
(***************************************************************************)
(* What run_pairs_from_sequence promises the analysis layer, with no       *)
(* threads, queues or semaphores: the outcomes of a contiguous run of      *)
(* commit pairs are published one at a time in sequence order, an outcome  *)
(* is acknowledged (its ephemeral inputs may be deleted) only after its    *)
(* publication returned and before the next one is published, and the call *)
(* returns normally only when the whole run is published and acknowledged. *)
(* A call may give up at any moment; it then keeps the prefix it reached.  *)
(***************************************************************************)
EXTENDS Naturals

CONSTANTS First,     \* the verified starting sequence
          Total      \* how many pairs the caller asked for

VARIABLES published,   \* sequences durably published by this call
          acknowledged,\* sequences whose inputs were handed back
          verdict      \* "running", "returned" or "failed"

vars == <<published, acknowledged, verdict>>

Frontier(S) == {s \in First..(First + Total - 1) \ S : First..(s - 1) \subseteq S}

Init == /\ published = {}
        /\ acknowledged = {}
        /\ verdict = "running"

Publish == /\ verdict = "running"
           /\ acknowledged = published
           /\ \E s \in Frontier(published) : published' = published \cup {s}
           /\ UNCHANGED <<acknowledged, verdict>>

Acknowledge == /\ verdict = "running"
               /\ acknowledged # published
               /\ acknowledged' = published
               /\ UNCHANGED <<published, verdict>>

Return == /\ verdict = "running"
          /\ acknowledged = First..(First + Total - 1)
          /\ verdict' = "returned"
          /\ UNCHANGED <<published, acknowledged>>

Fail == /\ verdict = "running"
        /\ verdict' = "failed"
        /\ UNCHANGED <<published, acknowledged>>

Next == Publish \/ Acknowledge \/ Return \/ Fail

Spec == Init /\ [][Next]_vars
=============================================================================
