----------------------------- MODULE CaseResults -----------------------------
(***************************************************************************)
(* What a benchmark run promises about its results, whatever crashes and   *)
(* however often it is resumed: a case gets a result once; a result is     *)
(* replaced only by a retry of a failure that may be retried; the run is   *)
(* complete only while every case has one; and a run that ends well has    *)
(* reported the results it then has.                                       *)
(***************************************************************************)
EXTENDS Naturals

CONSTANTS CaseSet, Outcomes, RetryableFailures, NoResult

VARIABLES result,    \* case -> outcome or NoResult
          complete,  \* whether the run is marked completed
          reported   \* the results of the last report, NoResult where none

resultVars == <<result, complete, reported>>

Nothing == [c \in CaseSet |-> NoResult]

Init == result = Nothing /\ complete = FALSE /\ reported = Nothing

\* One case gets a result, or gets another one.
Settle(c) == /\ ~complete
             /\ result[c] \in RetryableFailures \cup {NoResult}
             /\ result'[c] \in Outcomes
             /\ result' = [result EXCEPT ![c] = result'[c]]
             /\ UNCHANGED <<complete, reported>>

Complete == /\ \A c \in CaseSet : result[c] # NoResult
            /\ complete' = TRUE
            /\ UNCHANGED <<result, reported>>

Reopen == complete' = FALSE /\ UNCHANGED <<result, reported>>

Report == complete /\ reported' = result /\ UNCHANGED <<result, complete>>

Next == \/ \E c \in CaseSet : Settle(c)
        \/ Complete \/ Reopen \/ Report

Spec == Init /\ [][Next]_resultVars
=============================================================================
