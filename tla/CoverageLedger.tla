--------------------------- MODULE CoverageLedger ---------------------------
(***************************************************************************)
(* What an analysis promises about its coverage, whatever runs, fails,     *)
(* is interrupted or crashes: the pairs of the frozen first-parent history *)
(* (numbered by their distance from the newest commit) are covered outward *)
(* from the newest in bounded windows, each window is sealed from its      *)
(* oldest pair to its newest, an outcome is sealed once and never changes, *)
(* and the committed frontier moves over whole sealed windows only.        *)
(***************************************************************************)
EXTENDS Naturals

CONSTANTS HistoryPairs,  \* number of adjacent pairs down to the root commit
          BatchLimit,    \* DEFAULT_BATCH_PAIR_LIMIT
          Outcomes,      \* the terminal statuses
          Open           \* stands for a pair without outcome

VARIABLES created,   \* whether the analysis exists
          frontier,  \* committed covered-pair count
          window,    \* end of the frozen pending window, frontier if none
          sealed     \* distance -> outcome or Open

ledgerVars == <<created, frontier, window, sealed>>

Distances == 0..(HistoryPairs - 1)

Init == /\ created = FALSE
        /\ frontier = 0 /\ window = 0
        /\ sealed = [d \in Distances |-> Open]

\* A bounded window of work is frozen at the frontier; the first one comes
\* with the analysis itself.
Freeze == /\ window = frontier
          /\ \E n \in 1..BatchLimit : /\ frontier + n <= HistoryPairs
                                      /\ window' = frontier + n
          /\ created' = TRUE
          /\ UNCHANGED <<frontier, sealed>>

\* The oldest open pair of the window receives its outcome.
Seal == /\ created
        /\ \E d \in frontier..(window - 1) :
              /\ sealed[d] = Open
              /\ \A e \in (d + 1)..(window - 1) : sealed[e] # Open
              /\ \E o \in Outcomes : sealed' = [sealed EXCEPT ![d] = o]
        /\ UNCHANGED <<created, frontier, window>>

\* The completely sealed window is committed.
Advance == /\ window > frontier
           /\ \A d \in frontier..(window - 1) : sealed[d] # Open
           /\ frontier' = window
           /\ UNCHANGED <<created, window, sealed>>

Next == Freeze \/ Seal \/ Advance

Spec == Init /\ [][Next]_ledgerVars
=============================================================================
