-------------------------- MODULE SavedComparisons ---------------------------
(***************************************************************************)
(* What `compare` saves under comparisons/ and what `snapshot` exports of  *)
(* it (srcmove_history/comparison.py and snapshot.py).  The content of an  *)
(* artifact is known by how it compares with what the run that sealed the  *)
(* pair produced: "same" or "other".  The effects below are steps of an    *)
(* operation of HistoryFiles, which holds the operation lock.              *)
(***************************************************************************)
EXTENDS PairWorker

VARIABLES
    saved,      \* comparisons/<pair>/<name>
    record,     \* comparisons/<pair>/history-evidence.json
    exported,   \* what the last snapshot holds of every pair
    request,    \* the comparison in progress
    made,       \* what its worker produced
    matched     \* history: what comparisons produced that matched the row

comparisonVars == <<saved, record, exported, request, made, matched>>

Absent == "absent"
Torn == [n \in {"torn"} |-> Absent]
NoFiles == << >>
NothingSaved == [n \in Names |-> Absent]
NoRequest == [pair |-> NoPair, byPair |-> FALSE, select |-> {}]
Selections == {{SrcdiffXml}, {ResultsJson}, Names}   \* --save srcdiff, srcmove, all

ComparisonInit ==
    /\ saved = [p \in Pairs |-> NothingSaved]
    /\ record = [p \in Pairs |-> NoFiles]
    /\ exported = [p \in Pairs |-> NoFiles]
    /\ request = NoRequest
    /\ made = NothingSaved
    /\ matched = [p \in Pairs |-> {}]

Made(o, contents) == [n \in Names |-> IF n \in o.valid THEN contents[n] ELSE Absent]

\* publish: with a pair number the outcome must repeat the sealed row, in its
\* status and in the bytes of its results.
MatchesRow(row, o, m) == o.status = row.status /\ m[ResultsJson] # "other"

Selected == {n \in request.select : made[n] # Absent}
Unsaved(done) == Selected \ done
\* The artifacts are copied in the order of the outcome, srcDiff's first.
NextName(done) == IF SrcdiffXml \in Unsaved(done) THEN SrcdiffXml ELSE ResultsJson

CopyArtifact(done) ==
    saved' = [saved EXCEPT ![request.pair][NextName(done)] = made[NextName(done)]]

\* history-evidence.json is rewritten in place, first emptied.
EmptyRecord == record' = [record EXCEPT ![request.pair] = Torn]
WriteRecord == record' = [record EXCEPT ![request.pair] = [n \in Selected |-> made[n]]]

Readable(p) == record[p] # Torn  \* faulty, unused
\* snapshot: every recorded file must still have the recorded bytes.
Verified(p) == record[p] # Torn /\ \A n \in DOMAIN record[p] : saved[p][n] = record[p][n]
ExportComparisons(sealed) ==
    /\ \A p \in sealed : Verified(p)
    /\ exported' = [p \in Pairs |-> IF p \in sealed
                       THEN [n \in DOMAIN record[p] |-> saved[p][n]] ELSE NoFiles]
=============================================================================
