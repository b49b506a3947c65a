---------------------------- MODULE Publications -----------------------------
(***************************************************************************)
(* What the benchmark's immutable publications promise to who reads them:  *)
(* a publication, once there, never changes or goes away; a selection is   *)
(* of a dataset that is published, and benchmark cases are of a selection  *)
(* that is, each naming exactly the manifest it was made from.             *)
(***************************************************************************)
EXTENDS FiniteSets

VARIABLES datasets,    \* [id, stamp]: identity and manifest of a dataset
          selections,  \* the datasets that are selected from
          cases        \* the selections that cases are published for

publicationVars == <<datasets, selections, cases>>

Init == datasets = {} /\ selections = {} /\ cases = {}

PublishDataset(d) == /\ \A e \in datasets : e.id # d.id
                     /\ datasets' = datasets \cup {d}
                     /\ UNCHANGED <<selections, cases>>

PublishSelection(d) == /\ d \in datasets \ selections
                       /\ selections' = selections \cup {d}
                       /\ UNCHANGED <<datasets, cases>>

PublishCases(d) == /\ d \in selections \ cases
                   /\ cases' = cases \cup {d}
                   /\ UNCHANGED <<datasets, selections>>

Next == \/ \E d \in datasets' : PublishDataset(d)
        \/ \E d \in datasets : PublishSelection(d) \/ PublishCases(d)

Spec == Init /\ [][Next]_publicationVars
=============================================================================
