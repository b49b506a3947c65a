---------------------------- MODULE MCCaseScoring -----------------------------
(* CaseScoring for TLC: pairs of cases over three fragments, one of them with *)
(* a replacement character that srcMove may spell differently, another of     *)
(* which it may report a part; a registry without entries, and one whose      *)
(* entry corrects a label of one pair set and contradicts those of others,    *)
(* derived and not; a region on the payload, one half on it, one beside it.   *)
EXTENDS CaseScoring

Part == "part"
BrokenSpelt == "broken spelt"
Fragments == {"plain", "other", "third", "long", "broken"}

MCDamaged == {"broken", BrokenSpelt}
MCRepaired == [t \in Fragments \cup {BrokenSpelt, Part} |->
                  IF t = BrokenSpelt THEN "broken" ELSE t]
MCShown == [t \in Fragments |-> CASE t = "broken" -> {t, BrokenSpelt}
                                 [] t = "long" -> {t, Part} [] OTHER -> {t}]

CaseOf(kind, category, from, to) ==
    [kind |-> kind, category |-> category, from |-> from, to |-> to]
Selected(pairSet, membership, cases) ==
    [pairSet |-> pairSet, membership |-> membership, cases |-> cases]
MCPairSets ==
    {Selected("type2c", "derived", <<CaseOf("positive", "type2c", "plain", "other"),
                                     CaseOf("positive", "type2c", "plain", "third")>>),
     Selected("type3", "derived", <<CaseOf("positive", "type3", "plain", "broken")>>),
     Selected("type1", "legacy", <<CaseOf("positive", "type1", "plain", "long")>>),
     Selected("known-false-positive", "derived",
              <<CaseOf("known_false_positive", None, "plain", "long")>>)}

NoCorrections == [pair \in {} |-> None]
Corrections == [pair \in {{"plain", t} : t \in {"other", "broken", "long"}} |->
                   [original |-> "type2c", reviewed |-> "type3"]]
MCRegistries == {NoCorrections, Corrections}

MCRegions == {<<3, 4>>, <<4, 5>>, <<1, 2>>}
MCPayload == <<3, 4>>
=============================================================================
