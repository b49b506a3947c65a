--------------------------- MODULE MCSiblingMoves ---------------------------
(* Two regions on either side: one with four children, one with two; a      *)
(* wrapper around the third child and one around the last.                  *)
EXTENDS SiblingMoves, TLC

Candidates == 1..16
Deletions == 1..8
OneFile == [c \in Candidates |-> "unit"]
\*          children 1-4      5-6     wrappers of 3 and 6
Starts ==   <<2, 12, 22, 32,  52, 62, 20, 60,   2, 12, 22, 32,  52, 62, 20, 60>>
Ends ==     <<8, 18, 28, 38,  58, 68, 30, 70,   8, 18, 28, 38,  58, 68, 30, 70>>
Parents ==  <<1, 1, 1, 1,     2, 2,   1, 2,     3, 3, 3, 3,     4, 4,   3, 4>>
Ordinals == <<1, 2, 3, 4,     1, 2,   0, 0,     1, 2, 3, 4,     1, 2,   0, 0>>
Regions ==  <<0, 0, 20, 0,    0, 60,  20, 60,   0, 0, 20, 0,    0, 60,  20, 60>>
Wrappers == {7, 8, 15, 16}
Roles == [c \in Candidates |-> IF c \in Wrappers THEN "single_child_wrapper" ELSE "structural_child"]

InPlace(e) == Parents[e[2]] = Parents[e[1]] + 2

AllPairs == Deletions \X (Candidates \ Deletions)

\* Two unique statements, u before v, and two others, at most one of them not
\* the repeated one.
Regional(other) ==
    {s \in [1..4 -> {"u", "v", "r", other}] :
        /\ \E i, j \in 1..4 : /\ i < j /\ s[i] = "u" /\ s[j] = "v"
                              /\ \A k \in 1..4 \ {i, j} : s[k] \in {"r", other}
        /\ Cardinality({k \in 1..4 : s[k] = other}) <= 1}

\* The same with u and v in the other order.
Swapped(s) == [k \in 1..4 |-> IF s[k] = "u" THEN "v" ELSE IF s[k] = "v" THEN "u" ELSE s[k]]

Texts(s, a, t, b) == s \o a \o <<s[3], a[2]>> \o t \o b \o <<t[3], b[2]>>

\* The context of a comparison: which pairs are akin, and what the classifier
\* says of a pair that stays in its region.
Contexts == {<<AllPairs, "ambiguous">>, <<{e \in AllPairs : InPlace(e)}, "relocated">>, <<{}, "stationary">>}

Registry(s, a, t, b, context) ==
    [text |-> Texts(s, a, t, b),
     steady |-> Candidates \ Wrappers,
     akin |-> context[1],
     kind |-> [e \in AllPairs |-> IF InPlace(e) THEN context[2] ELSE "relocated"]]

Registries ==
    {Registry(s, a, t, b, x) :
        s \in Regional("x"), a \in {<<"w", "r">>, <<"z", "r">>, <<"w", "z">>},
        t \in Regional("w") \cup {Swapped(<<"u", "v", "r", "r">>)}, b \in {<<"y", "r">>, <<"y", "y">>}, x \in Contexts}
=============================================================================
