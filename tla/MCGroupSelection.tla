-------------------------- MODULE MCGroupSelection --------------------------
(* A deleted construct with two inside it, an inserted one with two inside  *)
(* it, and an inserted construct alone in the wrapper of its diff element.  *)
EXTENDS GroupSelection, TLC

Candidates == 1..8
Deletions == {1, 2, 3}
OneFile == [c \in Candidates |-> "unit"]
Starts == <<1, 2, 5, 21, 22, 25, 41, 40>>
Ends == <<9, 4, 8, 29, 24, 28, 44, 45>>
Constructs == 1..7   \* 8 wraps 7
Roles == [c \in Candidates |-> IF c \in Constructs THEN "structural_child" ELSE "single_child_wrapper"]

\* The sizes of the texts: n renames p, o is as long and close to it, q is
\* longer and close to it; e renames d; l is most of
\* what encloses it.
Size == [p |-> 11, n |-> 11, o |-> 11, q |-> 12, c |-> 3, d |-> 4, e |-> 4, l |-> 7, w |-> 5]
Key == [p |-> "p", n |-> "p", o |-> "o", q |-> "q", c |-> "c", d |-> "d", e |-> "d", l |-> "l", w |-> "w"]

Texts ==
    {<<a, "c", b, "p", f, g, h, "w">> :
        a \in {"p", "n", "o", "q"}, b \in {"c", "d", "l"}, f \in {"c", "e"},
        g \in {"c", "d", "e", "l"}, h \in {"d", "e"}}

\* The common length of two texts that reach the Type-3 threshold.
Common(s, t) == IF {s, t} = {"p", "q"} THEN 11 ELSE IF {s, t} = {"p", "o"} THEN 10 ELSE 0

Verdicts == {"move", "stay", "tentative", "contradicted"}

\* The verdicts on the enclosing pair and on the pairs of candidate 3 vary; the
\* repeated ones have evidence of a relocation unless candidate 3 stays.
Registry(text, outer, inner) ==
    [text |-> text,
     key |-> [c \in Candidates |-> Key[text[c]]],
     units |-> [c \in Candidates |-> Size[text[c]]],
     common |-> [e \in Deletions \X (Candidates \ Deletions) |-> Common(text[e[1]], text[e[2]])],
     longer |-> [e \in Deletions \X (Candidates \ Deletions) |->
                    Max({Size[text[e[1]]], Size[text[e[2]]]})],
     verdict |-> [e \in (SUBSET Deletions) \X (SUBSET (Candidates \ Deletions)) |->
                     IF e = <<{1}, {4}>> THEN outer
                     ELSE IF e[1] = {3} /\ Cardinality(e[2]) = 1 THEN inner
                     ELSE IF Cardinality(e[1]) > 1 /\ inner = "stay" THEN "stay"
                     ELSE "move"]]

Registries == {Registry(t, o, i) : t \in Texts, o \in Verdicts, i \in Verdicts}

ASSUME EveryRegistry == \A r \in Registries : Registered(r)

Comparisons == {Comparison(r) : r \in Registries}
=============================================================================
