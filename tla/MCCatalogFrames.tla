---------------------------- MODULE MCCatalogFrames --------------------------
(* CatalogFrames for TLC: every bag of a few rows over three functions, each *)
(* with a few source trees.  Two strata stand for the four of the code.      *)
EXTENDS CatalogFrames

Row(kind, type, line, token, one, two) ==
    [kind |-> kind, functionality |-> 1, type |-> type, line |-> line, token |-> token,
     one |-> one, two |-> two]

Elsewhere(row) == [row EXCEPT !.functionality = 2]

SingleRows == {
    Row("positive", 2, 90, 90, 2, 3),
    Row("positive", 3, 100, 100, 1, 3),
    Row("positive", 3, 95, 80, 1, 2),
    Row("positive", 3, 60, 95, 2, 1),
    Row("positive", 3, 70, 90, 1, 3),
    Row("positive", 3, 40, 30, 2, 3),
    Row("known_false_positive", 3, 40, 30, 3, 2),
    Elsewhere(Row("known_false_positive", 1, 90, 90, 1, 2))}
DoubledRow == Row("positive", 3, 75, 75, 3, 3)

MCExports == {[r \in SingleRows \cup {DoubledRow} |-> IF r = DoubledRow THEN n
                                                     ELSE IF r \in there THEN 1 ELSE 0] :
                  there \in SUBSET SingleRows, n \in {0, 2}}

Tree(first, second, third) ==
    [m \in {1, 2} \X {1, 2, 3} |-> <<first, second, third>>[m[2]]]
MCSourceTrees == {
    Tree(1, 2, 3), Tree(3, 2, 1), Tree(1, 2, 2), Tree(2, 2, 1), Tree(1, 2, Missing),
    [Tree(1, 2, 3) EXCEPT ![<<2, 1>>] = 4]}
MCStrata == <<70, 0>>
=============================================================================
