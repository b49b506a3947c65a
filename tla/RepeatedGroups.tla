--------------------------- MODULE RepeatedGroups ---------------------------
(***************************************************************************)
(* How srcMove resolves repeated exact text (refine_repeated_exact_groups  *)
(* of content_group_builder.cpp): some of the occurrences of a text that   *)
(* is deleted and inserted several times become pairs, on the evidence of  *)
(* siblings that are unique; the rest stays an unresolved class; wrappers  *)
(* with one child follow their child.                                      *)
(*                                                                         *)
(* Beyond what MatchProposals takes from a registry r:                     *)
(*   r.steady     the structural children whose sibling context is reliable*)
(*   r.akin       the pairs in the same file and container, with the same  *)
(*                interpretable ancestors                                  *)
(*   r.kind[e]    the movement_kind of a pair                              *)
(***************************************************************************)
EXTENDS MatchProposals

CONSTANTS Parent,    \* revision_file and sequence_parent_id of a candidate
          Ordinal,   \* sequence_sibling_ordinal
          Region     \* diff_region_start_idx

\* A region of the diff has one wrapper, and its start is its identity
\* (region_filter.cpp:870).
ASSUME SiblingAssumption ==
    /\ Ordinal \in [Candidate -> Nat]
    /\ Parent \in [Candidate -> Nat] /\ DOMAIN Region = Candidate
    /\ \A w, x \in {c \in Candidate : Role[c] = "single_child_wrapper"} :
          SameSide(w, x) /\ Region[w] = Region[x] => w = x

Kinds == {"stationary", "relocated", "restructured", "ambiguous"}

\* Whether an exact group is a copy (continuing_source_copy) or what is left of
\* one (unresolved_exact_residual).
Group(D, I) == [dels |-> D, inss |-> I, copy |-> FALSE, residual |-> FALSE]

Couple(e) == Group({e[1]}, {e[2]})

\* The reliable child k places after c, as a set: it is empty if there is none
\* or the place is disputed (lookup).
At(r, c, k) ==
    LET S == {d \in r.steady : /\ d \in Deleted <=> c \in Deleted
                               /\ Parent[d] = Parent[c]
                               /\ Ordinal[d] = Ordinal[c] + k}
    IN IF Cardinality(S) = 1 THEN S ELSE {}

Placed(r, c) == c \in r.steady /\ At(r, c, 0) = {c}

-----------------------------------------------------------------------------
(* What is known beforehand.                                               *)

\* The original unique pairs of placed children.
Seeds(r) ==
    {e \in UNION {g.dels \X g.inss : g \in UniqueExact(r)} : Placed(r, e[1]) /\ Placed(r, e[2])}

\* The partners of c in a set of pairs.
PartnerIn(E, c) == {e[2] : e \in {f \in E : f[1] = c}} \cup {e[1] : e \in {f \in E : f[2] = c}}

Places(e) == <<Parent[e[1]], Parent[e[2]]>>

\* Whether e keeps its place relative to the pair s.
KeepsOrder(s, e) == Ordinal[s[1]] < Ordinal[e[1]] <=> Ordinal[s[2]] < Ordinal[e[2]]

\* corresponding_parents, from the seeds that are akin: two or more agree on
\* each other's parent, none disagrees, and they keep their order.
Correspondences(akin) ==
    {p \in {Places(s) : s \in akin} :
        LET votes == {s \in akin : Places(s) = p}
        IN /\ Cardinality(votes) >= 2
           /\ \A s \in akin : Parent[s[1]] = p[1] <=> Parent[s[2]] = p[2]
           /\ \A s, t \in votes : KeepsOrder(s, t)}

\* What the repeated groups are judged by.
Evidence(r) ==
    LET seeds == Seeds(r)
    IN [seeds |-> seeds, akin |-> seeds \cap r.akin,
        regions |-> Correspondences(seeds \cap r.akin)]

\* Whether e joins corresponding regions and keeps the order of their seeds.
FitsRegion(v, e) ==
    \A s \in v.akin : Places(s) = Places(e) => KeepsOrder(s, e)

-----------------------------------------------------------------------------
(* The pairs of a repeated group.                                          *)

Refinable(r, g) ==
    /\ BothSides(g) /\ ~Single(g)
    /\ \A c \in g.dels \cup g.inss : Placed(r, c)
    /\ Apart(g.dels) /\ Apart(g.inss)

\* The insertions of g next to the partner of a neighbour of d.
Nominees(r, v, g, d) ==
    g.inss \cap UNION {UNION {At(r, m, -k) : m \in UNION {PartnerIn(v.seeds, n) : n \in At(r, d, k)}} :
                          k \in {-1, 1}}

\* local_nominee: alone of the group in parents that correspond.
Local(v, g, e) ==
    /\ Places(e) \in v.regions
    /\ {d \in g.dels : Parent[d] = Parent[e[1]]} = {e[1]}
    /\ {i \in g.inss : Parent[i] = Parent[e[2]]} = {e[2]}

\* The sides of c on which its neighbour has a partner.
Witnesses(r, v, c) ==
    {k \in {-1, 1} : \E n \in At(r, c, k) : PartnerIn(v.seeds, n) # {}}

\* That partner is the neighbour of d on the same side, wherever there is one.
Confirmed(r, v, c, d) ==
    \A k \in Witnesses(r, v, c) : UNION {PartnerIn(v.seeds, n) : n \in At(r, c, k)} = At(r, d, k)

\* How well the siblings support the nominee of a deletion, 0 if one of them
\* contradicts.
Support(r, v, g, e) ==
    IF Local(v, g, e) THEN IF FitsRegion(v, e) THEN 2 ELSE 0
    ELSE IF Confirmed(r, v, e[1], e[2]) /\ Confirmed(r, v, e[2], e[1])
         THEN Cardinality(Witnesses(r, v, e[1]))
         ELSE 0

\* The nominated pairs of a group that siblings support, and how well.
Scored(r, v, g) ==
    LET nominated == {e \in g.dels \X g.inss : e[2] \in Nominees(r, v, g, e[1]) \/ Local(v, g, e)}
    IN {x \in {[pair |-> e, score |-> Support(r, v, g, e)] : e \in nominated} : x.score > 0}

\* Faulty, unused: the best for the deletion will do (no look at insert_best).
BestForDeletion(r, v, g) ==
    LET all == Scored(r, v, g)
    IN {x.pair : x \in {x \in all : \A y \in all \ {x} :
                            x.pair[1] = y.pair[1] => y.score < x.score}}

\* The pairs that support each other best, without a tie on either side.
MutualBest(r, v, g) ==
    LET all == Scored(r, v, g)
    IN {x.pair : x \in {x \in all : \A y \in all \ {x} :
                            x.pair[1] = y.pair[1] \/ x.pair[2] = y.pair[2] => y.score < x.score}}

\* learned_continuation: the pair stayed in a corresponding region.
Continues(r, v, e) == Places(e) \in v.regions /\ FitsRegion(v, e) /\ r.kind[e] # "relocated"

\* continuing_origins.
Origins(r, v, E) == {e[1] : e \in {f \in E : Continues(r, v, f) \/ r.kind[f] = "stationary"}}

\* The pairs of a group, of which an unequal one that has no continuing origin
\* is not taken apart.
Accepted(r, v, g) ==
    IF ~Refinable(r, g) THEN {}
    ELSE LET E == MutualBest(r, v, g)
         IN IF Cardinality(g.dels) # Cardinality(g.inss) /\ Origins(r, v, E) = {} THEN {} ELSE E

Firsts(E) == {e[1] : e \in E}
Seconds(E) == {e[2] : e \in E}

\* What the pairs E leave of a group.
Rest(g, E) ==
    [dels |-> g.dels \ Firsts(E), inss |-> g.inss \ Seconds(E),
     copy |-> g.copy, residual |-> g.residual]

NonEmpty(g) == {h \in {g} : h.dels \cup h.inss # {}}

\* Faulty, unused: what is left of a class is a pair like any other.
PartsByElimination(r, v, g) ==
    LET E == Accepted(r, v, g)
    IN {Couple(e) : e \in E} \cup NonEmpty(Rest(g, E))

\* What becomes of a group: its pairs, the additional copies of an origin that
\* continues, and what is left.
Parts(r, v, g) ==
    LET E == Accepted(r, v, g)
        rest == IF E = {} THEN g ELSE [Rest(g, E) EXCEPT !.residual = TRUE]
        copy == [Group(Origins(r, v, E), rest.inss) EXCEPT !.copy = TRUE]
    IN {Couple(e) : e \in E} \cup NonEmpty(rest)
       \cup {h \in {copy} : rest.dels = {} /\ BothSides(h)}

-----------------------------------------------------------------------------
(* Wrappers of a single child.                                             *)

\* aliased_child, with E the inferred pairs, as a set.
AliasOf(r, E, w) ==
    LET S == {c \in Firsts(E) \cup Seconds(E) :
                 SameSide(c, w) /\ Region[c] = Region[w] /\ r.text[c] = r.text[w]}
    IN {c \in Candidate : /\ Role[w] = "single_child_wrapper"
                          /\ Lo[w] < Lo[c] /\ Hi[c] < Hi[w]
                          /\ S = {c}}

\* The wrappers of a group whose children are partners of each other.
WrapperPairs(r, E, g) ==
    {e \in g.dels \X g.inss :
        /\ \E x \in E : AliasOf(r, E, e[1]) = {x[1]} /\ AliasOf(r, E, e[2]) = {x[2]}
        /\ \A i \in g.inss : AliasOf(r, E, i) = AliasOf(r, E, e[2]) => i = e[2]}

Aliases(r, E, g) == {w \in g.dels \cup g.inss : AliasOf(r, E, w) # {}}

\* suppressed_aliases.
LoneWrappers(r, E, g) ==
    LET P == WrapperPairs(r, E, g)
    IN Aliases(r, E, g) \ (Firsts(P) \cup Seconds(P))

\* Faulty, unused: a wrapper without a counterpart stays in its class.
KeepLoneWrappers(r, E, g) ==
    LET P == WrapperPairs(r, E, g)
        rest == Rest(g, P)
    IN {Couple(e) : e \in P} \cup NonEmpty([rest EXCEPT !.residual = @ \/ rest # g])

\* Wrappers become pairs with their children; one that finds no counterpart
\* leaves its class.
FollowChildren(r, E, g) ==
    LET S == Aliases(r, E, g)
        rest == IF S = {} THEN g
                ELSE [dels |-> g.dels \ S, inss |-> g.inss \ S, copy |-> g.copy, residual |-> TRUE]
    IN {Couple(e) : e \in WrapperPairs(r, E, g)} \cup NonEmpty(rest)
=============================================================================
