---------------------------- MODULE SiblingMoves ----------------------------
(***************************************************************************)
(* What siblings mean to srcMove: before the selection they resolve        *)
(* repeated text (RepeatedGroups), after it they join selected pairs that  *)
(* keep their order into sequences (build_move_sequences and               *)
(* build_reported_moves of move_sequences.cpp).  In between the selection  *)
(* is any choice it could make (GroupSelection says which).                *)
(***************************************************************************)
EXTENDS RepeatedGroups

CONSTANT Comparisons   \* the registries

\* A parent is of one side of one file, and its ordinals count its children in
\* the document: two candidates with the same one are the same element, met in
\* two regions (region_filter.cpp:1257).
ASSUME ComparisonAssumption ==
    \A r \in Comparisons :
        /\ r.steady \subseteq Structural /\ \A c \in r.steady : Ordinal[c] > 0 /\ Lo[c] < Hi[c]
        /\ r.akin \subseteq Deleted \X Inserted
        /\ r.kind \in [Deleted \X Inserted -> Kinds]
        /\ DOMAIN r.text = Candidate
        /\ \A c, d \in r.steady : Parent[c] = Parent[d] =>
              /\ SameSide(c, d)
              /\ Ordinal[c] < Ordinal[d] => Hi[c] < Lo[d]
              /\ Ordinal[c] = Ordinal[d] => Lo[c] = Lo[d] /\ Hi[c] = Hi[d]

VARIABLES phase,
          registry,         \* the registry of this comparison
          groups,     \* exact_groups
          pairs,      \* inferred_partners
          stable,     \* the pairs whose ends are both in continuing_ids
          suppressed, \* suppressed_aliases
          moves,      \* the selected groups
          reports     \* the reported items, each the set of its moves

siblingVars == <<phase, registry, groups, pairs, stable, suppressed, moves, reports>>

SiblingInit ==
    /\ phase = "refine" /\ registry \in Comparisons
    /\ groups = {} /\ pairs = {} /\ stable = {} /\ suppressed = {} /\ moves = {} /\ reports = {}

Refine ==
    /\ phase = "refine" /\ phase' = "follow"
    /\ LET v == Evidence(registry)
           exact == {Group(g.dels, g.inss) : g \in ExactGroups(registry)}
           E == UNION {Accepted(registry, v, g) : g \in exact}
       IN /\ groups' = UNION {Parts(registry, v, g) : g \in exact}
          /\ pairs' = E
          /\ stable' = {e \in E : Continues(registry, v, e)}
    /\ UNCHANGED <<registry, suppressed, moves, reports>>

Follow ==
    /\ phase = "follow" /\ phase' = "select"
    /\ groups' = UNION {FollowChildren(registry, pairs, g) : g \in groups}
    /\ suppressed' = UNION {LoneWrappers(registry, pairs, g) : g \in groups}
    /\ stable' = stable \cup {e \in UNION {WrapperPairs(registry, pairs, g) : g \in groups} :
                                 \E x \in stable : AliasOf(registry, pairs, e[1]) = {x[1]}}
    /\ UNCHANGED <<registry, pairs, moves, reports>>

-----------------------------------------------------------------------------
(* The selection.                                                          *)

\* A pair with an identity of its own, not a copy or a remainder.
Unique(g) == Single(g) /\ ~g.copy /\ ~g.residual

\* Faulty, unused: proposes what has one side only.
ProposedOneSided(g) ==
    Unique(g) => \A e \in g.dels \X g.inss : registry.kind[e] = "relocated" /\ e \notin stable

\* What build_match_proposals and apply_correspondence_output_policy admit.
Proposed(g) ==
    /\ BothSides(g)
    /\ (g.dels \cup g.inss) \cap suppressed = {}
    /\ Unique(g) => \A e \in g.dels \X g.inss : registry.kind[e] = "relocated" /\ e \notin stable

\* make_exact_group_proposal keeps the endpoints that do not overlap.
Reduced(g) ==
    IF Single(g) THEN g
    ELSE [dels |-> NonOverlapping(g.dels), inss |-> NonOverlapping(g.inss),
          copy |-> g.copy, residual |-> g.residual]

\* One piece of code is in one move (GroupSelection!NothingTwice).
Separate(S) ==
    \A g, h \in S : g # h =>
        \A c \in g.dels \cup g.inss, d \in h.dels \cup h.inss : ~Within(c, d) /\ ~Within(d, c)

ChooseMoves ==
    /\ phase = "select" /\ phase' = "report"
    /\ \E S \in SUBSET {Reduced(g) : g \in {h \in groups : Proposed(h)}} : Separate(S) /\ moves' = S
    /\ UNCHANGED <<registry, groups, pairs, stable, suppressed, reports>>

-----------------------------------------------------------------------------
(* Sequences of moves.                                                     *)

\* The pairs of reliable children among the moves.
Links ==
    {e \in UNION {g.dels \X g.inss : g \in {h \in moves : Unique(h)}} :
        e[1] \in registry.steady /\ e[2] \in registry.steady}

LinkKey(e) == <<Parent[e[1]], Parent[e[2]], Ordinal[e[1]], Ordinal[e[2]]>>

LinkBefore(e, f) == Above(LinkKey(f), LinkKey(e))

\* Faulty, unused: looks at the origins only.
FollowsAtOrigin(e, f) ==
    /\ Parent[f[1]] = Parent[e[1]] /\ Parent[f[2]] = Parent[e[2]]
    /\ Ordinal[f[1]] = Ordinal[e[1]] + 1 /\ Hi[e[1]] < Lo[f[1]]

\* consecutive: f comes right after e on both sides.
Consecutive(e, f) ==
    \A s \in {1, 2} : /\ Parent[f[s]] = Parent[e[s]]
                      /\ Ordinal[f[s]] = Ordinal[e[s]] + 1
                      /\ Hi[e[s]] < Lo[f[s]]

\* f comes next after e in the order of the links L.
Precedes(L, e, f) == LinkBefore(e, f) /\ \A h \in L : ~(LinkBefore(e, h) /\ LinkBefore(h, f))

\* The links where a run begins: they do not follow the one before them.
Beginnings(L) == {f \in L : ~\E e \in L : Consecutive(e, f) /\ Precedes(L, e, f)}

\* The runs: no run begins between their links.
Sequences ==
    LET links == Links
        beginnings == Beginnings(links)
        Run(e) == {f \in links : \A b \in beginnings : LinkBefore(e, b) <=> LinkBefore(f, b)}
    IN {{Couple(f) : f \in R} : R \in {X \in {Run(e) : e \in links} : Cardinality(X) >= 2}}

Report ==
    /\ phase = "report" /\ phase' = "done"
    /\ LET sequences == Sequences
       IN reports' = sequences \cup {{g} : g \in moves \ UNION sequences}
    /\ UNCHANGED <<registry, groups, pairs, stable, suppressed, moves>>

SiblingNext == Refine \/ Follow \/ ChooseMoves \/ Report

SiblingSpec == SiblingInit /\ [][SiblingNext]_siblingVars

-----------------------------------------------------------------------------
(* Properties.                                                             *)

RecordsTyped ==
    /\ phase \in {"refine", "follow", "select", "report", "done"}
    /\ groups \subseteq [dels : SUBSET Deleted, inss : SUBSET Inserted, copy : BOOLEAN, residual : BOOLEAN]
    /\ pairs \cup stable \subseteq Deleted \X Inserted
    /\ \A c \in suppressed : Role[c] = "single_child_wrapper"
    /\ \A g \in moves : BothSides(g) /\ \E h \in groups : g.dels \subseteq h.dels /\ g.inss \subseteq h.inss
    /\ reports \subseteq SUBSET moves

Holding(c) == {g \in groups : c \in g.dels \cup g.inss}

\* Taking repeated groups apart loses no occurrence and counts none twice: each
\* is in one group, and a copy only repeats origins that have a partner of
\* their own and destinations that have none (refine_repeated_exact_groups).
OccurrencesKept ==
    phase \in {"follow", "select"} =>
        \A c \in Candidate :
            /\ Cardinality({g \in Holding(c) : ~g.copy}) = IF c \in suppressed THEN 0 ELSE 1
            /\ \A g \in Holding(c) : g.copy =>
                  \A h \in Holding(c) \ {g} : IF c \in Deleted THEN Unique(h) ELSE h.dels = {}

\* The only children on their side with their text are d and i.
OriginalPair(d, i) ==
    /\ registry.text[d] = registry.text[i]
    /\ \A c \in Structural : registry.text[c] = registry.text[d] => c \in {d, i}

\* An original pair of children whose places nothing disputes.
Landmark(x, y) == OriginalPair(x, y) /\ Placed(registry, x) /\ Placed(registry, y)

Beside(c, d, k) ==
    /\ {c, d} \subseteq registry.steady /\ (c \in Deleted <=> d \in Deleted)
    /\ Parent[c] = Parent[d] /\ Ordinal[d] = Ordinal[c] + k

\* A landmark next to d and i on the same side, or next to one of them only.
Vouched(d, i) ==
    \E k \in {-1, 1} : \E x \in Deleted, y \in Inserted :
        Landmark(x, y) /\ Beside(d, x, k) /\ Beside(i, y, k)
Denied(d, i) ==
    \E k \in {-1, 1} : \E x \in Deleted, y \in Inserted :
        Landmark(x, y) /\ (Beside(d, x, k) <=> ~Beside(i, y, k))

\* Two landmarks in the same two parents as d and i, all in the same order.
Neighbourly(d, i) ==
    LET V == {e \in registry.akin : /\ Landmark(e[1], e[2])
                                    /\ Parent[e[1]] = Parent[d] /\ Parent[e[2]] = Parent[i]}
    IN Cardinality(V) >= 2 /\ \A e \in V : KeepsOrder(e, <<d, i>>)

\* An occurrence gets a partner only on positive evidence of siblings that are
\* unique and do not disagree; elimination alone assigns none
\* (doc/architecture.md, "Repeated Type-1 classes").
OnlyOnEvidence ==
    phase = "select" =>
        \A g \in {h \in groups : Unique(h)} : \A d \in g.dels, i \in g.inss :
            d \in Structural => \/ OriginalPair(d, i)
                                \/ Vouched(d, i) /\ ~Denied(d, i)
                                \/ Neighbourly(d, i)

\* A wrapper cannot reopen the question of its child: a proposal with the
\* wrapper of a resolved child joins it to the wrapper of the child's partner
\* and to nothing else (doc/architecture.md, "Single-child wrapper aliases").
WrappersFollowChildren ==
    phase = "select" =>
        \A g \in {h \in groups : BothSides(h)} :
            \A w \in g.dels \cup g.inss : \A c \in AliasOf(registry, pairs, w) :
                /\ Unique(g)
                /\ UNION {AliasOf(registry, pairs, x) : x \in g.dels \cup g.inss}
                      = {c} \cup PartnerIn(pairs, c)

\* Every partner is one that siblings vouch for, directly or through a child.
ResolvedOnEvidence == OnlyOnEvidence /\ WrappersFollowChildren

NextTo(e, f) ==
    \A s \in {1, 2} : Parent[e[s]] = Parent[f[s]] /\ Ordinal[f[s]] = Ordinal[e[s]] + 1

\* Every move is reported once ("each group used exactly once"), and two pairs
\* of children that follow one another on both sides are reported together,
\* whatever else lies between them in the order of the comparison.
ReportedOnce ==
    phase = "done" =>
        /\ \A g \in moves : Cardinality({R \in reports : g \in R}) = 1
        /\ \A e, f \in Links : NextTo(e, f) => \E R \in reports : {Couple(e), Couple(f)} \subseteq R
        /\ \A R \in reports : Cardinality(R) > 1 =>
              \A g \in R : \E e, f \in Links : /\ NextTo(e, f) /\ g \in {Couple(e), Couple(f)}
                                               /\ {Couple(e), Couple(f)} \subseteq R

\* The moves and reports are of the groups, each reported once and together with
\* its neighbours.
ReportedOnceTogether == RecordsTyped /\ ReportedOnce
=============================================================================
