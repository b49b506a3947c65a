--------------------------- MODULE MatchProposals ---------------------------
(***************************************************************************)
(* How srcMove turns its candidates into a ranked list of match proposals  *)
(* (content_group_builder.cpp and selection_policy.cpp): exact groups by   *)
(* text, Type-2 groups and Type-3 edges among what has no exact partner,   *)
(* one proposal for each, weighed by the verdict of the location and       *)
(* identity evidence, in the order of the selection.                       *)
(*                                                                         *)
(* A candidate is a deleted or an inserted span of the document.  What the *)
(* model takes as given of one comparison is a registry r:                 *)
(*   r.text[c]     the canonical text of candidate c                       *)
(*   r.key[c]      its Type-2c form; equal texts have equal forms          *)
(*   r.units[c]    its size (candidate_units)                              *)
(*   r.common[e]   for a deletion and an insertion, the length of their    *)
(*                 common subsequence, 0 below the Type-3 threshold, and   *)
(*   r.longer[e]   the length of the longer one, both in tokens or both in *)
(*                 lines, whichever makes them more alike                  *)
(*   r.verdict[e]  what the classifiers say of the deletions and the       *)
(*                 insertions of a proposal                                *)
(* Repeated texts that neighbours resolve (refine_repeated_exact_groups)   *)
(* are in RepeatedGroups.                                                  *)
(***************************************************************************)
EXTENDS Integers, Sequences, FiniteSets, FiniteSetsExt, SequencesExt

CONSTANTS Candidate,   \* the candidate ids, numbers
          Deleted,     \* those of kind del; the others are of kind insert
          File,        \* the unit filename of each
          Lo, Hi,      \* start_idx and end_idx
          Role,        \* the role of each in the diff
          Eligible     \* those of a Type-2 eligible construct

ASSUME RegistryAssumption ==
    /\ Candidate \subseteq Nat /\ IsFiniteSet(Candidate)
    /\ Deleted \subseteq Candidate
    /\ Role \in [Candidate -> {"structural_child", "diff_wrapper",
                               "single_child_wrapper", "multi_child_wrapper"}]
    /\ Eligible \subseteq Candidate
    /\ Lo \in [Candidate -> Nat] /\ Hi \in [Candidate -> Nat]
    /\ \A c \in Candidate : Lo[c] <= Hi[c]

\* Two candidates of one side start at different nodes: an element that two
\* regions report is one candidate, and a region has one wrapper at most
\* (region_filter.cpp:1593, 870).
ASSUME PlacesAssumption ==
    \A c, d \in Candidate :
        (c \in Deleted <=> d \in Deleted) /\ File[c] = File[d] /\ Lo[c] = Lo[d] => c = d

Inserted == Candidate \ Deleted

Structural == {c \in Candidate : Role[c] = "structural_child"}

\* The elements of the set S in the order Before.
InOrder(S, Before(_, _)) ==
    [n \in 1..Cardinality(S) |->
        CHOOSE x \in S : Cardinality({y \in S : Before(y, x)}) = n - 1]

\* The first difference of two keys is in favour of the first key.
Above(a, b) ==
    LET s == a
        t == b
    IN \E n \in DOMAIN s : s[n] > t[n] /\ \A m \in 1..(n - 1) : s[m] = t[m]

-----------------------------------------------------------------------------
(* Spans.                                                                  *)

SameSide(c, d) == (c \in Deleted <=> d \in Deleted) /\ File[c] = File[d]

Within(c, d) == SameSide(c, d) /\ Lo[d] <= Lo[c] /\ Hi[c] <= Hi[d]

StrictlyWithin(c, d) == Within(c, d) /\ (Lo[d] < Lo[c] \/ Hi[c] < Hi[d])

Overlap(c, d) == SameSide(c, d) /\ Lo[c] <= Hi[d] /\ Lo[d] <= Hi[c]

Span(c) == Hi[c] - Lo[c] + 1

Apart(S) == \A c, d \in S : c # d => ~Overlap(c, d)

\* The sum of the numbers that count gives to finitely many.
SumOf(count) == Cardinality(UNION {{x} \X (1..count[x]) : x \in DOMAIN count})

SpanOf(S) == SumOf([c \in S |-> Span(c)])

UnitsOf(r, S) == SumOf([c \in S |-> r.units[c]])

\* What the scan of a document and the comparison of its texts give.  A region
\* that is open takes in every node (region_filter.cpp:1359), so parts that lie
\* apart have no more units than their whole; edges reach nine tenths
\* (sequence_similarity.hpp:10).
Registered(r) ==
    /\ r.units \in [Candidate -> Nat]
    /\ r.common \in [Deleted \X Inserted -> Nat] /\ r.longer \in [Deleted \X Inserted -> Nat]
    /\ \A e \in Deleted \X Inserted : r.common[e] > 0 =>
          r.common[e] <= r.longer[e] /\ 9 * r.longer[e] <= 10 * r.common[e]
    /\ \A whole \in Structural : \A S \in SUBSET {c \in Candidate : Within(c, whole)} :
          Apart(S) => UnitsOf(r, S) <= r.units[whole]

-----------------------------------------------------------------------------
(* Groups and edges.                                                       *)

BothSides(g) == g.dels # {} /\ g.inss # {}

Single(g) == Cardinality(g.dels) = 1 /\ Cardinality(g.inss) = 1

\* The single candidate of a side.
Only(S) == CHOOSE c \in S : TRUE

\* exact_group_key: the text, and whether it is a structural child's.
SameText(r, c, d) ==
    r.text[c] = r.text[d] /\ (c \in Structural <=> d \in Structural)

ExactGroups(r) ==
    {[dels |-> {d \in Deleted : SameText(r, d, c)},
      inss |-> {i \in Inserted : SameText(r, i, c)}] : c \in Candidate}

\* The candidates whose exact group has one side only.
Partnerless(r) ==
    UNION {g.dels \cup g.inss : g \in {h \in ExactGroups(r) : ~BothSides(h)}}

Type2Groups(r) ==
    LET S == Partnerless(r) \cap Eligible
    IN {[dels |-> {d \in S \cap Deleted : r.key[d] = r.key[c]},
         inss |-> {i \in S \cap Inserted : r.key[i] = r.key[c]}] : c \in S}

Verdict(r, g) == r.verdict[<<g.dels, g.inss>>]

\* A unique Type-2 pair keeps its endpoints from Type-3 edges, even when it
\* stays where it was, unless its identity is in doubt.
Reserved(r) ==
    UNION {g.dels \cup g.inss : g \in
              {h \in Type2Groups(r) : Single(h) /\ Verdict(r, h) \in {"move", "stay"}}}

Type3Edges(r) ==
    LET S == ((Partnerless(r) \cap Eligible) \cap Structural) \ Reserved(r)
    IN {e \in (S \cap Deleted) \X (S \cap Inserted) :
          /\ r.key[e[1]] # r.key[e[2]]
          /\ r.common[e] > 0}

-----------------------------------------------------------------------------
(* Proposals.                                                              *)

SpanLess(c, d) == Span(c) < Span(d) \/ (Span(c) = Span(d) /\ c < d)

\* non_overlapping_exact_endpoints: shortest spans first, and one is kept that
\* overlaps nothing kept before it.
NonOverlapping(S) ==
    CHOOSE kept \in SUBSET S : \A c \in S :
        c \in kept <=> ~\E k \in kept : SpanLess(k, c) /\ Overlap(c, k)

UniqueExact(r) == {g \in ExactGroups(r) : Single(g)}

\* classify_parent_carried_correspondences: an exact pair inside a relocated
\* exact pair moved with it.
CarriedByParent(r, g) ==
    /\ g.dels \cup g.inss \subseteq Structural
    /\ \E h \in UniqueExact(r) :
          /\ h.dels \cup h.inss \subseteq Structural
          /\ Verdict(r, h) = "move"
          /\ StrictlyWithin(Only(g.dels), Only(h.dels))
          /\ StrictlyWithin(Only(g.inss), Only(h.inss))

\* A renamed or edited pair whose identity is in doubt counts for less.
Doubtful(r, g, match) == match # "type1" /\ Verdict(r, g) = "tentative"

\* apply_correspondence_output_policy, for the endpoints n kept of the group g: a
\* pair that is left of a repeated text was never classified, and stays.
Admitted(r, g, n, match) ==
    \/ Doubtful(r, g, match)
    \/ Single(n) /\ ~Single(g)
    \/ /\ Verdict(r, n) = "move"
       /\ ~(match = "type1" /\ Single(g) /\ CarriedByParent(r, g))

\* The utility of a match pays for what is unmatched of an edited pair.
Worth(match, cover, conf) ==
    LET full == cover * conf
    IN IF match = "type3" THEN full - Min({full, (cover * (1000 - conf)) \div 2}) ELSE full

\* The proposal to match the endpoints n of the group g.
Proposal(r, g, n, match, conf) ==
    LET cover == Min({UnitsOf(r, n.dels), UnitsOf(r, n.inss)})
        worth == Worth(match, cover, conf)
    IN [dels |-> n.dels, inss |-> n.inss, match |-> match, conf |-> conf,
        explanatory |-> cover,
        matched |-> IF match = "type3" THEN (cover * conf) \div 1000 ELSE cover,
        utility |-> IF Doubtful(r, g, match) THEN (worth * 650) \div 1000 ELSE worth,
        strength |-> IF Doubtful(r, g, match) THEN 0
                     ELSE IF match = "type1" THEN 3 ELSE IF match = "type2" THEN 2 ELSE 1,
        construct |-> IF n.dels \cup n.inss \subseteq Structural THEN 1 ELSE 0,
        span |-> SpanOf(n.dels) + SpanOf(n.inss),
        disabled |-> ~Admitted(r, g, n, match)]

\* Copies of one text share the confidence; a single pair keeps its endpoints.
ExactProposal(r, g) ==
    LET n == [dels |-> NonOverlapping(g.dels), inss |-> NonOverlapping(g.inss)]
    IN Proposal(r, g, n, "type1", 1000 \div Max({Cardinality(n.dels), Cardinality(n.inss)}))

Type2Proposal(r, g) == Proposal(r, g, g, "type2", 950)

\* The confidence of an edited pair is its similarity.
Type3Proposal(r, e) ==
    LET g == [dels |-> {e[1]}, inss |-> {e[2]}]
    IN Proposal(r, g, g, "type3", (r.common[e] * 1000) \div r.longer[e])

Proposals(r) ==
    {ExactProposal(r, g) : g \in {h \in ExactGroups(r) : BothSides(h)}}
    \cup {Type2Proposal(r, g) : g \in {h \in Type2Groups(r) : Single(h)}}
    \cup {Type3Proposal(r, e) : e \in Type3Edges(r)}

MinimumId(p) == Min(p.dels \cup p.inss)

\* The components of proposal_rank_key, each so that more is better: the
\* utility with the bonus for structural coverage first, the ids last.
RankKey(p) ==
    <<p.utility + 200 * p.explanatory, p.utility, p.matched, p.strength, p.construct,
      p.span, -MinimumId(p), -Min(p.dels), -Min(p.inss)>>

\* Faulty, unused: the weaker proposal first.
WeakerFirst(p, q) == Above(RankKey(q), RankKey(p))

\* proposal_rank_better.
Better(p, q) == Above(RankKey(p), RankKey(q))

Ranked(r) == InOrder(Proposals(r), Better)

-----------------------------------------------------------------------------
(* What has no partner, in the order of group_selection_order: groups with *)
(* no wrapper first, then by span, then by id.                             *)

Sized(g) ==
    <<IF \E c \in g : Role[c] = "single_child_wrapper" THEN 0 ELSE 1, SpanOf(g), -Min(g)>>

Earlier(g, h) == Above(Sized(g), Sized(h))

Loose(r) ==
    InOrder({g.dels \cup g.inss : g \in {h \in ExactGroups(r) : ~BothSides(h)}}, Earlier)
=============================================================================
