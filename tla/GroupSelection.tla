--------------------------- MODULE GroupSelection ---------------------------
(***************************************************************************)
(* The selection of move groups (unified_select and unmatched_emit of      *)
(* build_content_groups): a pass that may replace an enclosing proposal by *)
(* a bundle of its descendants, a greedy pass over the ranked proposals    *)
(* that selects each one that touches nothing selected before it, and the  *)
(* groups of what has no partner and is not covered.                       *)
(***************************************************************************)
EXTENDS MatchProposals

CONSTANT Input   \* the comparisons: units of the candidates, ranked
                 \* proposals, and the groups without a partner

MatchProposal ==
    [dels : SUBSET Deleted, inss : SUBSET Inserted, match : {"type1", "type2", "type3"},
     utility : Nat, matched : Nat, explanatory : Nat, conf : Nat, strength : 0..3,
     construct : 0..1, span : Nat, disabled : BOOLEAN]

Confidence(p) == IF Single(p) THEN 900..1000 ELSE 0..1000

\* No proposal is worth more than full confidence in all that it explains; an
\* exact pair is worth just that.
Valued(p) ==
    /\ p.utility <= 1000 * p.explanatory /\ p.matched <= p.explanatory
    /\ p.match = "type1" /\ Single(p) =>
          p.utility = 1000 * p.explanatory /\ p.matched = p.explanatory /\ p.strength = 3

ExactConstructs(p) == p.match = "type1" /\ Single(p) /\ p.construct = 1

Inside(q, p) == \A c \in q.dels \cup q.inss : \E d \in p.dels \cup p.inss : Within(c, d)

\* What the earlier phases hand over.  A part has no more units than its whole
\* and, being another candidate, a smaller span.
WellFormed(i) ==
    /\ i.units \in [Candidate -> Nat]
    /\ i.loose \in Seq(SUBSET Candidate)
    /\ \A m, n \in 1..Len(i.loose) : m # n => i.loose[m] \cap i.loose[n] = {}
    /\ i.ranked \in Seq(MatchProposal)
    /\ \A k \in 1..Len(i.ranked) :
          LET p == i.ranked[k]
          IN /\ BothSides(p)
             /\ p.conf \in Confidence(p)
             /\ Valued(p)
             /\ Apart(p.dels \cup p.inss)
    /\ \A j, k \in 1..Len(i.ranked) :
          j # k /\ ExactConstructs(i.ranked[k]) /\ Inside(i.ranked[j], i.ranked[k]) =>
              /\ i.ranked[j].explanatory <= i.ranked[k].explanatory
              /\ i.ranked[j].span < i.ranked[k].span
    /\ \A j, k \in 1..Len(i.ranked) : j < k => Better(i.ranked[j], i.ranked[k])

ASSUME InputAssumption == \A i \in Input : WellFormed(i)

\* What build_content_groups hands to the selection, of a registry.
Comparison(r) == [units |-> r.units, ranked |-> Ranked(r), loose |-> Loose(r)]

VARIABLES pc,
          in,        \* the comparison
          parents,   \* enclosing proposals still to weigh against descendants
          child,     \* the next proposal to try as a descendant
          chosen,    \* the descendants of the bundle at hand, a set of ranks
          sums,      \* its metrics
          bundled,   \* the proposals replaced by their descendants
          next,      \* the next proposal, or loose group, to look at
          selected,  \* the ranks of the selected proposals
          used,      \* used_ids_: the candidates of the selected proposals
          residue    \* the unmatched groups emitted

vars == <<pc, in, parents, child, chosen, sums, bundled, next, selected, used, residue>>

Ranks == 1..Len(in.ranked)
Endpoints(k) == in.ranked[k].dels \cup in.ranked[k].inss

\* candidate_is_suppressed by a span that encloses or is enclosed.
Nested(c, d) == Within(c, d) \/ Within(d, c)

Suppressed(c, S) == \E d \in S : Nested(c, d)

\* Faulty, unused: looks for enclosing spans only.
ConflictsInside(k, S) ==
    \E c \in Endpoints(k) : c \in S \/ \E d \in S : Within(c, d)

\* group_conflicts, with S the candidates selected so far.
Conflicts(k, S) == \E c \in Endpoints(k) : c \in S \/ Suppressed(c, S)

NoSums == [delUnits |-> 0, insUnits |-> 0, matched |-> 0, weighted |-> 0, utility |-> 0]

\* The larger spans first, then the better rank.
LargerSpan(j, k) ==
    \/ in.ranked[j].span > in.ranked[k].span
    \/ in.ranked[j].span = in.ranked[k].span /\ j < k

Init ==
    /\ in \in Input
    /\ pc = "rank"
    /\ parents = <<>> /\ child = 1 /\ chosen = {} /\ sums = NoSums /\ bundled = {}
    /\ next = 1 /\ selected = {} /\ used = {} /\ residue = <<>>

\* The order in which prefer_stronger_descendant_bundles visits the parents.
OrderParents ==
    /\ pc = "rank"
    /\ \E s \in [Ranks -> Ranks] : /\ \A j, k \in Ranks : j < k => LargerSpan(s[j], s[k])
                                  /\ parents' = s
    /\ pc' = "bundle"
    /\ UNCHANGED <<in, child, chosen, sums, bundled, next, selected, used, residue>>

Disabled(k) == in.ranked[k].disabled \/ k \in bundled

-----------------------------------------------------------------------------
(* Descendant bundles.                                                     *)

Descendant(c, p) ==
    LET q == in.ranked[c]
        o == in.ranked[p]
    IN /\ Single(q) /\ Single(o)
       /\ StrictlyWithin(Only(q.dels), Only(o.dels))
       /\ StrictlyWithin(Only(q.inss), Only(o.inss))

SkipParent ==
    /\ pc = "bundle" /\ parents # <<>> /\ Disabled(Head(parents))
    /\ parents' = Tail(parents)
    /\ UNCHANGED <<pc, in, child, chosen, sums, bundled, next, selected, used, residue>>

OpenParent ==
    /\ pc = "bundle" /\ parents # <<>> /\ ~Disabled(Head(parents))
    /\ pc' = "children"
    /\ child' = 1 /\ chosen' = {} /\ sums' = NoSums
    /\ UNCHANGED <<in, parents, bundled, next, selected, used, residue>>

Eager(c, p) ==
    /\ c # p /\ ~Disabled(c) /\ Descendant(c, p)
    /\ ~Conflicts(c, UNION {Endpoints(k) : k \in chosen})

TakeChild ==
    /\ pc = "children" /\ child \in Ranks /\ Eager(child, Head(parents))
    /\ chosen' = chosen \cup {child}
    /\ LET q == in.ranked[child]
       IN sums' = [delUnits |-> sums.delUnits + in.units[Only(q.dels)],
                   insUnits |-> sums.insUnits + in.units[Only(q.inss)],
                   matched |-> sums.matched + q.matched,
                   weighted |-> sums.weighted + q.conf * q.matched,
                   utility |-> sums.utility + q.utility]
    /\ child' = child + 1
    /\ UNCHANGED <<pc, in, parents, bundled, next, selected, used, residue>>

PassChild ==
    /\ pc = "children" /\ child \in Ranks /\ ~Eager(child, Head(parents))
    /\ child' = child + 1
    /\ UNCHANGED <<pc, in, parents, chosen, sums, bundled, next, selected, used, residue>>

\* Faulty, unused: any confidence above the parent's will do.
PreferredLightly(p, n) ==
    LET o == in.ranked[p]
        delUnits == in.units[Only(o.dels)]
        insUnits == in.units[Only(o.inss)]
    IN /\ n >= 2 /\ Single(o)
       /\ delUnits > 0 /\ insUnits > 0 /\ sums.matched > 0
       /\ sums.delUnits * 2 >= delUnits /\ sums.insUnits * 2 >= insUnits
       /\ ~(sums.delUnits * 10 >= delUnits * 7 /\ sums.insUnits * 10 >= insUnits * 7)
       /\ sums.weighted \div sums.matched >= o.conf
       /\ (sums.utility * 10) \div (10 + n - 1) > o.utility

\* descendant_bundle_preferred, for n descendants of p: they cover a half of
\* it on both sides, do not nearly partition it, are more confident by 250 and
\* worth more after the cost of fragmentation.
Preferred(p, n) ==
    LET o == in.ranked[p]
        delUnits == in.units[Only(o.dels)]
        insUnits == in.units[Only(o.inss)]
    IN /\ n >= 2 /\ Single(o)
       /\ delUnits > 0 /\ insUnits > 0 /\ sums.matched > 0
       /\ sums.delUnits * 2 >= delUnits /\ sums.insUnits * 2 >= insUnits
       /\ ~(sums.delUnits * 10 >= delUnits * 7 /\ sums.insUnits * 10 >= insUnits * 7)
       /\ sums.weighted \div sums.matched >= o.conf + 250
       /\ (sums.utility * 10) \div (10 + n - 1) > o.utility

JudgeBundle ==
    /\ pc = "children" /\ child \notin Ranks
    /\ bundled' = IF Preferred(Head(parents), Cardinality(chosen))
                  THEN bundled \cup {Head(parents)} ELSE bundled
    /\ parents' = Tail(parents)
    /\ pc' = "bundle"
    /\ UNCHANGED <<in, child, chosen, sums, next, selected, used, residue>>

EndBundles ==
    /\ pc = "bundle" /\ parents = <<>>
    /\ pc' = "select"
    /\ UNCHANGED <<in, parents, child, chosen, sums, bundled, next, selected, used, residue>>

-----------------------------------------------------------------------------
(* Greedy selection.                                                       *)

\* Faulty, unused: covers the endpoints of a proposal it passes over.
PassMarking ==
    /\ pc = "select" /\ next \in Ranks
    /\ Disabled(next) \/ Conflicts(next, used)
    /\ used' = used \cup Endpoints(next)
    /\ next' = next + 1
    /\ UNCHANGED <<pc, in, parents, child, chosen, sums, bundled, selected, residue>>

Pass ==
    /\ pc = "select" /\ next \in Ranks
    /\ Disabled(next) \/ Conflicts(next, used)
    /\ next' = next + 1
    /\ UNCHANGED <<pc, in, parents, child, chosen, sums, bundled, selected, used, residue>>

\* Faulty, unused: selects the neighbour in the ranking.
SelectShifted ==
    /\ pc = "select" /\ next \in Ranks
    /\ ~Disabled(next) /\ ~Conflicts(next, used)
    /\ selected' = selected \cup {next + 1}
    /\ used' = used \cup Endpoints(next)
    /\ next' = next + 1
    /\ UNCHANGED <<pc, in, parents, child, chosen, sums, bundled, residue>>

\* add_selected_group and mark_selected.
Select ==
    /\ pc = "select" /\ next \in Ranks
    /\ ~Disabled(next) /\ ~Conflicts(next, used)
    /\ selected' = selected \cup {next}
    /\ used' = IF BothSides(in.ranked[next]) THEN used \cup Endpoints(next) ELSE used
    /\ next' = next + 1
    /\ UNCHANGED <<pc, in, parents, child, chosen, sums, bundled, residue>>

EndSelection ==
    /\ pc = "select" /\ next \notin Ranks
    /\ pc' = "emit" /\ next' = 1
    /\ UNCHANGED <<in, parents, child, chosen, sums, bundled, selected, used, residue>>

-----------------------------------------------------------------------------
(* What is left without a partner.                                         *)

Wrapping(c) == Role[c] \in {"single_child_wrapper", "multi_child_wrapper"}

\* Faulty, unused: leaves out used ids but not what they cover.
UnselectedOnly(S) == {c \in S : ~Wrapping(c) /\ c \notin used}

\* filter_unselected_ids.
Unselected(S) == {c \in S : ~Wrapping(c) /\ c \notin used /\ ~Suppressed(c, used)}

EmitUnmatched ==
    /\ pc = "emit" /\ next <= Len(in.loose)
    /\ LET rest == Unselected(in.loose[next])
       IN residue' = IF rest = {} THEN residue ELSE Append(residue, rest)
    /\ next' = next + 1
    /\ UNCHANGED <<pc, in, parents, child, chosen, sums, bundled, selected, used>>

Finish ==
    /\ pc = "emit" /\ next > Len(in.loose)
    /\ pc' = "done"
    /\ UNCHANGED <<in, parents, child, chosen, sums, bundled, next, selected, used, residue>>

BundleStep ==
    \/ OrderParents \/ SkipParent \/ OpenParent
    \/ TakeChild \/ PassChild \/ JudgeBundle \/ EndBundles

Next ==
    \/ BundleStep
    \/ Pass \/ Select \/ EndSelection
    \/ EmitUnmatched \/ Finish

Spec == Init /\ [][Next]_vars

-----------------------------------------------------------------------------
(* Properties.                                                             *)

TypeOK ==
    /\ pc \in {"rank", "bundle", "children", "select", "emit", "done"}
    /\ parents \in Seq(Ranks) /\ child \in Nat /\ chosen \subseteq Ranks
    /\ sums \in [delUnits : Nat, insUnits : Nat, matched : Nat, weighted : Nat, utility : Nat]
    /\ bundled \subseteq Ranks
    /\ next \in Nat /\ selected \subseteq Ranks /\ used \subseteq Candidate
    /\ residue \in Seq(SUBSET Candidate)

Touch(j, k) == \E c \in Endpoints(j), d \in Endpoints(k) : Nested(c, d)

\* No piece of code is reported in two moves, not even once as itself and once
\* as part of what encloses it or of what it encloses, and no move reports both
\* a piece of code and a part of it (group_selection, non_overlapping_exact_endpoints).
NothingTwice ==
    /\ \A j, k \in selected : j # k => ~Touch(j, k)
    /\ \A k \in selected : \A c, d \in Endpoints(k) : c # d => ~Nested(c, d)

\* A proposal that the policies admit is left out only for a better one that
\* was selected and shares code with it (build_content_groups).
RejectedForBetter ==
    pc \in {"emit", "done"} =>
        \A k \in Ranks : \/ k \in selected
                         \/ in.ranked[k].disabled
                         \/ \E j \in selected : /\ Better(in.ranked[j], in.ranked[k])
                                                /\ Touch(j, k)

\* The bundle rule never replaces a proposal: one-to-one proposals have a
\* confidence of 900 at least, and no bundle can exceed it by 250.  (The
\* backlog, doc/backlog.md, calls the rule inactive.)
BundleRuleInactive == bundled = {}

\* An admitted exact pair of source constructs is never left out because of a
\* proposal that lies wholly inside it, repeated or not (the contracts
\* nested_exact_parent_over_child and unique_parent_over_repeated_children).
ParentOverItsParts ==
    pc \in {"emit", "done"} =>
        \A k \in Ranks :
            LET p == in.ranked[k]
            IN ExactConstructs(p) /\ ~p.disabled /\ k \notin selected =>
                 \E j \in selected : Touch(j, k) /\ ~Inside(in.ranked[j], p)

\* In the end every construct without an exact partner is accounted for: it is
\* in one unmatched group, exactly when no reported move touches it.
EachLooseOnce ==
    pc = "done" =>
        \A c \in {d \in UNION {in.loose[n] : n \in 1..Len(in.loose)} : ~Wrapping(d)} :
            Cardinality({n \in 1..Len(residue) : c \in residue[n]})
                = IF \E k \in selected : \E d \in Endpoints(k) : Nested(c, d) THEN 0 ELSE 1

\* What is reported is settled: no bundle displaces a move, no part its exact
\* parent, and what has no partner is reported once.
ReportIsSettled == TypeOK /\ BundleRuleInactive /\ ParentOverItsParts /\ EachLooseOnce
=============================================================================
