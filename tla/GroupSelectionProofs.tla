------------------------ MODULE GroupSelectionProofs ------------------------
(***************************************************************************)
(* For every set of candidates and every list of proposals that satisfies  *)
(* InputAssumption: the selected groups share no code, a proposal is left  *)
(* out only for a better one, the bundle rule replaces nothing, no part    *)
(* displaces its exact parent, and what has no partner is reported once.   *)
(* For every comparison that satisfies ComparisonAssumption: repeated text *)
(* is taken apart without loss, on the evidence of siblings only, wrappers *)
(* follow their children, and each selected move is reported once,         *)
(* together with its neighbours.  For every registry: what MatchProposals  *)
(* computes is as InputAssumption asks.                                    *)
(***************************************************************************)
EXTENDS GroupSelection, SiblingMoves, FiniteSetTheorems, TLAPS

\* The quotient of two sums that keep the proportion of their terms.
LEMMA Quotient ==
    ASSUME NEW a \in Nat, NEW b \in Nat, b > 0, a <= 1000 * b
    PROVE  a \div b <= 1000
  BY SMT

LEMMA Weight ==
    ASSUME NEW c \in Nat, NEW n \in Nat, c <= 1000
    PROVE  c * n \in Nat /\ c * n <= 1000 * n
  <1>1. c * n \in Nat
    OBVIOUS
  <1>2. c * n <= 1000 * n
    BY SMT
  <1> QED
    BY <1>1, <1>2

LEMMA WeightedSum ==
    ASSUME NEW w \in Nat, NEW m \in Nat, NEW n \in Nat, NEW x \in Nat,
           w <= 1000 * m, x <= 1000 * n
    PROVE  w + x \in Nat /\ m + n \in Nat /\ w + x <= 1000 * (m + n)
  BY SMT

\* What the input assumption says of one proposal.
LEMMA OneProposal ==
    ASSUME in \in Input, NEW k \in Ranks
    PROVE  /\ BothSides(in.ranked[k])
           /\ Single(in.ranked[k]) => in.ranked[k].conf \in 900..1000
           /\ in.ranked[k].conf \in Nat
           /\ in.ranked[k].matched \in Nat
           /\ Endpoints(k) \subseteq Candidate
           /\ \A c, d \in Endpoints(k) : c # d => ~Overlap(c, d)
  <1> DEFINE q == in.ranked[k]
  <1>1. WellFormed(in)
    BY InputAssumption
  <1>2. in.ranked \in Seq(MatchProposal) /\ k \in 1..Len(in.ranked)
    BY <1>1 DEF WellFormed, Ranks
  <1>3. q \in MatchProposal
    BY <1>2
  <1>4. /\ BothSides(q)
        /\ q.conf \in Confidence(q)
        /\ \A c, d \in q.dels \cup q.inss : c # d => ~Overlap(c, d)
    BY <1>1, <1>2 DEF WellFormed, Apart
  <1>5. q.dels \subseteq Deleted /\ q.inss \subseteq Inserted /\ q.conf \in Nat /\ q.matched \in Nat
    BY <1>3 DEF MatchProposal
  <1>6. Endpoints(k) \subseteq Candidate
    BY <1>5, RegistryAssumption DEF Endpoints, Inserted
  <1>7. Single(q) => q.conf \in 900..1000
    BY <1>4 DEF Confidence
  <1> QED
    BY <1>4, <1>5, <1>6, <1>7 DEF Endpoints

LEMMA RanksAreNumbers ==
    ASSUME in \in Input
    PROVE  Len(in.ranked) \in Nat /\ Ranks = 1..Len(in.ranked)
  BY InputAssumption DEF WellFormed, Ranks

LEMMA Arrangement ==
    ASSUME NEW n \in Nat, NEW R, NEW s \in [1..n -> R]
    PROVE  s \in Seq(R)
  OBVIOUS

LEMMA NestedSymmetric == \A c, d : Nested(c, d) <=> Nested(d, c)
  BY DEF Nested

\* Of two nested spans, one lies within the other: they overlap.
LEMMA NestedOverlap ==
    ASSUME NEW c \in Candidate, NEW d \in Candidate, Nested(c, d)
    PROVE  Overlap(c, d)
  BY RegistryAssumption DEF Nested, Within, SameSide, Overlap

-----------------------------------------------------------------------------
(* The bundle rule.                                                        *)

BundleInv ==
    /\ in \in Input
    /\ bundled = {}
    /\ parents \in Seq(Ranks)
    /\ pc = "children" => parents # <<>>
    /\ sums.matched \in Nat /\ sums.weighted \in Nat
    /\ sums.weighted <= 1000 * sums.matched

LEMMA BundleInit == Init => BundleInv
  BY DEF Init, BundleInv, NoSums

\* Whatever was gathered, no parent is less confident than 900.
LEMMA NeverPreferred ==
    ASSUME BundleInv, NEW p \in Ranks, NEW n
    PROVE  ~Preferred(p, n)
  <1> SUFFICES ASSUME Preferred(p, n) PROVE FALSE
    OBVIOUS
  <1>1. in.ranked[p].conf \in 900..1000
    BY OneProposal DEF Preferred, BundleInv
  <1>2. sums.matched > 0 /\ sums.weighted \div sums.matched >= in.ranked[p].conf + 250
    BY DEF Preferred
  <1>3. sums.weighted \div sums.matched <= 1000
    <2>1. sums.weighted \in Nat /\ sums.matched \in Nat /\ sums.weighted <= 1000 * sums.matched
      BY DEF BundleInv
    <2> QED
      BY <1>2, <2>1, Quotient
  <1>4. sums.weighted \div sums.matched \in Int
    BY <1>2, SMT DEF BundleInv
  <1> QED
    BY <1>1, <1>2, <1>3, <1>4, SMT

LEMMA BundleStepInv == BundleInv /\ [Next]_vars => BundleInv'
  <1> SUFFICES ASSUME BundleInv, [Next]_vars PROVE BundleInv'
    OBVIOUS
  <1> USE DEF BundleInv
  <1>1. CASE OrderParents
    <2>1. Len(in.ranked) \in Nat /\ Ranks = 1..Len(in.ranked)
      BY RanksAreNumbers
    <2>2. parents' \in [1..Len(in.ranked) -> Ranks]
      BY <1>1, <2>1 DEF OrderParents
    <2>3. parents' \in Seq(Ranks)
      BY <2>1, <2>2, Arrangement
    <2> QED
      BY <1>1, <2>3 DEF OrderParents, Ranks
  <1>2. CASE SkipParent
    BY <1>2 DEF SkipParent, Ranks
  <1>3. CASE OpenParent
    BY <1>3 DEF OpenParent, Ranks, NoSums
  <1>4. CASE TakeChild
    <2> DEFINE c == in.ranked[child].conf
               n == in.ranked[child].matched
    <2>1. child \in Ranks /\ Single(in.ranked[child])
      BY <1>4 DEF TakeChild, Eager, Descendant
    <2>2. in \in Input /\ sums.weighted \in Nat /\ sums.matched \in Nat
                       /\ sums.weighted <= 1000 * sums.matched
      OBVIOUS
    <2>3. sums'.matched = sums.matched + n /\ sums'.weighted = sums.weighted + c * n
      BY <1>4 DEF TakeChild
    <2>4. c \in 900..1000 /\ n \in Nat
      BY <2>1, <2>2, OneProposal
    <2>5. /\ sums'.matched \in Nat /\ sums'.weighted \in Nat
          /\ sums'.weighted <= 1000 * sums'.matched
      <3> HIDE DEF c, n, BundleInv
      <3>1. c \in Nat /\ c <= 1000
        BY <2>4
      <3>2. c * n \in Nat /\ c * n <= 1000 * n
        BY <2>4, <3>1, Weight
      <3> QED
        BY <2>2, <2>3, <2>4, <3>2, WeightedSum
    <2>6. in' \in Input /\ bundled' = {} /\ parents' \in Seq(Ranks') /\ parents' # <<>>
      BY <1>4 DEF TakeChild, Ranks
    <2> QED
      BY <2>5, <2>6
  <1>5. CASE PassChild
    BY <1>5 DEF PassChild, Ranks
  <1>6. CASE JudgeBundle
    <2>1. Head(parents) \in Ranks
      BY <1>6 DEF JudgeBundle
    <2>2. bundled' = {}
      BY <1>6, <2>1, NeverPreferred DEF JudgeBundle
    <2>3. parents' \in Seq(Ranks)
      BY <1>6 DEF JudgeBundle
    <2>4. pc' # "children" /\ UNCHANGED <<in, sums>>
      BY <1>6 DEF JudgeBundle
    <2>5. in' \in Input /\ parents' \in Seq(Ranks')
      BY <2>3, <2>4 DEF Ranks
    <2>6. /\ sums'.matched \in Nat /\ sums'.weighted \in Nat
          /\ sums'.weighted <= 1000 * sums'.matched
      <3>1. sums' = sums
        BY <2>4
      <3> QED
        BY <3>1
    <2> QED
      BY <2>2, <2>4, <2>5, <2>6
  <1>7. CASE EndBundles
    BY <1>7 DEF EndBundles, Ranks
  <1>8. CASE Pass
    BY <1>8 DEF Pass, Ranks
  <1>9. CASE Select
    BY <1>9 DEF Select, Ranks
  <1>10. CASE EndSelection
    BY <1>10 DEF EndSelection, Ranks
  <1>11. CASE EmitUnmatched
    BY <1>11 DEF EmitUnmatched, Ranks
  <1>12. CASE Finish
    BY <1>12 DEF Finish, Ranks
  <1>13. CASE UNCHANGED vars
    BY <1>13 DEF vars, Ranks
  <1> QED
    BY <1>1, <1>2, <1>3, <1>4, <1>5, <1>6, <1>7, <1>8, <1>9, <1>10, <1>11, <1>12, <1>13
    DEF Next, BundleStep

\* The bundle rule replaces no proposal, whatever the candidates and the
\* proposals: build_match_proposals gives no one-to-one proposal a confidence
\* below 900, which descendant_bundle_preferred would have to exceed by 250.
THEOREM BundleInactive == Spec => []BundleRuleInactive
  <1>1. BundleInv => BundleRuleInactive
    BY DEF BundleInv, BundleRuleInactive
  <1> QED
    BY BundleInit, BundleStepInv, <1>1, PTL DEF Spec

-----------------------------------------------------------------------------
(* The greedy selection.                                                   *)

\* What becomes of a proposal that was looked at.
Settled(k) ==
    \/ k \in selected
    \/ in.ranked[k].disabled
    \/ \E j \in selected : Better(in.ranked[j], in.ranked[k]) /\ Touch(j, k)

SelectInv ==
    /\ in \in Input
    /\ next \in Nat \ {0}
    /\ selected \subseteq Ranks
    /\ used = UNION {Endpoints(k) : k \in selected}
    /\ pc \in {"rank", "bundle", "children"} => selected = {} /\ next = 1
    /\ pc = "select" => /\ \A k \in selected : k < next
                        /\ \A k \in Ranks : k < next => Settled(k)
    /\ pc \in {"emit", "done"} => \A k \in Ranks : Settled(k)
    /\ NothingTwice

LEMMA SelectInit == Init => SelectInv
  BY DEF Init, SelectInv, NothingTwice

\* What depends on the selection stays while the selection does.
LEMMA Frame ==
    ASSUME UNCHANGED <<in, selected, used>>, SelectInv
    PROVE  /\ Ranks' = Ranks
           /\ \A k : Settled(k) => Settled(k)'
           /\ used' = UNION {Endpoints(k)' : k \in selected'}
           /\ NothingTwice'
  <1>1. Ranks' = Ranks /\ (\A k : Endpoints(k)' = Endpoints(k)) /\ \A j, k : Touch(j, k)' = Touch(j, k)
    BY DEF Ranks, Endpoints, Touch
  <1>2. \A k : Settled(k) => Settled(k)'
    BY <1>1 DEF Settled
  <1>3. used' = UNION {Endpoints(k)' : k \in selected'}
    BY <1>1 DEF SelectInv
  <1>4. NothingTwice'
    BY <1>1 DEF SelectInv, NothingTwice
  <1> QED
    BY <1>1, <1>2, <1>3, <1>4

\* A proposal that was passed over is disabled or touches a better one.
LEMMA PassSettles ==
    ASSUME SelectInv, bundled = {}, Pass
    PROVE  Settled(next)
  <1>1. /\ next \in Ranks /\ pc = "select"
        /\ Disabled(next) \/ Conflicts(next, used)
    BY DEF Pass
  <1>2. CASE Disabled(next)
    BY <1>2 DEF Disabled, Settled
  <1>3. CASE Conflicts(next, used)
    <2>1. PICK c \in Endpoints(next) : c \in used \/ \E d \in used : Nested(c, d)
      BY <1>3 DEF Conflicts, Suppressed
    <2>2. c \in Candidate
      BY <1>1, OneProposal DEF SelectInv
    <2>3. Nested(c, c)
      BY <2>2, RegistryAssumption DEF Nested, Within, SameSide
    <2>4. PICK d \in used : Nested(c, d)
      BY <2>1, <2>3
    <2>5. PICK j \in selected : d \in Endpoints(j)
      BY DEF SelectInv
    <2>6. Touch(j, next)
      BY <2>4, <2>5, NestedSymmetric DEF Touch
    <2>7. j \in Ranks /\ j < next
      BY <1>1 DEF SelectInv
    <2>8. Better(in.ranked[j], in.ranked[next])
      BY <1>1, <2>7, InputAssumption DEF SelectInv, WellFormed, Ranks
    <2> QED
      BY <2>6, <2>8 DEF Settled
  <1> QED
    BY <1>1, <1>2, <1>3

\* A proposal that conflicts with nothing used shares no code with the others.
LEMMA SelectSeparate ==
    ASSUME SelectInv, Select
    PROVE  /\ \A k \in selected : ~Touch(k, next) /\ ~Touch(next, k)
           /\ \A c, d \in Endpoints(next) : c # d => ~Nested(c, d)
  <1>1. next \in Ranks /\ ~Conflicts(next, used)
    BY DEF Select
  <1>2. \A c \in Endpoints(next), d \in used : ~Nested(c, d)
    BY <1>1 DEF Conflicts, Suppressed
  <1>3. \A k \in selected : Endpoints(k) \subseteq used
    BY DEF SelectInv
  <1>4. \A k \in selected : ~Touch(k, next) /\ ~Touch(next, k)
    BY <1>2, <1>3, NestedSymmetric DEF Touch
  <1>5. \A c, d \in Endpoints(next) : c # d => ~Nested(c, d)
    BY <1>1, OneProposal, NestedOverlap DEF SelectInv
  <1> QED
    BY <1>4, <1>5

LEMMA SelectStepInv == SelectInv /\ BundleInv /\ [Next]_vars => SelectInv'
  <1> SUFFICES ASSUME SelectInv, BundleInv, [Next]_vars PROVE SelectInv'
    OBVIOUS
  <1>a. bundled = {} /\ Len(in.ranked) \in Nat /\ Ranks = 1..Len(in.ranked)
    BY RanksAreNumbers DEF BundleInv
  <1>1. CASE OrderParents \/ SkipParent \/ OpenParent \/ TakeChild \/ PassChild \/ JudgeBundle
    <2>1. /\ UNCHANGED <<in, next, selected, used>>
          /\ pc \in {"rank", "bundle", "children"} /\ pc' \in {"bundle", "children"}
      BY <1>1 DEF OrderParents, SkipParent, OpenParent, TakeChild, PassChild, JudgeBundle
    <2>2. Ranks' = Ranks /\ used' = UNION {Endpoints(k)' : k \in selected'} /\ NothingTwice'
      BY <2>1, Frame
    <2> QED
      BY <2>1, <2>2 DEF SelectInv
  <1>2. CASE EndBundles
    <2>1. UNCHANGED <<in, next, selected, used>> /\ pc = "bundle" /\ pc' = "select"
      BY <1>2 DEF EndBundles
    <2>2. Ranks' = Ranks /\ used' = UNION {Endpoints(k)' : k \in selected'} /\ NothingTwice'
      BY <2>1, Frame
    <2>3. selected' = {} /\ next' = 1
      BY <2>1 DEF SelectInv
    <2>4. \A k \in Ranks' : ~(k < next')
      BY <1>a, <2>2, <2>3
    <2> QED
      BY <2>1, <2>2, <2>3, <2>4 DEF SelectInv
  <1>3. CASE Pass
    <2>1. /\ UNCHANGED <<in, selected, used>> /\ pc = "select" /\ pc' = "select"
          /\ next \in Ranks /\ next' = next + 1
      BY <1>3 DEF Pass
    <2>2. /\ Ranks' = Ranks /\ used' = UNION {Endpoints(k)' : k \in selected'} /\ NothingTwice'
          /\ \A k : Settled(k) => Settled(k)'
      BY <2>1, Frame
    <2>3. Settled(next)
      BY <1>3, <1>a, PassSettles
    <2>4. \A k \in Ranks : k < next + 1 => k < next \/ k = next
      BY <1>a, <2>1
    <2>5. \A k \in Ranks' : k < next' => Settled(k)'
      BY <2>1, <2>2, <2>3, <2>4 DEF SelectInv
    <2>6. (\A k \in selected' : k < next') /\ next' \in Nat \ {0}
      BY <1>a, <2>1 DEF SelectInv
    <2> QED
      BY <2>1, <2>2, <2>5, <2>6 DEF SelectInv
  <1>4. CASE Select
    <2>1. /\ in' = in /\ pc = "select" /\ pc' = "select"
          /\ next \in Ranks /\ next' = next + 1 /\ selected' = selected \cup {next}
          /\ used' = used \cup Endpoints(next)
      <3>1. next \in Ranks
        BY <1>4 DEF Select
      <3>2. BothSides(in.ranked[next])
        BY <3>1, OneProposal DEF SelectInv
      <3> QED
        BY <1>4, <3>2 DEF Select
    <2>2. Ranks' = Ranks /\ (\A k : Endpoints(k)' = Endpoints(k)) /\ \A j, k : Touch(j, k)' = Touch(j, k)
      BY <2>1 DEF Ranks, Endpoints, Touch
    <2>3. used' = UNION {Endpoints(k)' : k \in selected'}
      BY <2>1, <2>2 DEF SelectInv
    <2>4. \A k : Settled(k) => Settled(k)'
      BY <2>1, <2>2 DEF Settled
    <2>6. \A k \in Ranks : k < next + 1 => k < next \/ k = next
      BY <1>a, <2>1
    <2>7. \A k \in Ranks' : k < next' => Settled(k)'
      <3> SUFFICES ASSUME NEW k \in Ranks, k < next + 1 PROVE Settled(k)'
        BY <2>1, <2>2
      <3>1. CASE k = next
        BY <3>1, <2>1 DEF Settled
      <3>2. CASE k < next
        BY <3>2, <2>1, <2>4 DEF SelectInv
      <3> QED
        BY <2>6, <3>1, <3>2
    <2>8. (\A k \in selected' : k < next') /\ next' \in Nat \ {0} /\ selected' \subseteq Ranks'
      BY <1>a, <2>1, <2>2 DEF SelectInv
    <2>9. NothingTwice'
      BY <1>4, <2>1, <2>2, SelectSeparate DEF SelectInv, NothingTwice
    <2> QED
      BY <2>1, <2>3, <2>7, <2>8, <2>9 DEF SelectInv
  <1>5. CASE EndSelection
    <2>1. /\ UNCHANGED <<in, selected, used>> /\ pc = "select" /\ pc' = "emit"
          /\ next \notin Ranks /\ next' = 1
      BY <1>5 DEF EndSelection
    <2>2. /\ Ranks' = Ranks /\ used' = UNION {Endpoints(k)' : k \in selected'} /\ NothingTwice'
          /\ \A k : Settled(k) => Settled(k)'
      BY <2>1, Frame
    <2>3. \A k \in Ranks : k < next
      BY <1>a, <2>1 DEF SelectInv
    <2>4. \A k \in Ranks' : Settled(k)'
      BY <2>1, <2>2, <2>3 DEF SelectInv
    <2> QED
      BY <2>1, <2>2, <2>4 DEF SelectInv
  <1>6. CASE EmitUnmatched \/ Finish
    <2>1. /\ UNCHANGED <<in, selected, used>> /\ pc = "emit" /\ pc' \in {"emit", "done"}
          /\ next' = next \/ next' = next + 1
      BY <1>6 DEF EmitUnmatched, Finish
    <2>2. /\ Ranks' = Ranks /\ used' = UNION {Endpoints(k)' : k \in selected'} /\ NothingTwice'
          /\ \A k : Settled(k) => Settled(k)'
      BY <2>1, Frame
    <2>3. next' \in Nat \ {0}
      BY <2>1 DEF SelectInv
    <2> QED
      BY <2>1, <2>2, <2>3 DEF SelectInv
  <1>7. CASE UNCHANGED vars
    <2>1. UNCHANGED <<in, selected, used>> /\ pc' = pc /\ next' = next
      BY <1>7 DEF vars
    <2>2. /\ Ranks' = Ranks /\ used' = UNION {Endpoints(k)' : k \in selected'} /\ NothingTwice'
          /\ \A k : Settled(k) => Settled(k)'
      BY <2>1, Frame
    <2> QED
      BY <2>1, <2>2 DEF SelectInv
  <1> QED
    BY <1>1, <1>2, <1>3, <1>4, <1>5, <1>6, <1>7 DEF Next, BundleStep

LEMMA SelectionInvariant == Spec => []SelectInv
  <1>1. SelectInv /\ BundleInv /\ [Next]_vars => SelectInv' /\ BundleInv'
    BY SelectStepInv, BundleStepInv
  <1> QED
    BY SelectInit, BundleInit, <1>1, PTL DEF Spec

\* No two selected proposals share code, and none holds a piece of code and a
\* part of it, for every list of proposals (group_conflicts, mark_selected).
THEOREM SelectionSeparate == Spec => []NothingTwice
  <1>1. SelectInv => NothingTwice
    BY DEF SelectInv
  <1> QED
    BY SelectionInvariant, <1>1, PTL

\* An admitted proposal is left out only for a better selected one that shares
\* code with it (the greedy loop of build_content_groups).
THEOREM SelectionGreedy == Spec => []RejectedForBetter
  <1>1. SelectInv => RejectedForBetter
    BY DEF SelectInv, RejectedForBetter, Settled
  <1> QED
    BY SelectionInvariant, <1>1, PTL

-----------------------------------------------------------------------------
(* What is left without a partner.                                         *)

\* The variables that the invariants before leave untyped.
RestTyped ==
    /\ pc \in {"rank", "bundle", "children", "select", "emit", "done"}
    /\ child \in Nat /\ chosen \subseteq Ranks
    /\ sums \in [delUnits : Nat, insUnits : Nat, matched : Nat, weighted : Nat, utility : Nat]
    /\ residue \in Seq(SUBSET Candidate)

LEMMA RestInit == Init => RestTyped
  BY DEF Init, RestTyped, NoSums

\* The metrics of a bundle are numbers, with one more child too.
LEMMA ChildSums ==
    ASSUME in \in Input, RestTyped, TakeChild
    PROVE  sums' \in [delUnits : Nat, insUnits : Nat, matched : Nat, weighted : Nat, utility : Nat]
  <1> DEFINE q == in.ranked[child]
  <1>1. WellFormed(in) /\ child \in Ranks
    BY InputAssumption DEF TakeChild
  <1>2. in.ranked \in Seq(MatchProposal) /\ child \in 1..Len(in.ranked)
    BY <1>1 DEF WellFormed, Ranks
  <1>3. q \in MatchProposal
    BY <1>2
  <1>4. q.dels # {} /\ q.inss # {} /\ q.conf \in Nat
    BY <1>1, OneProposal DEF BothSides
  <1>5. Only(q.dels) \in Candidate /\ Only(q.inss) \in Candidate
    <2>1. q.dels \subseteq Candidate /\ q.inss \subseteq Candidate
      BY <1>3, RegistryAssumption DEF MatchProposal, Inserted
    <2>2. Only(q.dels) \in q.dels /\ Only(q.inss) \in q.inss
      BY <1>4 DEF Only
    <2> QED
      BY <2>1, <2>2
  <1>6. in.units[Only(q.dels)] \in Nat /\ in.units[Only(q.inss)] \in Nat
    BY <1>1, <1>5 DEF WellFormed
  <1>7. q.matched \in Nat /\ q.utility \in Nat /\ q.conf * q.matched \in Nat
    BY <1>3, <1>4 DEF MatchProposal
  <1>8. sums' = [delUnits |-> sums.delUnits + in.units[Only(q.dels)],
                 insUnits |-> sums.insUnits + in.units[Only(q.inss)],
                 matched |-> sums.matched + q.matched,
                 weighted |-> sums.weighted + q.conf * q.matched,
                 utility |-> sums.utility + q.utility]
    BY DEF TakeChild
  <1>9. PICK d \in Nat, i \in Nat, m \in Nat, w \in Nat, u \in Nat :
            /\ d = in.units[Only(q.dels)] /\ i = in.units[Only(q.inss)]
            /\ m = q.matched /\ w = q.conf * q.matched /\ u = q.utility
    BY <1>6, <1>7
  <1> HIDE DEF q
  <1>10. sums' = [delUnits |-> sums.delUnits + d, insUnits |-> sums.insUnits + i,
                  matched |-> sums.matched + m, weighted |-> sums.weighted + w,
                  utility |-> sums.utility + u]
    BY <1>8, <1>9
  <1>11. /\ sums.delUnits \in Nat /\ sums.insUnits \in Nat /\ sums.matched \in Nat
         /\ sums.weighted \in Nat /\ sums.utility \in Nat
    BY DEF RestTyped
  <1> QED
    BY <1>10, <1>11

LEMMA RestStep == RestTyped /\ SelectInv /\ [Next]_vars => RestTyped'
  <1> SUFFICES ASSUME RestTyped, SelectInv, [Next]_vars PROVE RestTyped'
    OBVIOUS
  <1>0. in \in Input /\ next \in Nat \ {0}
    BY DEF SelectInv
  <1>a. Len(in.ranked) \in Nat /\ Ranks = 1..Len(in.ranked)
    BY <1>0, RanksAreNumbers
  <1>b. in' = in /\ Ranks' = Ranks
    BY DEF Next, BundleStep, OrderParents, SkipParent, OpenParent, TakeChild, PassChild,
           JudgeBundle, EndBundles, Pass, Select, EndSelection, EmitUnmatched, Finish, vars, Ranks
  <1>1. CASE \/ OrderParents \/ SkipParent \/ JudgeBundle \/ EndBundles \/ Pass \/ Select
             \/ EndSelection \/ Finish \/ UNCHANGED vars
    <2>1. UNCHANGED <<child, chosen, sums, residue>>
      BY <1>1 DEF OrderParents, SkipParent, JudgeBundle, EndBundles, Pass, Select, EndSelection,
                  Finish, vars
    <2>2. pc' \in {"rank", "bundle", "children", "select", "emit", "done"}
      BY <1>1 DEF OrderParents, SkipParent, JudgeBundle, EndBundles, Pass, Select, EndSelection,
                  Finish, vars, RestTyped
    <2> QED
      BY <1>b, <2>1, <2>2 DEF RestTyped
  <1>2. CASE OpenParent
    BY <1>2, <1>b DEF OpenParent, RestTyped, NoSums
  <1>3. CASE TakeChild
    <2>1. /\ child \in Ranks /\ child' = child + 1 /\ chosen' = chosen \cup {child}
          /\ UNCHANGED <<pc, residue>>
      BY <1>3 DEF TakeChild
    <2>3. child' \in Nat /\ chosen' \subseteq Ranks
      BY <1>a, <2>1 DEF RestTyped
    <2>2. sums' \in [delUnits : Nat, insUnits : Nat, matched : Nat, weighted : Nat, utility : Nat]
      BY <1>0, <1>3, ChildSums
    <2> QED
      BY <1>b, <2>1, <2>2, <2>3 DEF RestTyped
  <1>4. CASE PassChild
    BY <1>4, <1>b DEF PassChild, RestTyped
  <1>5. CASE EmitUnmatched
    <2>1. Unselected(in.loose[next]) \subseteq in.loose[next]
      BY DEF Unselected
    <2>2. in.loose[next] \subseteq Candidate
      <3>1. in.loose \in Seq(SUBSET Candidate)
        BY <1>0, InputAssumption DEF WellFormed
      <3>2. next \in 1..Len(in.loose)
        BY <1>0, <1>5, <3>1 DEF EmitUnmatched
      <3> QED
        BY <3>1, <3>2
    <2>3. residue' \in Seq(SUBSET Candidate)
      BY <1>5, <2>1, <2>2 DEF EmitUnmatched, RestTyped
    <2> QED
      BY <1>5, <1>b, <2>3 DEF EmitUnmatched, RestTyped
  <1> QED
    BY <1>1, <1>2, <1>3, <1>4, <1>5 DEF Next, BundleStep

\* What is emitted are the remains of the groups looked at, each once and all.
Remains(m) == Unselected(in.loose[m])

EmitInv ==
    /\ pc \notin {"emit", "done"} => residue = <<>>
    /\ \A n \in 1..Len(residue) : \A c \in residue[n] :
          \E m \in 1..Len(in.loose) : m < next /\ c \in Remains(m)
    /\ \A m, n \in 1..Len(residue) : m # n => residue[m] \cap residue[n] = {}
    /\ pc \in {"emit", "done"} =>
          \A m \in 1..Len(in.loose) : m < next =>
              \A c \in Remains(m) : \E n \in 1..Len(residue) : c \in residue[n]
    /\ pc = "done" => next > Len(in.loose)

LEMMA EmitInit == Init => EmitInv
  BY DEF Init, EmitInv

\* A group that is looked at adds what remains of it.
LEMMA EmitGoesOn ==
    ASSUME in \in Input, next \in Nat \ {0}, RestTyped, EmitInv, EmitUnmatched
    PROVE  EmitInv'
  <1> DEFINE rest == Remains(next)
  <1>1. /\ in' = in /\ pc = "emit" /\ pc' = "emit" /\ next' = next + 1 /\ used' = used
        /\ next \in 1..Len(in.loose) /\ Len(in.loose) \in Nat /\ next \in Nat
        /\ residue' = IF rest = {} THEN residue ELSE Append(residue, rest)
    BY InputAssumption DEF EmitUnmatched, WellFormed, Remains
  <1>2. \A m : Remains(m)' = Remains(m)
    BY <1>1 DEF Remains, Unselected, Suppressed
  <1>3. \A m \in 1..Len(in.loose) : m < next + 1 => m < next \/ m = next
    BY <1>1
  <1>4. PICK k \in Nat : k = Len(residue)
    BY DEF RestTyped
  <1>5. CASE rest = {}
    <2>1. residue' = residue
      BY <1>1, <1>5
    <2>2. \A n \in 1..k : \A c \in residue[n] :
             \E m \in 1..Len(in.loose) : m < next + 1 /\ c \in Remains(m)
      BY <1>1, <1>4 DEF EmitInv
    <2>3. \A m \in 1..Len(in.loose) : m < next + 1 =>
             \A c \in Remains(m) : \E n \in 1..k : c \in residue[n]
      BY <1>1, <1>3, <1>4, <1>5 DEF EmitInv
    <2>4. \A m, n \in 1..k : m # n => residue[m] \cap residue[n] = {}
      BY <1>4 DEF EmitInv
    <2> HIDE DEF rest
    <2> QED
      BY <1>1, <1>2, <1>4, <2>1, <2>2, <2>3, <2>4 DEF EmitInv
  <1>6. CASE rest # {}
    <2>1. /\ Len(residue') = k + 1 /\ residue'[k + 1] = rest
          /\ \A n \in 1..k : residue'[n] = residue[n]
      <3>1. residue \in Seq(SUBSET Candidate) /\ residue' = Append(residue, rest)
        BY <1>1, <1>6 DEF RestTyped
      <3> HIDE DEF rest
      <3> QED
        BY <1>4, <3>1
    <2>2. \A n \in 1..(k + 1) : n = k + 1 \/ n \in 1..k
      OBVIOUS
    <2>3. /\ \A n \in 1..k : n \in 1..(k + 1)
          /\ k + 1 \in 1..(k + 1) /\ k + 1 \notin 1..k
      OBVIOUS
    <2>4. \A n \in 1..(k + 1) : \A c \in residue'[n] :
             \E m \in 1..Len(in.loose) : m < next + 1 /\ c \in Remains(m)
      <3> SUFFICES ASSUME NEW n \in 1..(k + 1), NEW c \in residue'[n]
                   PROVE  \E m \in 1..Len(in.loose) :
                              m < next + 1 /\ c \in Remains(m)
        OBVIOUS
      <3>1. CASE n = k + 1
        BY <1>1, <2>1, <3>1
      <3>2. CASE n \in 1..k
        <4>1. PICK m \in 1..Len(in.loose) : m < next /\ c \in Remains(m)
          BY <1>4, <2>1, <3>2 DEF EmitInv
        <4>2. m < next + 1
          BY <1>1, <4>1
        <4> QED
          BY <4>1, <4>2
      <3> QED
        BY <2>2, <3>1, <3>2
    <2>5. \A n \in 1..k : residue[n] \cap rest = {}
      <3> SUFFICES ASSUME NEW n \in 1..k, NEW c \in residue[n], c \in rest PROVE FALSE
        OBVIOUS
      <3>1. PICK m \in 1..Len(in.loose) : m < next /\ c \in Remains(m)
        BY <1>4 DEF EmitInv
      <3>2. c \in in.loose[m] /\ c \in in.loose[next] /\ m # next
        BY <1>1, <3>1 DEF Remains, Unselected
      <3> QED
        BY <1>1, <3>2, InputAssumption DEF WellFormed
    <2>6. \A m, n \in 1..(k + 1) : m # n => residue'[m] \cap residue'[n] = {}
      <3> SUFFICES ASSUME NEW m \in 1..(k + 1), NEW n \in 1..(k + 1), m # n
                   PROVE  residue'[m] \cap residue'[n] = {}
        OBVIOUS
      <3> HIDE DEF rest
      <3>1. CASE m \in 1..k /\ n \in 1..k
        BY <1>4, <2>1, <3>1 DEF EmitInv
      <3>2. CASE m = k + 1 /\ n \in 1..k
        BY <2>1, <2>5, <3>2
      <3>3. CASE n = k + 1 /\ m \in 1..k
        BY <2>1, <2>5, <3>3
      <3> QED
        BY <2>2, <3>1, <3>2, <3>3
    <2>7. \A m \in 1..Len(in.loose) : m < next + 1 =>
             \A c \in Remains(m) : \E n \in 1..(k + 1) : c \in residue'[n]
      <3> SUFFICES ASSUME NEW m \in 1..Len(in.loose), m < next + 1,
                          NEW c \in Remains(m)
                   PROVE  \E n \in 1..(k + 1) : c \in residue'[n]
        OBVIOUS
      <3>1. CASE m = next
        BY <2>1, <2>3, <3>1
      <3>2. CASE m < next
        <4>1. PICK n \in 1..k : c \in residue[n]
          BY <1>1, <1>4, <3>2 DEF EmitInv
        <4> QED
          BY <2>1, <2>3, <4>1
      <3> QED
        BY <1>3, <3>1, <3>2
    <2> HIDE DEF rest
    <2>8. \A n \in 1..Len(residue') : \A c \in residue'[n] :
             \E m \in 1..Len(in'.loose) : m < next' /\ c \in Remains(m)'
      BY <1>1, <1>2, <2>1, <2>4
    <2>9. \A m, n \in 1..Len(residue') : m # n => residue'[m] \cap residue'[n] = {}
      BY <2>1, <2>6
    <2>10. \A m \in 1..Len(in'.loose) : m < next' =>
              \A c \in Remains(m)' : \E n \in 1..Len(residue') : c \in residue'[n]
      BY <1>1, <1>2, <2>1, <2>7
    <2>11. pc' = "emit"
      BY <1>1
    <2> QED
      BY <2>8, <2>9, <2>10, <2>11 DEF EmitInv
  <1> QED
    BY <1>5, <1>6

LEMMA EmitStep == EmitInv /\ RestTyped /\ SelectInv /\ [Next]_vars => EmitInv'
  <1> SUFFICES ASSUME EmitInv, RestTyped, SelectInv, [Next]_vars PROVE EmitInv'
    OBVIOUS
  <1>1. CASE BundleStep \/ Pass \/ Select
    <2>1. residue = <<>> /\ residue' = <<>> /\ pc' \notin {"emit", "done"}
      BY <1>1 DEF EmitInv, BundleStep, OrderParents, SkipParent, OpenParent, TakeChild, PassChild,
                  JudgeBundle, EndBundles, Pass, Select
    <2> QED
      BY <2>1 DEF EmitInv
  <1>2. CASE EndSelection
    <2>1. residue' = <<>> /\ pc' = "emit" /\ next' = 1 /\ in' = in
      BY <1>2 DEF EmitInv, EndSelection
    <2>2. \A m \in 1..Len(in.loose) : ~(m < 1)
      BY InputAssumption DEF SelectInv, WellFormed
    <2> QED
      BY <2>1, <2>2 DEF EmitInv
  <1>3. CASE EmitUnmatched
    BY <1>3, EmitGoesOn DEF SelectInv
  <1>4. CASE Finish \/ UNCHANGED vars
    <2>1. /\ UNCHANGED <<in, next, used, residue>>
          /\ pc' = pc \/ (pc = "emit" /\ pc' = "done" /\ next > Len(in.loose))
      BY <1>4 DEF Finish, vars
    <2>2. \A m : Remains(m)' = Remains(m)
      BY <2>1 DEF Remains, Unselected, Suppressed
    <2> QED
      BY <2>1, <2>2 DEF EmitInv
  <1> QED
    BY <1>1, <1>2, <1>3, <1>4 DEF Next

LEMMA ReportInvariant == Spec => [](BundleInv /\ SelectInv /\ RestTyped /\ EmitInv)
  <1>1. BundleInv /\ SelectInv /\ RestTyped /\ EmitInv /\ [Next]_vars =>
            BundleInv' /\ SelectInv' /\ RestTyped' /\ EmitInv'
    BY BundleStepInv, SelectStepInv, RestStep, EmitStep DEF SelectInv
  <1> QED
    BY BundleInit, SelectInit, RestInit, EmitInit, <1>1, PTL DEF Spec

\* Every variable keeps its type through the three passes.
THEOREM TypeCorrect == Spec => []TypeOK
  <1>1. BundleInv /\ SelectInv /\ RestTyped => TypeOK
    <2> SUFFICES ASSUME BundleInv, SelectInv, RestTyped PROVE TypeOK
      OBVIOUS
    <2>1. \A k \in selected : Endpoints(k) \subseteq Candidate
      BY OneProposal DEF SelectInv
    <2>2. used \subseteq Candidate
      BY <2>1 DEF SelectInv
    <2>3. next \in Nat /\ selected \subseteq Ranks /\ bundled \subseteq Ranks
          /\ parents \in Seq(Ranks)
      BY DEF SelectInv, BundleInv
    <2> QED
      BY <2>2, <2>3 DEF RestTyped, TypeOK
  <1> QED
    BY <1>1, ReportInvariant, PTL

\* A construct without an exact partner is in one unmatched group in the end,
\* exactly when no reported move touches it (unmatched_emit, filter_unselected_ids).
THEOREM LooseAlwaysOnce == Spec => []EachLooseOnce
  <1>1. SelectInv /\ EmitInv => EachLooseOnce
    <2> SUFFICES ASSUME SelectInv, EmitInv, pc = "done",
                        NEW c \in UNION {in.loose[n] : n \in 1..Len(in.loose)}, ~Wrapping(c)
                 PROVE  Cardinality({n \in 1..Len(residue) : c \in residue[n]})
                          = IF \E k \in selected : \E d \in Endpoints(k) : Nested(c, d)
                            THEN 0 ELSE 1
      BY DEF EachLooseOnce
    <2>1. PICK l \in 1..Len(in.loose) : c \in in.loose[l]
      OBVIOUS
    <2>2. WellFormed(in) /\ Len(in.loose) \in Nat /\ c \in Candidate
      <3>1. WellFormed(in)
        BY InputAssumption DEF SelectInv
      <3>2. in.loose \in Seq(SUBSET Candidate)
        BY <3>1 DEF WellFormed
      <3> QED
        BY <2>1, <3>1, <3>2
    <2>3. l < next
      BY <2>2 DEF EmitInv, SelectInv
    <2>4. Nested(c, c)
      BY <2>2, RegistryAssumption DEF Nested, Within, SameSide
    <2>5. used = UNION {Endpoints(k) : k \in selected}
      BY DEF SelectInv
    <2>6. (\E k \in selected : \E d \in Endpoints(k) : Nested(c, d))
             <=> c \in used \/ Suppressed(c, used)
      BY <2>4, <2>5 DEF Suppressed
    <2> DEFINE places == {n \in 1..Len(residue) : c \in residue[n]}
    <2>7. CASE c \in used \/ Suppressed(c, used)
      <3>1. places = {}
        BY <2>7 DEF EmitInv, Remains, Unselected
      <3> HIDE DEF places
      <3> QED
        BY <2>6, <2>7, <3>1, FS_EmptySet DEF places
    <2>8. CASE ~(c \in used \/ Suppressed(c, used))
      <3>1. c \in Remains(l)
        BY <2>1, <2>8 DEF Remains, Unselected
      <3>2. PICK n \in 1..Len(residue) : c \in residue[n]
        BY <2>3, <3>1 DEF EmitInv
      <3>3. places = {n}
        BY <3>2 DEF EmitInv
      <3> HIDE DEF places
      <3>4. Cardinality(places) = 1
        BY <3>3, FS_Singleton
      <3> QED
        BY <2>6, <2>8, <3>4 DEF places
    <2> QED
      BY <2>7, <2>8
  <1> QED
    BY <1>1, ReportInvariant, PTL

-----------------------------------------------------------------------------
(* A part and its whole.                                                   *)

\* A key that is nowhere more in its first five places and less in the sixth.
LEMMA NotAbove ==
    ASSUME NEW a, NEW b, NEW N \in Nat, DOMAIN a = 1..N,
           \A n \in 1..6 : a[n] \in Int /\ b[n] \in Int,
           \A n \in 1..5 : a[n] <= b[n],
           a[6] < b[6]
    PROVE  ~Above(a, b)
  <1> SUFFICES ASSUME NEW n \in 1..N, a[n] > b[n], \A m \in 1..(n - 1) : a[m] = b[m]
               PROVE  FALSE
    BY DEF Above
  <1>1. n \notin 1..5
    <2> SUFFICES ASSUME n \in 1..5 PROVE FALSE
      OBVIOUS
    <2>1. n \in 1..6
      OBVIOUS
    <2>2. a[n] <= b[n] /\ a[n] \in Int /\ b[n] \in Int
      BY <2>1
    <2> QED
      BY <2>2
  <1>2. n # 6
    OBVIOUS
  <1>3. 6 \in 1..(n - 1)
    BY <1>1, <1>2
  <1>4. a[6] = b[6] /\ a[6] \in Int /\ b[6] \in Int
    BY <1>3
  <1> QED
    BY <1>4

\* The weights alone: nothing that explains less is worth more.
LEMMA WorthNoMore ==
    ASSUME NEW u \in Nat, NEW v \in Nat, NEW e \in Nat, NEW f \in Nat,
           u <= 1000 * e, v = 1000 * f, e <= f
    PROVE  u + 200 * e <= v + 200 * f /\ u <= v
  BY SMT

\* A proposal inside an exact pair of constructs never ranks above it.
LEMMA InsideRanksBelow ==
    ASSUME in \in Input, NEW j \in Ranks, NEW k \in Ranks, j # k,
           ExactConstructs(in.ranked[k]), Inside(in.ranked[j], in.ranked[k])
    PROVE  ~Better(in.ranked[j], in.ranked[k])
  <1>1. WellFormed(in) /\ j \in 1..Len(in.ranked) /\ k \in 1..Len(in.ranked)
    BY InputAssumption DEF Ranks
  <1>2. in.ranked[j] \in MatchProposal /\ in.ranked[k] \in MatchProposal
    BY <1>1 DEF WellFormed
  <1>3. /\ Valued(in.ranked[j]) /\ Valued(in.ranked[k])
        /\ in.ranked[j].explanatory <= in.ranked[k].explanatory
        /\ in.ranked[j].span < in.ranked[k].span
    BY <1>1 DEF WellFormed
  <1>4. PICK q \in MatchProposal, p \in MatchProposal : q = in.ranked[j] /\ p = in.ranked[k]
    BY <1>2
  <1>5. /\ q.utility <= 1000 * q.explanatory /\ q.matched <= q.explanatory
        /\ p.utility = 1000 * p.explanatory /\ p.matched = p.explanatory /\ p.strength = 3
        /\ p.construct = 1
        /\ q.explanatory <= p.explanatory /\ q.span < p.span
    BY <1>3, <1>4 DEF Valued, ExactConstructs
  <1>6. /\ q.utility \in Nat /\ q.matched \in Nat /\ q.explanatory \in Nat
        /\ q.strength \in 0..3 /\ q.construct \in 0..1 /\ q.span \in Nat
        /\ p.utility \in Nat /\ p.matched \in Nat /\ p.explanatory \in Nat
        /\ p.span \in Nat
    BY DEF MatchProposal
  <1>7. q.utility + 200 * q.explanatory <= p.utility + 200 * p.explanatory /\ q.utility <= p.utility
    BY <1>5, <1>6, WorthNoMore
  <1>8. \A r : /\ DOMAIN RankKey(r) = 1..9
              /\ RankKey(r)[1] = r.utility + 200 * r.explanatory
              /\ RankKey(r)[2] = r.utility
              /\ RankKey(r)[3] = r.matched
              /\ RankKey(r)[4] = r.strength
              /\ RankKey(r)[5] = r.construct
              /\ RankKey(r)[6] = r.span
    BY DEF RankKey
  <1>9. PICK a, b : a = RankKey(q) /\ b = RankKey(p)
    OBVIOUS
  <1>10. \A n \in 1..6 : n = 1 \/ n = 2 \/ n = 3 \/ n = 4 \/ n = 5 \/ n = 6
    OBVIOUS
  <1>11. \A n \in 1..5 : n = 1 \/ n = 2 \/ n = 3 \/ n = 4 \/ n = 5
    OBVIOUS
  <1>12. /\ a[1] \in Int /\ b[1] \in Int /\ a[1] <= b[1]
         /\ a[2] \in Int /\ b[2] \in Int /\ a[2] <= b[2]
         /\ a[3] \in Int /\ b[3] \in Int /\ a[3] <= b[3]
    BY <1>5, <1>6, <1>7, <1>8, <1>9
  <1>13. /\ a[4] \in Int /\ b[4] \in Int /\ a[4] <= b[4]
         /\ a[5] \in Int /\ b[5] \in Int /\ a[5] <= b[5]
         /\ a[6] \in Int /\ b[6] \in Int /\ a[6] < b[6]
    BY <1>5, <1>6, <1>8, <1>9
  <1>14. \A n \in 1..6 : a[n] \in Int /\ b[n] \in Int
    BY <1>10, <1>12, <1>13
  <1>15. \A n \in 1..5 : a[n] <= b[n]
    BY <1>11, <1>12, <1>13
  <1>16. DOMAIN a = 1..9 /\ 9 \in Nat /\ a[6] < b[6]
    BY <1>8, <1>9, <1>13
  <1>17. ~Above(a, b)
    BY <1>14, <1>15, <1>16, NotAbove
  <1> QED
    BY <1>4, <1>9, <1>17 DEF Better

\* What is reported is settled: the types are right, no bundle replaces a
\* proposal, no part displaces its exact parent (the greedy loop over the
\* ranking of proposal_rank_better) and what has no partner is reported once.
THEOREM ReportAlwaysSettled == Spec => []ReportIsSettled
  <1>1. SelectInv => ParentOverItsParts
    <2> SUFFICES ASSUME SelectInv, pc \in {"emit", "done"}, NEW k \in Ranks,
                        ExactConstructs(in.ranked[k]), ~in.ranked[k].disabled, k \notin selected
                 PROVE  \E j \in selected : Touch(j, k) /\ ~Inside(in.ranked[j], in.ranked[k])
      BY DEF ParentOverItsParts
    <2>1. Settled(k)
      BY DEF SelectInv
    <2>2. PICK j \in selected : Better(in.ranked[j], in.ranked[k]) /\ Touch(j, k)
      BY <2>1 DEF Settled
    <2>3. in \in Input /\ j \in Ranks /\ j # k
      BY DEF SelectInv
    <2>4. ~Inside(in.ranked[j], in.ranked[k])
      BY <2>2, <2>3, InsideRanksBelow
    <2> QED
      BY <2>2, <2>4
  <1>2. TypeOK /\ BundleRuleInactive /\ ParentOverItsParts /\ EachLooseOnce => ReportIsSettled
    BY DEF ReportIsSettled
  <1> QED
    BY <1>1, <1>2, ReportInvariant, TypeCorrect, BundleInactive, LooseAlwaysOnce, PTL

-----------------------------------------------------------------------------
(* Repeated text and its siblings (SiblingMoves).                          *)

\* Sets of candidates are finite.
LEMMA OneCandidate ==
    ASSUME NEW S \in SUBSET Candidate
    PROVE  Cardinality(S) = 1 <=> \E x : S = {x}
  <1>1. IsFiniteSet(S)
    BY RegistryAssumption, FS_Subset
  <1> QED BY <1>1, FS_Singleton

\* The children with a reliable context are structural ones.
LEMMA Steady ==
    ASSUME registry \in Comparisons
    PROVE  /\ registry.steady \subseteq Structural /\ registry.steady \subseteq Candidate
           /\ registry.akin \subseteq Deleted \X Inserted
  BY ComparisonAssumption DEF Structural

Placement(c, k) == {d \in registry.steady : /\ d \in Deleted <=> c \in Deleted
                                            /\ Parent[d] = Parent[c]
                                            /\ Ordinal[d] = Ordinal[c] + k}

LEMMA AtPlacement ==
    ASSUME registry \in Comparisons, NEW c, NEW k
    PROVE  At(registry, c, k) = IF \E n : Placement(c, k) = {n} THEN Placement(c, k) ELSE {}
  <1>1. Placement(c, k) \in SUBSET Candidate
    BY Steady DEF Placement
  <1>2. Cardinality(Placement(c, k)) = 1 <=> \E n : Placement(c, k) = {n}
    BY <1>1, OneCandidate
  <1>3. At(registry, c, k) = IF Cardinality(Placement(c, k)) = 1 THEN Placement(c, k) ELSE {}
    BY DEF At, Placement
  <1> QED BY <1>2, <1>3

\* Who is found at a place is alone there, and so has a place of its own.
LEMMA FoundAt ==
    ASSUME registry \in Comparisons, NEW c \in Candidate, NEW k \in Int,
           NEW n \in At(registry, c, k)
    PROVE  /\ At(registry, c, k) = {n} /\ n \in registry.steady
           /\ n \in Deleted <=> c \in Deleted
           /\ Parent[n] = Parent[c] /\ Ordinal[n] = Ordinal[c] + k
           /\ Placed(registry, n)
  <1>1. Placement(c, k) = {n} /\ At(registry, c, k) = {n}
    BY AtPlacement
  <1>2. /\ n \in registry.steady
        /\ n \in Deleted <=> c \in Deleted
        /\ Parent[n] = Parent[c] /\ Ordinal[n] = Ordinal[c] + k
    BY <1>1 DEF Placement
  <1>3. n \in Candidate /\ Ordinal[n] \in Int
    BY <1>2, Steady, SiblingAssumption
  <1>4. Placement(n, 0) = Placement(c, k)
    BY <1>2, <1>3 DEF Placement
  <1>5. At(registry, n, 0) = {n}
    BY <1>1, <1>4, AtPlacement
  <1> QED BY <1>1, <1>2, <1>5 DEF Placed

\* A child with a place of its own is found from its neighbour.
LEMMA FoundBeside ==
    ASSUME registry \in Comparisons, NEW c, NEW n, NEW k \in Int,
           Placed(registry, n), Beside(c, n, k)
    PROVE  At(registry, c, k) = {n}
  <1>1. n \in registry.steady /\ At(registry, n, 0) = {n}
    BY DEF Placed
  <1>2. /\ n \in Deleted <=> c \in Deleted
        /\ Parent[n] = Parent[c] /\ Ordinal[n] = Ordinal[c] + k
    BY DEF Beside
  <1>3. n \in Candidate /\ Ordinal[n] \in Int
    BY <1>1, Steady, SiblingAssumption
  <1>4. Placement(n, 0) = Placement(c, k)
    BY <1>2, <1>3 DEF Placement
  <1>5. Placement(n, 0) = {n}
    BY <1>1, AtPlacement
  <1> QED BY <1>4, <1>5, AtPlacement

LEMMA FoundIsBeside ==
    ASSUME registry \in Comparisons, NEW c \in registry.steady, NEW k \in Int,
           NEW n \in At(registry, c, k)
    PROVE  Beside(c, n, k)
  <1>1. c \in Candidate
    BY Steady
  <1> QED BY <1>1, FoundAt DEF Beside

-----------------------------------------------------------------------------
(* Classes of equal text.                                                  *)

ClassOf(c) == Group({d \in Deleted : SameText(registry, d, c)},
                    {i \in Inserted : SameText(registry, i, c)})
Classes == {ClassOf(c) : c \in Candidate}
Members(g) == g.dels \cup g.inss

LEMMA ExactIsClass == {Group(g.dels, g.inss) : g \in ExactGroups(registry)} = Classes
  <1> DEFINE Exact(c) == [dels |-> {d \in Deleted : SameText(registry, d, c)},
                          inss |-> {i \in Inserted : SameText(registry, i, c)}]
  <1>1. \A c : Group(Exact(c).dels, Exact(c).inss) = ClassOf(c)
    BY DEF ClassOf
  <1>2. ExactGroups(registry) = {Exact(c) : c \in Candidate}
    BY DEF ExactGroups
  <1> HIDE DEF Exact
  <1> QED BY <1>1, <1>2 DEF Classes

LEMMA ClassFacts ==
    ASSUME NEW g \in Classes
    PROVE  /\ g.dels \subseteq Deleted /\ g.inss \subseteq Inserted
           /\ g.dels \subseteq Candidate /\ g.inss \subseteq Candidate
           /\ g = Group(g.dels, g.inss) /\ ~g.copy /\ ~g.residual
           /\ \A a, b \in Members(g) : SameText(registry, a, b)
           /\ \A a \in Members(g), b \in Candidate :
                 SameText(registry, a, b) => b \in Members(g)
  <1>1. PICK c \in Candidate : g = ClassOf(c)
    BY DEF Classes
  <1>2. /\ g.dels = {d \in Deleted : SameText(registry, d, c)}
        /\ g.inss = {i \in Inserted : SameText(registry, i, c)}
        /\ g = Group(g.dels, g.inss) /\ ~g.copy /\ ~g.residual
    BY <1>1 DEF ClassOf, Group
  <1>3. Deleted \cup Inserted = Candidate
    BY RegistryAssumption DEF Inserted
  <1>4. \A a \in Members(g) : SameText(registry, a, c)
    BY <1>2 DEF Members
  <1>5. \A a, b \in Members(g) : SameText(registry, a, b)
    BY <1>4 DEF SameText
  <1>6. \A a \in Members(g), b \in Candidate : SameText(registry, a, b) => SameText(registry, b, c)
    BY <1>4 DEF SameText
  <1>7. \A b \in Candidate : SameText(registry, b, c) => b \in Members(g)
    BY <1>2, <1>3 DEF Members
  <1> QED BY <1>2, <1>3, <1>5, <1>6, <1>7

LEMMA OneClass ==
    ASSUME NEW g \in Classes, NEW h \in Classes, NEW c \in Members(g), c \in Members(h)
    PROVE  g = h
  <1>1. /\ \A a \in Members(g) : SameText(registry, c, a)
        /\ \A a \in Members(h) : SameText(registry, c, a)
        /\ Members(g) \subseteq Candidate /\ Members(h) \subseteq Candidate
        /\ \A b \in Candidate : SameText(registry, c, b) => b \in Members(g) /\ b \in Members(h)
    BY ClassFacts DEF Members
  <1>2. Members(g) = Members(h)
    BY <1>1
  <1>3. /\ g.dels \subseteq Deleted /\ g.inss \subseteq Inserted
        /\ h.dels \subseteq Deleted /\ h.inss \subseteq Inserted
        /\ g = Group(g.dels, g.inss) /\ h = Group(h.dels, h.inss)
    BY ClassFacts
  <1>4. g.dels = h.dels /\ g.inss = h.inss
    BY <1>2, <1>3 DEF Members, Inserted
  <1> QED BY <1>3, <1>4

LEMMA ItsClass ==
    ASSUME NEW c \in Candidate PROVE ClassOf(c) \in Classes /\ c \in Members(ClassOf(c))
  <1>1. c \in Deleted \/ c \in Inserted
    BY DEF Inserted
  <1> QED BY <1>1 DEF Classes, ClassOf, Members, Group, SameText

-----------------------------------------------------------------------------
(* Landmarks: the original pairs that evidence is made of.                 *)

LEMMA SeedsAreLandmarks ==
    ASSUME registry \in Comparisons, NEW e
    PROVE  e \in Seeds(registry) <=> e \in Deleted \X Inserted /\ Landmark(e[1], e[2])
  <1>1. ASSUME e \in Seeds(registry)
        PROVE  e \in Deleted \X Inserted /\ Landmark(e[1], e[2])
    <2>1. PICK g \in ExactGroups(registry) :
             Single(g) /\ e \in g.dels \X g.inss
      BY <1>1 DEF Seeds, UniqueExact
    <2>2. Placed(registry, e[1]) /\ Placed(registry, e[2])
      BY <1>1 DEF Seeds
    <2>3. PICK c \in Candidate :
             /\ g.dels = {d \in Deleted : SameText(registry, d, c)}
             /\ g.inss = {i \in Inserted : SameText(registry, i, c)}
      BY DEF ExactGroups
    <2>4. g.dels \in SUBSET Candidate /\ g.inss \in SUBSET Candidate
      BY <2>3, RegistryAssumption DEF Inserted
    <2>5. PICK d, i : g.dels = {d} /\ g.inss = {i}
      <3>1. Cardinality(g.dels) = 1 /\ Cardinality(g.inss) = 1
        BY <2>1 DEF Single
      <3> QED BY <2>4, <3>1, OneCandidate
    <2>6. e[1] = d /\ e[2] = i /\ e \in Deleted \X Inserted
      BY <2>1, <2>3, <2>5
    <2>7. d \in Structural
      BY <2>2, <2>6, Steady DEF Placed
    <2>8. SameText(registry, d, c) /\ SameText(registry, i, c)
      BY <2>3, <2>5
    <2>9. ASSUME NEW a \in Structural, registry.text[a] = registry.text[d] PROVE a \in {d, i}
      <3>1. SameText(registry, a, c)
        BY <2>7, <2>8, <2>9 DEF SameText
      <3>2. a \in Deleted \/ a \in Inserted
        BY DEF Structural, Inserted
      <3> QED BY <2>3, <2>5, <3>1, <3>2
    <2>10. OriginalPair(d, i)
      BY <2>8, <2>9 DEF OriginalPair, SameText
    <2> QED BY <2>2, <2>6, <2>10 DEF Landmark
  <1>2. ASSUME e \in Deleted \X Inserted, Landmark(e[1], e[2])
        PROVE  e \in Seeds(registry)
    <2> DEFINE d == e[1]
               i == e[2]
               g == [dels |-> {a \in Deleted : SameText(registry, a, d)},
                     inss |-> {a \in Inserted : SameText(registry, a, d)}]
    <2>1. d \in Deleted /\ i \in Inserted /\ e = <<d, i>>
      BY <1>2
    <2>2. Placed(registry, d) /\ Placed(registry, i) /\ OriginalPair(d, i)
      BY <1>2 DEF Landmark
    <2>3. d \in Structural /\ i \in Structural
      BY <2>2, Steady DEF Placed
    <2>4. g.dels = {d} /\ g.inss = {i}
      <3>1. \A a \in Deleted \cup Inserted : SameText(registry, a, d) => a \in {d, i}
        BY <2>2, <2>3 DEF SameText, OriginalPair
      <3>2. SameText(registry, d, d) /\ SameText(registry, i, d)
        BY <2>2, <2>3 DEF SameText, OriginalPair
      <3>3. d \notin Inserted /\ i \notin Deleted
        BY <2>1 DEF Inserted
      <3> QED BY <2>1, <3>1, <3>2, <3>3
    <2>5. g \in ExactGroups(registry)
      BY <2>3 DEF ExactGroups, Structural
    <2>6. Single(g)
      BY <2>4, FS_Singleton DEF Single
    <2>7. e \in g.dels \X g.inss
      BY <2>1, <2>4
    <2> HIDE DEF g
    <2> QED BY <2>2, <2>5, <2>6, <2>7 DEF Seeds, UniqueExact
  <1> QED BY <1>1, <1>2

LEMMA PartnersAreLandmarks ==
    ASSUME registry \in Comparisons, NEW n, NEW m \in PartnerIn(Seeds(registry), n)
    PROVE  \/ n \in Deleted /\ m \in Inserted /\ Landmark(n, m)
           \/ m \in Deleted /\ n \in Inserted /\ Landmark(m, n)
  <1>1. PICK e \in Seeds(registry) : \/ e[1] = n /\ e[2] = m
                                     \/ e[2] = n /\ e[1] = m
    BY DEF PartnerIn
  <1> QED BY <1>1, SeedsAreLandmarks

LEMMA LandmarkPartners ==
    ASSUME registry \in Comparisons, NEW x \in Deleted, NEW y \in Inserted, Landmark(x, y)
    PROVE  PartnerIn(Seeds(registry), x) = {y} /\ PartnerIn(Seeds(registry), y) = {x}
  <1>1. <<x, y>> \in Seeds(registry)
    BY SeedsAreLandmarks
  <1>2. y \in PartnerIn(Seeds(registry), x) /\ x \in PartnerIn(Seeds(registry), y)
    BY <1>1 DEF PartnerIn
  <1>3. x \notin Inserted /\ y \notin Deleted
    BY DEF Inserted
  <1>4. x \in Structural /\ y \in Structural
    BY Steady DEF Landmark, Placed
  <1>5. \A a \in Inserted : Landmark(x, a) => a = y
    BY <1>3, <1>4, Steady DEF Landmark, OriginalPair, Placed
  <1>6. \A a \in Deleted : Landmark(a, y) => a = x
    BY <1>3, <1>4, Steady DEF Landmark, OriginalPair, Placed
  <1> QED BY <1>2, <1>3, <1>5, <1>6, PartnersAreLandmarks

-----------------------------------------------------------------------------
(* The pairs that siblings vouch for.                                      *)

View == Evidence(registry)

LEMMA WhatIsSeen ==
    /\ View.seeds = Seeds(registry)
    /\ View.akin = Seeds(registry) \cap registry.akin
    /\ View.regions = Correspondences(Seeds(registry) \cap registry.akin)
  BY DEF View, Evidence

\* A confirmed pair has the same landmark on the same side.
LEMMA ConfirmedBeside ==
    ASSUME registry \in Comparisons, NEW c \in registry.steady, NEW d \in registry.steady,
           NEW k \in {-1, 1}, NEW x \in Candidate, NEW y \in Candidate,
           Confirmed(registry, View, c, d), Placed(registry, x), Beside(c, x, k),
           PartnerIn(Seeds(registry), x) = {y}
    PROVE  Beside(d, y, k)
  <1>1. At(registry, c, k) = {x}
    BY FoundBeside
  <1>2. k \in Witnesses(registry, View, c)
    BY <1>1, WhatIsSeen DEF Witnesses
  <1>3. UNION {PartnerIn(View.seeds, n) : n \in At(registry, c, k)} = At(registry, d, k)
    BY <1>2 DEF Confirmed
  <1>4. At(registry, d, k) = {y}
    BY <1>1, <1>3, WhatIsSeen
  <1> QED BY <1>4, FoundIsBeside

LEMMA NeverDenied ==
    ASSUME registry \in Comparisons, NEW d \in Deleted, NEW i \in Inserted,
           d \in registry.steady, i \in registry.steady,
           Confirmed(registry, View, d, i), Confirmed(registry, View, i, d)
    PROVE  ~Denied(d, i)
  <1> SUFFICES ASSUME NEW k \in {-1, 1}, NEW x \in Deleted, NEW y \in Inserted, Landmark(x, y)
               PROVE  Beside(d, x, k) <=> Beside(i, y, k)
    BY DEF Denied
  <1>1. x \in Candidate /\ y \in Candidate
    BY RegistryAssumption DEF Inserted
  <1>2. PartnerIn(Seeds(registry), x) = {y} /\ PartnerIn(Seeds(registry), y) = {x}
    BY LandmarkPartners
  <1>3. Placed(registry, x) /\ Placed(registry, y)
    BY DEF Landmark
  <1>4. Beside(d, x, k) => Beside(i, y, k)
    BY <1>1, <1>2, <1>3, ConfirmedBeside
  <1>5. Beside(i, y, k) => Beside(d, x, k)
    BY <1>1, <1>2, <1>3, ConfirmedBeside
  <1> QED BY <1>4, <1>5

LEMMA WitnessVouches ==
    ASSUME registry \in Comparisons, NEW d \in Deleted, NEW i \in Inserted,
           d \in registry.steady, i \in registry.steady,
           Confirmed(registry, View, d, i), Witnesses(registry, View, d) # {}
    PROVE  Vouched(d, i)
  <1>1. PICK k \in {-1, 1} : k \in Witnesses(registry, View, d)
    BY DEF Witnesses
  <1>2. PICK x \in At(registry, d, k) : PartnerIn(View.seeds, x) # {}
    BY <1>1 DEF Witnesses
  <1>3. d \in Candidate
    BY RegistryAssumption
  <1>4. (x \in Deleted <=> d \in Deleted) /\ Placed(registry, x)
    BY <1>3, FoundAt
  <1>5. PICK y : y \in PartnerIn(Seeds(registry), x)
    BY <1>2, WhatIsSeen
  <1>6. x \in Deleted /\ y \in Inserted /\ Landmark(x, y)
    BY <1>4, <1>5, PartnersAreLandmarks DEF Inserted
  <1>7. x \in Candidate /\ y \in Candidate
    BY <1>6, RegistryAssumption DEF Inserted
  <1>8. Beside(d, x, k)
    BY FoundIsBeside
  <1>9. PartnerIn(Seeds(registry), x) = {y}
    BY <1>6, LandmarkPartners
  <1>10. Beside(i, y, k)
    BY <1>4, <1>7, <1>8, <1>9, ConfirmedBeside
  <1> QED BY <1>6, <1>8, <1>10 DEF Vouched

\* A pair that joins corresponding regions and fits has neighbours to show.
LEMMA RegionVouches ==
    ASSUME registry \in Comparisons, NEW e \in Deleted \X Inserted,
           Places(e) \in View.regions, FitsRegion(View, e)
    PROVE  Neighbourly(e[1], e[2])
  <1> DEFINE V == {s \in registry.akin : /\ Landmark(s[1], s[2])
                                         /\ Parent[s[1]] = Parent[e[1]]
                                         /\ Parent[s[2]] = Parent[e[2]]}
             votes == {s \in View.akin : Places(s) = Places(e)}
  <1>1. \A s : s \in View.akin <=> s \in registry.akin /\ Landmark(s[1], s[2])
    BY WhatIsSeen, Steady, SeedsAreLandmarks
  <1>2. V = votes
    BY <1>1 DEF Places
  <1>3. View.regions = Correspondences(View.akin)
    BY WhatIsSeen
  <1>4. Cardinality(votes) >= 2
    BY <1>3 DEF Correspondences
  <1>5. e = <<e[1], e[2]>>
    OBVIOUS
  <1>6. \A s \in V : KeepsOrder(s, e)
    <2>1. \A s \in View.akin : Places(s) = Places(e) => KeepsOrder(s, e)
      BY DEF FitsRegion
    <2>2. \A s \in V : s \in View.akin /\ Places(s) = Places(e)
      BY <1>2
    <2> HIDE DEF V, votes
    <2> QED BY <2>1, <2>2
  <1>7. \A s \in V : KeepsOrder(s, <<e[1], e[2]>>)
    BY <1>6 DEF KeepsOrder
  <1> QED BY <1>2, <1>4, <1>7 DEF Neighbourly

\* Supports can be compared.
LEMMA SupportIsNumber ==
    ASSUME NEW g, NEW e PROVE Support(registry, View, g, e) \in Nat
  <1>1. Witnesses(registry, View, e[1]) \in SUBSET {-1, 1}
    BY DEF Witnesses
  <1>2. IsFiniteSet({-1, 1})
    <2>1. IsFiniteSet({-1}) /\ {-1, 1} = {-1} \cup {1}
      BY FS_Singleton
    <2> QED BY <2>1, FS_AddElement
  <1>3. Cardinality(Witnesses(registry, View, e[1])) \in Nat
    BY <1>1, <1>2, FS_Subset, FS_CardinalityType
  <1> QED BY <1>3 DEF Support

Vouching(d, i) == (Vouched(d, i) /\ ~Denied(d, i)) \/ Neighbourly(d, i)

\* What is accepted of a class has its evidence, and pairs no child twice.
LEMMA AcceptedOnEvidence ==
    ASSUME registry \in Comparisons, NEW g \in Classes,
           NEW e \in Accepted(registry, View, g)
    PROVE  /\ e \in g.dels \X g.inss /\ Refinable(registry, g)
           /\ Placed(registry, e[1]) /\ Placed(registry, e[2])
           /\ Vouching(e[1], e[2])
  <1>1. Refinable(registry, g) /\ e \in MutualBest(registry, View, g)
    BY DEF Accepted
  <1>2. PICK x \in Scored(registry, View, g) : x.pair = e
    BY <1>1 DEF MutualBest
  <1>3. /\ e \in g.dels \X g.inss
        /\ Support(registry, View, g, e) > 0
    BY <1>2 DEF Scored
  <1>4. /\ e[1] \in Members(g) /\ e[2] \in Members(g)
        /\ e \in Deleted \X Inserted
    BY <1>3, ClassFacts DEF Members
  <1>5. Placed(registry, e[1]) /\ Placed(registry, e[2])
    BY <1>1, <1>4 DEF Refinable, Members
  <1>6. e[1] \in registry.steady /\ e[2] \in registry.steady
    BY <1>5 DEF Placed
  <1>7. CASE Local(View, g, e)
    <2>1. FitsRegion(View, e)
      BY <1>3, <1>7 DEF Support
    <2>2. Places(e) \in View.regions
      BY <1>7 DEF Local
    <2>3. Neighbourly(e[1], e[2])
      BY <1>4, <2>1, <2>2, RegionVouches
    <2> QED BY <1>1, <1>3, <1>5, <2>3 DEF Vouching
  <1>8. CASE ~Local(View, g, e)
    <2>1. /\ Confirmed(registry, View, e[1], e[2]) /\ Confirmed(registry, View, e[2], e[1])
          /\ Cardinality(Witnesses(registry, View, e[1])) > 0
      BY <1>3, <1>8 DEF Support
    <2>2. Witnesses(registry, View, e[1]) # {}
      BY <2>1, FS_EmptySet
    <2>3. Vouched(e[1], e[2]) /\ ~Denied(e[1], e[2])
      BY <1>4, <1>6, <2>1, <2>2, WitnessVouches, NeverDenied
    <2> QED BY <1>1, <1>3, <1>5, <2>3 DEF Vouching
  <1> QED BY <1>7, <1>8

\* Pairs of which no two share an end.
Matching(E) ==
    /\ E \subseteq Deleted \X Inserted
    /\ \A e, f \in E : e[1] = f[1] \/ e[2] = f[2] => e = f

LEMMA AcceptedOnce ==
    ASSUME registry \in Comparisons, NEW g \in Classes,
           NEW e \in Accepted(registry, View, g), NEW f \in Accepted(registry, View, g),
           e[1] = f[1] \/ e[2] = f[2]
    PROVE  e = f
  <1>1. e \in MutualBest(registry, View, g) /\ f \in MutualBest(registry, View, g)
    BY DEF Accepted
  <1> DEFINE all == Scored(registry, View, g)
  <1>2. PICK x \in all : /\ x.pair = e
                         /\ \A y \in all \ {x} :
                               x.pair[1] = y.pair[1] \/ x.pair[2] = y.pair[2] => y.score < x.score
    BY <1>1 DEF MutualBest
  <1>3. PICK y \in all : /\ y.pair = f
                         /\ \A z \in all \ {y} :
                               y.pair[1] = z.pair[1] \/ y.pair[2] = z.pair[2] => z.score < y.score
    BY <1>1 DEF MutualBest
  <1>4. x.score \in Nat /\ y.score \in Nat
    BY SupportIsNumber DEF Scored
  <1> HIDE DEF all
  <1>5. x = y
    <2> SUFFICES ASSUME x # y PROVE FALSE
      OBVIOUS
    <2>1. y.score < x.score
      BY <1>2, <1>3
    <2>2. x.score < y.score
      BY <1>2, <1>3
    <2> QED BY <1>4, <2>1, <2>2
  <1> QED BY <1>2, <1>3, <1>5

Resolved == UNION {Accepted(registry, View, g) : g \in Classes}

LEMMA ResolvedMatch ==
    ASSUME registry \in Comparisons PROVE Matching(Resolved)
  <1>1. \A g \in Classes : \A e \in Accepted(registry, View, g) :
           /\ e \in Deleted \X Inserted
           /\ e[1] \in Members(g) /\ e[2] \in Members(g)
    BY AcceptedOnEvidence, ClassFacts DEF Members
  <1>2. ASSUME NEW e \in Resolved, NEW f \in Resolved, e[1] = f[1] \/ e[2] = f[2]
        PROVE  e = f
    <2>1. PICK g \in Classes : e \in Accepted(registry, View, g)
      BY DEF Resolved
    <2>2. PICK h \in Classes : f \in Accepted(registry, View, h)
      BY DEF Resolved
    <2>3. g = h
      BY <1>1, <1>2, <2>1, <2>2, OneClass
    <2> QED BY <1>2, <2>1, <2>2, <2>3, AcceptedOnce
  <1> QED BY <1>1, <1>2 DEF Resolved, Matching

-----------------------------------------------------------------------------
(* Groups, before and after the wrappers have followed.                    *)

Good(d, i) == OriginalPair(d, i) \/ Vouching(d, i)

GroupRecords ==
    [dels : SUBSET Deleted, inss : SUBSET Inserted, copy : BOOLEAN, residual : BOOLEAN]

LEMMA IsRecord ==
    ASSUME NEW D \in SUBSET Deleted, NEW I \in SUBSET Inserted,
           NEW copy \in BOOLEAN, NEW residual \in BOOLEAN
    PROVE  [dels |-> D, inss |-> I, copy |-> copy, residual |-> residual] \in GroupRecords
  BY DEF GroupRecords

\* What every group is.
Sound(g) ==
    /\ g \in GroupRecords
    /\ \A a, b \in Members(g) : a \in Structural <=> b \in Structural
    /\ g.copy => Members(g) \subseteq Structural
    /\ Unique(g) => \A d \in g.dels, i \in g.inss : d \in Structural => Good(d, i)

\* Every occurrence outside of S has one home in G, those in S have none.
Homes(G, S) ==
    /\ \A c \in Candidate \ S : \E g \in G : ~g.copy /\ c \in Members(g)
    /\ \A g, h \in G : ~g.copy /\ ~h.copy /\ Members(g) \cap Members(h) # {} => g = h
    /\ \A g \in G : ~g.copy => Members(g) \cap S = {}

\* A copy repeats settled origins and unsettled destinations.
Copies(G) ==
    \A g \in G : g.copy =>
        \A c \in Members(g) : \A h \in G \ {g} : c \in Members(h) =>
            IF c \in Deleted THEN Unique(h) ELSE h.dels = {}

CopiesApart(G, S) == \A g \in G : g.copy => Members(g) \cap S = {}

Remainder(g) ==
    IF Accepted(registry, View, g) = {} THEN g
    ELSE [Rest(g, Accepted(registry, View, g)) EXCEPT !.residual = TRUE]
CopyOf(g) ==
    [Group(Origins(registry, View, Accepted(registry, View, g)), Remainder(g).inss)
        EXCEPT !.copy = TRUE]

LEMMA PartIs ==
    ASSUME NEW g, NEW h
    PROVE  h \in Parts(registry, View, g) <=>
              \/ \E e \in Accepted(registry, View, g) : h = Couple(e)
              \/ h = Remainder(g) /\ Members(h) # {}
              \/ h = CopyOf(g) /\ Remainder(g).dels = {} /\ BothSides(h)
  BY DEF Parts, Remainder, CopyOf, NonEmpty, Members

LEMMA CoupleIs ==
    ASSUME NEW e
    PROVE  /\ Couple(e).dels = {e[1]} /\ Couple(e).inss = {e[2]}
           /\ ~Couple(e).copy /\ ~Couple(e).residual
           /\ Couple(e) = [dels |-> {e[1]}, inss |-> {e[2]}, copy |-> FALSE, residual |-> FALSE]
           /\ Members(Couple(e)) = {e[1], e[2]} /\ Unique(Couple(e))
  <1>1. /\ Couple(e).dels = {e[1]} /\ Couple(e).inss = {e[2]}
        /\ ~Couple(e).copy /\ ~Couple(e).residual
        /\ Couple(e) = [dels |-> {e[1]}, inss |-> {e[2]}, copy |-> FALSE, residual |-> FALSE]
    BY DEF Couple, Group
  <1>2. Single(Couple(e))
    BY <1>1, FS_Singleton DEF Single
  <1> QED BY <1>1, <1>2 DEF Members, Unique

LEMMA RemainderIs ==
    ASSUME NEW g \in Classes
    PROVE  /\ Remainder(g).dels = g.dels \ Firsts(Accepted(registry, View, g))
           /\ Remainder(g).inss = g.inss \ Seconds(Accepted(registry, View, g))
           /\ Remainder(g).copy = FALSE
           /\ Accepted(registry, View, g) = {} => Remainder(g) = g
           /\ Accepted(registry, View, g) # {} => Remainder(g).residual = TRUE
           /\ Remainder(g) \in GroupRecords
  <1>1. PICK D \in SUBSET Deleted, I \in SUBSET Inserted :
           g = [dels |-> D, inss |-> I, copy |-> FALSE, residual |-> FALSE]
    BY ClassFacts DEF Group
  <1>2. PICK E : E = Accepted(registry, View, g)
    OBVIOUS
  <1>3. PICK F : F = Firsts(E)
    OBVIOUS
  <1>4. PICK S : S = Seconds(E)
    OBVIOUS
  <1>5. PICK R : R = Remainder(g)
    OBVIOUS
  <1>6. g.dels = D /\ g.inss = I
    BY <1>1
  <1>7. ASSUME E = {}
        PROVE  R = [dels |-> D \ F, inss |-> I \ S, copy |-> FALSE, residual |-> FALSE] /\ R = g
    <2>1. F = {} /\ S = {}
      BY <1>3, <1>4, <1>7 DEF Firsts, Seconds
    <2>2. R = g
      BY <1>2, <1>5, <1>7 DEF Remainder
    <2> QED BY <1>1, <2>1, <2>2
  <1>8. ASSUME E # {}
        PROVE  R = [dels |-> D \ F, inss |-> I \ S, copy |-> FALSE, residual |-> TRUE]
    <2>1. PICK T : T = Rest(g, E)
      OBVIOUS
    <2>2. T = [dels |-> D \ F, inss |-> I \ S, copy |-> FALSE, residual |-> FALSE]
      BY <1>1, <1>3, <1>4, <2>1 DEF Rest
    <2>3. R = [T EXCEPT !.residual = TRUE]
      BY <1>2, <1>5, <1>8, <2>1, Zenon DEF Remainder
    <2> QED BY <2>2, <2>3
  <1>9. R.dels = D \ F /\ R.inss = I \ S /\ R.copy = FALSE
    <2>1. CASE E = {}
      BY <1>7, <2>1
    <2>2. CASE E # {}
      BY <1>8, <2>2
    <2> QED BY <2>1, <2>2
  <1>10. R \in GroupRecords
    <2>1. D \ F \in SUBSET Deleted /\ I \ S \in SUBSET Inserted
      OBVIOUS
    <2>2. PICK P \in SUBSET Deleted, Q \in SUBSET Inserted : P = D \ F /\ Q = I \ S
      BY <2>1
    <2>3. CASE E = {}
      BY <1>7, <2>2, <2>3, IsRecord
    <2>4. CASE E # {}
      BY <1>8, <2>2, <2>4, IsRecord
    <2> QED BY <2>3, <2>4
  <1>11. (E = {} => R = g) /\ (E # {} => R.residual = TRUE)
    BY <1>7, <1>8
  <1> QED BY <1>2, <1>3, <1>4, <1>5, <1>6, <1>9, <1>10, <1>11, Zenon

LEMMA CopyIs ==
    ASSUME NEW g \in Classes
    PROVE  /\ CopyOf(g).dels = Origins(registry, View, Accepted(registry, View, g))
           /\ CopyOf(g).inss = Remainder(g).inss
           /\ CopyOf(g).copy = TRUE /\ CopyOf(g).residual = FALSE
           /\ CopyOf(g) = [dels |-> CopyOf(g).dels, inss |-> CopyOf(g).inss,
                           copy |-> TRUE, residual |-> FALSE]
  <1>1. PICK D : D = Origins(registry, View, Accepted(registry, View, g))
    OBVIOUS
  <1>2. PICK I : I = Remainder(g).inss
    OBVIOUS
  <1>3. PICK K : K = Group(D, I)
    OBVIOUS
  <1>4. CopyOf(g) = [K EXCEPT !.copy = TRUE]
    BY <1>1, <1>2, <1>3, Zenon DEF CopyOf
  <1>5. CopyOf(g) = [dels |-> D, inss |-> I, copy |-> TRUE, residual |-> FALSE]
    BY <1>3, <1>4 DEF Group
  <1> QED BY <1>1, <1>2, <1>5

\* Where the parts of a class get their members from.
LEMMA PartsOfClass ==
    ASSUME registry \in Comparisons, NEW g \in Classes, NEW h \in Parts(registry, View, g)
    PROVE  h.dels \subseteq g.dels /\ h.inss \subseteq g.inss /\ Members(h) \subseteq Members(g)
  <1> DEFINE E == Accepted(registry, View, g)
  <1>1. \A e \in E : e \in g.dels \X g.inss
    BY AcceptedOnEvidence
  <1>2. ASSUME NEW e \in E, h = Couple(e) PROVE h.dels \subseteq g.dels /\ h.inss \subseteq g.inss
    BY <1>1, <1>2, CoupleIs
  <1>3. Remainder(g).dels \subseteq g.dels /\ Remainder(g).inss \subseteq g.inss
    BY RemainderIs
  <1>4. CopyOf(g).dels \subseteq g.dels /\ CopyOf(g).inss \subseteq g.inss
    <2>1. Origins(registry, View, E) \subseteq g.dels
      BY <1>1 DEF Origins
    <2>2. CopyOf(g).dels = Origins(registry, View, E) /\ CopyOf(g).inss = Remainder(g).inss
      BY CopyIs
    <2> QED BY <1>3, <2>1, <2>2
  <1>5. h.dels \subseteq g.dels /\ h.inss \subseteq g.inss
    BY <1>2, <1>3, <1>4, PartIs
  <1> QED BY <1>5 DEF Members

\* A part that was accepted is of placed children.
LEMMA AcceptedStructural ==
    ASSUME registry \in Comparisons, NEW g \in Classes, Accepted(registry, View, g) # {}
    PROVE  Members(g) \subseteq Structural
  <1>1. Refinable(registry, g)
    BY AcceptedOnEvidence
  <1>2. \A c \in Members(g) : c \in registry.steady
    BY <1>1 DEF Refinable, Members, Placed
  <1> QED BY <1>2, Steady

LEMMA PartsSound ==
    ASSUME registry \in Comparisons, NEW g \in Classes, NEW h \in Parts(registry, View, g)
    PROVE  Sound(h)
  <1> DEFINE E == Accepted(registry, View, g)
  <1>1. /\ g.dels \subseteq Deleted /\ g.inss \subseteq Inserted
        /\ \A a, b \in Members(g) : a \in Structural <=> b \in Structural
    BY ClassFacts DEF SameText
  <1>2. h.dels \subseteq g.dels /\ h.inss \subseteq g.inss /\ Members(h) \subseteq Members(g)
    BY PartsOfClass
  <1>3. /\ h.dels \subseteq Deleted /\ h.inss \subseteq Inserted
        /\ \A a, b \in Members(h) : a \in Structural <=> b \in Structural
    BY <1>1, <1>2
  <1>4. ASSUME NEW e \in E, h = Couple(e) PROVE Sound(h)
    <2>1. Vouching(e[1], e[2])
      BY AcceptedOnEvidence
    <2>2. /\ h.dels = {e[1]} /\ h.inss = {e[2]} /\ ~h.copy
          /\ h = [dels |-> {e[1]}, inss |-> {e[2]}, copy |-> FALSE, residual |-> FALSE]
      BY <1>4, CoupleIs
    <2>3. h \in GroupRecords
      BY <1>3, <2>2, IsRecord
    <2> QED BY <1>3, <2>1, <2>2, <2>3 DEF Sound, Good
  <1>5. CASE h = Remainder(g)
    <2>1. /\ h \in GroupRecords
          /\ h.copy = FALSE
          /\ E = {} => h = g
          /\ E # {} => h.residual = TRUE
      BY <1>5, RemainderIs
    <2>2. ASSUME Unique(h), NEW d \in h.dels, NEW i \in h.inss, d \in Structural
          PROVE  OriginalPair(d, i)
      <3>1. h = g /\ Single(g)
        BY <2>1, <2>2 DEF Unique
      <3>2. g.dels \in SUBSET Candidate /\ g.inss \in SUBSET Candidate
        BY ClassFacts
      <3>3. Cardinality(g.dels) = 1 /\ Cardinality(g.inss) = 1
        BY <3>1 DEF Single
      <3>4. g.dels = {d} /\ g.inss = {i}
        BY <2>2, <3>1, <3>2, <3>3, OneCandidate
      <3>5. d \in Members(g) /\ i \in Members(g) /\ Members(g) = {d, i}
        BY <3>4 DEF Members
      <3>6. ASSUME NEW c \in Structural, registry.text[c] = registry.text[d]
            PROVE  c \in {d, i}
        <4>1. SameText(registry, d, c) /\ c \in Candidate
          BY <2>2, <3>6 DEF SameText, Structural
        <4> QED BY <3>5, <4>1, ClassFacts
      <3>7. registry.text[d] = registry.text[i]
        BY <3>5, ClassFacts DEF SameText
      <3> QED BY <3>6, <3>7 DEF OriginalPair
    <2>3. \A d \in h.dels, i \in h.inss : Unique(h) /\ d \in Structural => OriginalPair(d, i)
      BY <2>2
    <2> QED BY <1>3, <2>1, <2>3 DEF Sound, Good
  <1>6. CASE h = CopyOf(g) /\ BothSides(h)
    <2>1. /\ h.dels = Origins(registry, View, E) /\ h.copy = TRUE /\ h.residual = FALSE
          /\ h = [dels |-> h.dels, inss |-> h.inss, copy |-> TRUE, residual |-> FALSE]
      BY <1>6, CopyIs
    <2>2. h \in GroupRecords
      BY <1>3, <2>1, IsRecord
    <2>3. E # {}
      BY <1>6, <2>1 DEF BothSides, Origins
    <2>4. Members(h) \subseteq Structural
      BY <1>2, <2>3, AcceptedStructural
    <2>5. ~Unique(h)
      BY <2>1 DEF Unique
    <2> QED BY <1>3, <2>2, <2>4, <2>5 DEF Sound
  <1> QED BY <1>4, <1>5, <1>6, PartIs

\* Every member of a class has one home among its parts.
LEMMA PartsHouse ==
    ASSUME registry \in Comparisons, NEW g \in Classes
    PROVE  \A c \in Members(g) : \E h \in Parts(registry, View, g) : ~h.copy /\ c \in Members(h)
  <1> DEFINE E == Accepted(registry, View, g)
  <1> SUFFICES ASSUME NEW c \in Members(g)
               PROVE  \E h \in Parts(registry, View, g) : ~h.copy /\ c \in Members(h)
    OBVIOUS
  <1>1. ASSUME NEW e \in E, c = e[1] \/ c = e[2]
        PROVE  Couple(e) \in Parts(registry, View, g) /\ ~Couple(e).copy /\ c \in Members(Couple(e))
    <2>1. c \in Members(Couple(e)) /\ ~Couple(e).copy
      BY <1>1, CoupleIs
    <2> QED BY <2>1, PartIs
  <1>2. ASSUME c \notin Firsts(E), c \notin Seconds(E)
        PROVE  /\ Remainder(g) \in Parts(registry, View, g)
               /\ ~Remainder(g).copy /\ c \in Members(Remainder(g))
    <2>1. c \in Members(Remainder(g)) /\ ~Remainder(g).copy
      BY <1>2, RemainderIs DEF Members
    <2> QED BY <2>1, PartIs
  <1> QED BY <1>1, <1>2 DEF Firsts, Seconds

LEMMA PartsApart ==
    ASSUME registry \in Comparisons, NEW g \in Classes,
           NEW h \in Parts(registry, View, g), NEW k \in Parts(registry, View, g),
           ~h.copy, ~k.copy, NEW c \in Members(h), c \in Members(k)
    PROVE  h = k
  <1> DEFINE E == Accepted(registry, View, g)
  <1>1. \A e \in E : e[1] \in Deleted /\ e[2] \in Inserted
    BY AcceptedOnEvidence, ClassFacts
  <1>2. \A e \in E : c \in Members(Couple(e)) => c = e[1] \/ c = e[2]
    BY CoupleIs
  <1>3. Deleted \cap Inserted = {}
    BY DEF Inserted
  <1>4. ASSUME NEW e \in E, NEW f \in E, c \in Members(Couple(e)), c \in Members(Couple(f))
        PROVE  e = f
    <2>1. e[1] = f[1] \/ e[2] = f[2]
      BY <1>1, <1>2, <1>3, <1>4
    <2> QED BY <2>1, AcceptedOnce
  <1>5. ASSUME NEW e \in E, c \in Members(Couple(e)) PROVE c \notin Members(Remainder(g))
    <2>1. /\ Remainder(g).dels = g.dels \ Firsts(E) /\ Remainder(g).inss = g.inss \ Seconds(E)
          /\ g.dels \subseteq Deleted /\ g.inss \subseteq Inserted
      BY RemainderIs, ClassFacts
    <2>2. e[1] \in Firsts(E) /\ e[2] \in Seconds(E)
      BY DEF Firsts, Seconds
    <2> QED BY <1>1, <1>2, <1>3, <1>5, <2>1, <2>2 DEF Members
  <1>6. CopyOf(g).copy
    BY CopyIs
  <1>7. /\ h = Remainder(g) \/ \E e \in E : h = Couple(e)
        /\ k = Remainder(g) \/ \E e \in E : k = Couple(e)
    BY <1>6, PartIs
  <1> QED BY <1>4, <1>5, <1>7

\* A copy of a class only repeats what is settled and what stays behind.
LEMMA PartsCopied ==
    ASSUME registry \in Comparisons, NEW g \in Classes,
           NEW k \in Parts(registry, View, g), k.copy,
           NEW h \in Parts(registry, View, g), h # k, NEW c \in Members(k), c \in Members(h)
    PROVE  IF c \in Deleted THEN Unique(h) ELSE h.dels = {}
  <1> DEFINE E == Accepted(registry, View, g)
  <1>1. \A e \in E : e[1] \in Deleted /\ e[2] \in Inserted
    BY AcceptedOnEvidence, ClassFacts
  <1>2. Deleted \cap Inserted = {}
    BY DEF Inserted
  <1>3. /\ Remainder(g).dels = g.dels \ Firsts(E) /\ Remainder(g).inss = g.inss \ Seconds(E)
        /\ Remainder(g).copy = FALSE
        /\ g.dels \subseteq Deleted /\ g.inss \subseteq Inserted
    BY RemainderIs, ClassFacts
  <1>4. \A e \in E : Couple(e).copy = FALSE
    BY CoupleIs DEF Couple, Group
  <1>5. k = CopyOf(g) /\ Remainder(g).dels = {}
    BY <1>3, <1>4, PartIs
  <1>6. k.dels = Origins(registry, View, E) /\ k.inss = Remainder(g).inss
    BY <1>5, CopyIs
  <1>7. Origins(registry, View, E) \subseteq Firsts(E)
    BY DEF Origins, Firsts
  <1>8. Firsts(E) \subseteq Deleted
    BY <1>1 DEF Firsts
  <1>9. h = Remainder(g) \/ \E e \in E : h = Couple(e)
    BY <1>5, PartIs
  <1>10. CASE c \in Deleted
    <2>1. c \notin Members(Remainder(g))
      BY <1>2, <1>3, <1>5, <1>10 DEF Members
    <2> QED BY <1>9, <1>10, <2>1, CoupleIs
  <1>11. CASE c \notin Deleted
    <2>1. c \in g.inss /\ c \notin Seconds(E)
      BY <1>3, <1>6, <1>7, <1>8, <1>11 DEF Members
    <2>2. \A e \in E : c \notin Members(Couple(e))
      BY <1>1, <1>11, <2>1, CoupleIs DEF Seconds
    <2> QED BY <1>5, <1>9, <1>11, <2>2
  <1> QED BY <1>10, <1>11

Refined == UNION {Parts(registry, View, g) : g \in Classes}

LEMMA RefinedGroups ==
    ASSUME registry \in Comparisons
    PROVE  (\A g \in Refined : Sound(g)) /\ Homes(Refined, {}) /\ Copies(Refined)
  <1>1. \A h : h \in Refined <=> \E g \in Classes : h \in Parts(registry, View, g)
    BY DEF Refined
  <1>2. \A g \in Classes : \A h \in Parts(registry, View, g) : Members(h) \subseteq Members(g)
    BY PartsOfClass
  <1>3. \A h \in Refined : Sound(h)
    BY <1>1, PartsSound
  <1>4. ASSUME NEW h \in Refined, NEW k \in Refined, NEW c \in Members(h), c \in Members(k)
        PROVE  \E g \in Classes : h \in Parts(registry, View, g) /\ k \in Parts(registry, View, g)
    <2>1. PICK g \in Classes : h \in Parts(registry, View, g)
      BY <1>1
    <2>2. PICK f \in Classes : k \in Parts(registry, View, f)
      BY <1>1
    <2>3. g = f
      BY <1>2, <1>4, <2>1, <2>2, OneClass
    <2> QED BY <2>1, <2>2, <2>3
  <1>5. Homes(Refined, {})
    <2>1. ASSUME NEW c \in Candidate PROVE \E h \in Refined : ~h.copy /\ c \in Members(h)
      <3>1. ClassOf(c) \in Classes /\ c \in Members(ClassOf(c))
        BY ItsClass
      <3> QED BY <1>1, <3>1, PartsHouse
    <2>2. ASSUME NEW h \in Refined, NEW k \in Refined, ~h.copy, ~k.copy,
                 Members(h) \cap Members(k) # {}
          PROVE  h = k
      BY <1>4, <2>2, PartsApart
    <2> QED BY <2>1, <2>2 DEF Homes
  <1>6. Copies(Refined)
    <2> SUFFICES ASSUME NEW k \in Refined, k.copy, NEW c \in Members(k),
                        NEW h \in Refined \ {k}, c \in Members(h)
                 PROVE  IF c \in Deleted THEN Unique(h) ELSE h.dels = {}
      BY DEF Copies
    <2> QED BY <1>4, PartsCopied
  <1> QED BY <1>3, <1>5, <1>6

-----------------------------------------------------------------------------
(* The wrappers follow.                                                    *)

LEMMA AliasIs ==
    ASSUME NEW E, NEW w, NEW c \in AliasOf(registry, E, w)
    PROVE  /\ AliasOf(registry, E, w) = {c} /\ c \in Firsts(E) \cup Seconds(E)
           /\ Role[w] = "single_child_wrapper" /\ w \notin Structural
           /\ SameSide(c, w) /\ Region[c] = Region[w]
  <1> DEFINE S == {x \in Firsts(E) \cup Seconds(E) :
                      /\ SameSide(x, w) /\ Region[x] = Region[w]
                      /\ registry.text[x] = registry.text[w]}
  <1>1. \A x \in AliasOf(registry, E, w) : S = {x}
    BY DEF AliasOf
  <1>2. Role[w] = "single_child_wrapper"
    BY DEF AliasOf
  <1>3. c \in S
    BY <1>1
  <1>4. AliasOf(registry, E, w) = {c}
    BY <1>1, <1>3
  <1> QED BY <1>2, <1>3, <1>4 DEF Structural

\* No two wrappers wrap one child.
LEMMA OneWrapper ==
    ASSUME NEW E, NEW w \in Candidate, NEW x \in Candidate,
           NEW c, AliasOf(registry, E, w) = {c}, AliasOf(registry, E, x) = {c}
    PROVE  w = x
  <1>1. /\ Role[w] = "single_child_wrapper" /\ Role[x] = "single_child_wrapper"
        /\ SameSide(c, w) /\ SameSide(c, x)
        /\ Region[w] = Region[x]
    BY AliasIs
  <1>2. SameSide(w, x)
    BY <1>1 DEF SameSide
  <1> QED BY <1>1, <1>2, SiblingAssumption

LEMMA WrapperPairIs ==
    ASSUME NEW E, NEW g, Sound(g), NEW e \in WrapperPairs(registry, E, g)
    PROVE  /\ e \in g.dels \X g.inss /\ e \in Deleted \X Inserted
           /\ e[1] \in Aliases(registry, E, g) /\ e[2] \in Aliases(registry, E, g)
           /\ \E x \in E : /\ AliasOf(registry, E, e[1]) = {x[1]}
                           /\ AliasOf(registry, E, e[2]) = {x[2]}
           /\ e[1] \notin Structural /\ e[2] \notin Structural
  <1>1. /\ e \in g.dels \X g.inss
        /\ \E x \in E : /\ AliasOf(registry, E, e[1]) = {x[1]}
                        /\ AliasOf(registry, E, e[2]) = {x[2]}
    BY DEF WrapperPairs
  <1>2. e \in Deleted \X Inserted
    BY <1>1 DEF Sound, GroupRecords
  <1>3. e[1] \in Aliases(registry, E, g) /\ e[2] \in Aliases(registry, E, g)
    BY <1>1 DEF Aliases
  <1>4. e[1] \notin Structural /\ e[2] \notin Structural
    BY <1>1, AliasIs
  <1> QED BY <1>1, <1>2, <1>3, <1>4

LEMMA WrapperPairsMatch ==
    ASSUME NEW E, Matching(E), NEW g, Sound(g),
           NEW e \in WrapperPairs(registry, E, g), NEW f \in WrapperPairs(registry, E, g),
           e[1] = f[1] \/ e[2] = f[2]
    PROVE  e = f
  <1>1. PICK x \in E : /\ AliasOf(registry, E, e[1]) = {x[1]}
                       /\ AliasOf(registry, E, e[2]) = {x[2]}
    BY WrapperPairIs
  <1>2. PICK y \in E : /\ AliasOf(registry, E, f[1]) = {y[1]}
                       /\ AliasOf(registry, E, f[2]) = {y[2]}
    BY WrapperPairIs
  <1>3. /\ e \in Deleted \X Inserted /\ f \in Deleted \X Inserted
        /\ e \in g.dels \X g.inss /\ f \in g.dels \X g.inss
    BY WrapperPairIs
  <1>4. x[1] = y[1] \/ x[2] = y[2]
    BY <1>1, <1>2
  <1>5. x = y
    BY <1>4 DEF Matching
  <1>6. e[1] \in Candidate /\ f[1] \in Candidate /\ e[2] \in Candidate /\ f[2] \in Candidate
    BY <1>3, RegistryAssumption DEF Inserted
  <1>7. e[1] = f[1] /\ e[2] = f[2]
    BY <1>1, <1>2, <1>5, <1>6, OneWrapper
  <1> QED BY <1>3, <1>7

FollowRest(E, g) ==
    IF Aliases(registry, E, g) = {} THEN g
    ELSE [dels |-> g.dels \ Aliases(registry, E, g), inss |-> g.inss \ Aliases(registry, E, g),
          copy |-> g.copy, residual |-> TRUE]

LEMMA FollowerIs ==
    ASSUME NEW E, NEW g, NEW h
    PROVE  h \in FollowChildren(registry, E, g) <=>
              \/ \E e \in WrapperPairs(registry, E, g) : h = Couple(e)
              \/ h = FollowRest(E, g) /\ Members(h) # {}
  BY DEF FollowChildren, FollowRest, NonEmpty, Members

\* Only wrappers have aliases, and a group is of wrappers or of children.
LEMMA ChildrenStay ==
    ASSUME NEW E, NEW g, Sound(g), NEW c \in Members(g), c \in Structural
    PROVE  Aliases(registry, E, g) = {} /\ WrapperPairs(registry, E, g) = {}
           /\ FollowRest(E, g) = g
  <1>1. \A w \in Members(g) : w \in Structural
    BY DEF Sound
  <1>2. Aliases(registry, E, g) = {}
    BY <1>1, AliasIs DEF Aliases, Members
  <1>3. WrapperPairs(registry, E, g) = {}
    BY <1>2, WrapperPairIs
  <1> QED BY <1>2, <1>3 DEF FollowRest

LEMMA FollowRestIs ==
    ASSUME NEW E, NEW g, Sound(g)
    PROVE  /\ \A c : c \in Members(FollowRest(E, g))
                     <=> c \in Members(g) /\ c \notin Aliases(registry, E, g)
           /\ FollowRest(E, g).copy = g.copy
           /\ FollowRest(E, g) # g => FollowRest(E, g).residual = TRUE
           /\ FollowRest(E, g) \in GroupRecords
  <1>1. PICK A : A = Aliases(registry, E, g)
    OBVIOUS
  <1>2. PICK R : R = FollowRest(E, g)
    OBVIOUS
  <1>3. g \in GroupRecords
    BY DEF Sound
  <1>4. PICK D \in SUBSET Deleted, I \in SUBSET Inserted, b \in BOOLEAN :
           D = g.dels \ A /\ I = g.inss \ A /\ b = g.copy
    BY <1>3 DEF GroupRecords
  <1>5. ASSUME A = {} PROVE R = g
    BY <1>1, <1>2, <1>5 DEF FollowRest
  <1>6. ASSUME A # {} PROVE R = [dels |-> D, inss |-> I, copy |-> b, residual |-> TRUE]
    BY <1>1, <1>2, <1>4, <1>6 DEF FollowRest
  <1>7. /\ R.dels = g.dels \ A /\ R.inss = g.inss \ A /\ R.copy = g.copy
        /\ R # g => R.residual = TRUE
    <2>1. CASE A = {}
      BY <1>5, <2>1
    <2>2. CASE A # {}
      BY <1>4, <1>6, <2>2
    <2> QED BY <2>1, <2>2
  <1>8. R \in GroupRecords
    <2>1. CASE A = {}
      BY <1>3, <1>5, <2>1
    <2>2. CASE A # {}
      BY <1>6, <2>2, IsRecord
    <2> QED BY <2>1, <2>2
  <1>9. \A c : c \in Members(R) <=> c \in Members(g) /\ c \notin A
    BY <1>7 DEF Members
  <1> QED BY <1>1, <1>2, <1>7, <1>8, <1>9

\* A follower is a part of its group that is as sound.
LEMMA FollowerSound ==
    ASSUME NEW E, NEW g, Sound(g), NEW h \in FollowChildren(registry, E, g)
    PROVE  Sound(h) /\ Members(h) \subseteq Members(g)
  <1>1. ASSUME NEW e \in WrapperPairs(registry, E, g), h = Couple(e)
        PROVE  Sound(h) /\ Members(h) \subseteq Members(g)
    <2>1. /\ e \in Deleted \X Inserted /\ e \in g.dels \X g.inss
          /\ e[1] \notin Structural /\ e[2] \notin Structural
      BY WrapperPairIs
    <2>2. /\ h = [dels |-> {e[1]}, inss |-> {e[2]}, copy |-> FALSE, residual |-> FALSE]
          /\ Members(h) = {e[1], e[2]} /\ h.dels = {e[1]} /\ ~h.copy
      BY <1>1, CoupleIs
    <2>3. {e[1]} \in SUBSET Deleted /\ {e[2]} \in SUBSET Inserted
      BY <2>1
    <2>4. h \in GroupRecords
      BY <2>2, <2>3, IsRecord
    <2>5. Members(h) \subseteq Members(g)
      BY <2>1, <2>2 DEF Members
    <2> QED BY <2>1, <2>2, <2>4, <2>5 DEF Sound
  <1>2. CASE h = FollowRest(E, g)
    <2>1. /\ Members(h) \subseteq Members(g) /\ h.copy = g.copy
          /\ h # g => h.residual = TRUE
          /\ h \in GroupRecords
      BY <1>2, FollowRestIs
    <2>2. h # g => ~Unique(h)
      BY <2>1 DEF Unique
    <2>3. CASE h = g
      BY <2>1, <2>3
    <2>4. CASE h # g
      <3>1. \A a, b \in Members(h) : a \in Structural <=> b \in Structural
        BY <2>1 DEF Sound
      <3>2. h.copy => Members(h) \subseteq Structural
        BY <2>1 DEF Sound
      <3> QED BY <2>1, <2>2, <2>4, <3>1, <3>2 DEF Sound
    <2> QED BY <2>3, <2>4
  <1> QED BY <1>1, <1>2, FollowerIs

\* A group of children is its only follower.
LEMMA ChildrenFollow ==
    ASSUME NEW E, NEW g, Sound(g), NEW h \in FollowChildren(registry, E, g),
           NEW c \in Members(h), c \in Structural
    PROVE  h = g
  <1>1. c \in Members(g)
    BY FollowerSound
  <1> QED BY <1>1, ChildrenStay, FollowerIs

LEMMA CopyFollows ==
    ASSUME NEW E, NEW g, Sound(g), NEW h \in FollowChildren(registry, E, g), g.copy \/ h.copy
    PROVE  h = g
  <1>1. \A e : h = Couple(e) => ~h.copy /\ Members(h) # {}
    BY CoupleIs
  <1>2. h = FollowRest(E, g) => h.copy = g.copy
    BY FollowRestIs
  <1>3. (h.copy => g.copy) /\ Members(h) # {}
    BY <1>1, <1>2, FollowerIs
  <1>4. g.copy
    BY <1>3
  <1>5. Members(g) \subseteq Structural
    BY <1>4 DEF Sound
  <1>6. PICK c : c \in Members(h)
    BY <1>3
  <1>7. c \in Structural
    BY <1>5, <1>6, FollowerSound
  <1> QED BY <1>6, <1>7, ChildrenFollow

LEMMA FollowersApart ==
    ASSUME NEW E, Matching(E), NEW g, Sound(g),
           NEW h \in FollowChildren(registry, E, g), NEW k \in FollowChildren(registry, E, g),
           NEW c \in Members(h), c \in Members(k)
    PROVE  h = k
  <1>1. ASSUME NEW e \in WrapperPairs(registry, E, g), NEW f \in WrapperPairs(registry, E, g),
               c \in Members(Couple(e)), c \in Members(Couple(f))
        PROVE  e = f
    <2>1. e \in Deleted \X Inserted /\ f \in Deleted \X Inserted
      BY WrapperPairIs
    <2>2. c \in {e[1], e[2]} /\ c \in {f[1], f[2]}
      BY <1>1, CoupleIs
    <2>3. e[1] = f[1] \/ e[2] = f[2]
      BY <2>1, <2>2 DEF Inserted
    <2> QED BY <2>3, WrapperPairsMatch
  <1>2. ASSUME NEW e \in WrapperPairs(registry, E, g), c \in Members(Couple(e))
        PROVE  c \notin Members(FollowRest(E, g))
    <2>1. c \in {e[1], e[2]}
      BY <1>2, CoupleIs
    <2>2. c \in Aliases(registry, E, g)
      BY <2>1, WrapperPairIs
    <2> QED BY <2>2, FollowRestIs
  <1> QED BY <1>1, <1>2, FollowerIs

\* What a group loses is suppressed, and what it keeps is not.
LEMMA FollowersHouse ==
    ASSUME NEW E, NEW g, Sound(g), NEW c \in Members(g)
    PROVE  c \notin LoneWrappers(registry, E, g)
           <=> \E h \in FollowChildren(registry, E, g) : c \in Members(h)
  <1> DEFINE P == WrapperPairs(registry, E, g)
             A == Aliases(registry, E, g)
  <1>1. c \notin LoneWrappers(registry, E, g)
        <=> c \notin A \/ c \in Firsts(P) \/ c \in Seconds(P)
    BY DEF LoneWrappers
  <1>2. c \notin A <=> c \in Members(FollowRest(E, g))
    BY FollowRestIs
  <1>3. c \in Firsts(P) \/ c \in Seconds(P) <=> \E e \in P : c \in Members(Couple(e))
    BY CoupleIs DEF Firsts, Seconds
  <1>4. (\E h \in FollowChildren(registry, E, g) : c \in Members(h))
        <=> c \in Members(FollowRest(E, g)) \/ \E e \in P : c \in Members(Couple(e))
    BY FollowerIs
  <1> QED BY <1>1, <1>2, <1>3, <1>4

LoneOnes == UNION {LoneWrappers(registry, pairs, g) : g \in groups}
Followed == UNION {FollowChildren(registry, pairs, g) : g \in groups}

LEMMA FollowedGroups ==
    ASSUME Matching(pairs), \A g \in groups : Sound(g), Homes(groups, {}), Copies(groups)
    PROVE  /\ \A g \in Followed : Sound(g)
           /\ Homes(Followed, LoneOnes) /\ Copies(Followed) /\ CopiesApart(Followed, LoneOnes)
  <1>1. \A h : h \in Followed <=> \E g \in groups : h \in FollowChildren(registry, pairs, g)
    BY DEF Followed
  <1>2. \A c : c \in LoneOnes <=> \E g \in groups : c \in LoneWrappers(registry, pairs, g)
    BY DEF LoneOnes
  <1>3. \A h \in Followed : Sound(h)
    BY <1>1, FollowerSound
  <1>4. ASSUME NEW c \in LoneOnes, NEW f \in groups, c \in LoneWrappers(registry, pairs, f)
        PROVE  c \in Members(f) /\ c \notin Structural /\ ~f.copy
    <2>1. c \in Aliases(registry, pairs, f)
      BY <1>4 DEF LoneWrappers
    <2>2. c \in Members(f) /\ c \notin Structural
      BY <2>1, AliasIs DEF Aliases, Members
    <2> QED BY <2>2 DEF Sound
  <1>5. ASSUME NEW h \in Followed, ~h.copy, NEW c \in Members(h)
        PROVE  \E g \in groups : ~g.copy /\ c \in Members(g) /\ h \in FollowChildren(registry, pairs, g)
    <2>1. PICK g \in groups : h \in FollowChildren(registry, pairs, g)
      BY <1>1
    <2>2. c \in Members(g) /\ ~g.copy
      BY <1>5, <2>1, FollowerSound, CopyFollows
    <2> QED BY <2>1, <2>2
  <1>6. \A g, f \in groups : \A c \in Members(g) :
           ~g.copy /\ ~f.copy /\ c \in Members(f) => g = f
    BY DEF Homes
  <1>7. Homes(Followed, LoneOnes)
    <2>1. ASSUME NEW c \in Candidate \ LoneOnes PROVE \E h \in Followed : ~h.copy /\ c \in Members(h)
      <3>1. PICK g \in groups : ~g.copy /\ c \in Members(g)
        BY DEF Homes
      <3>2. PICK h \in FollowChildren(registry, pairs, g) : c \in Members(h)
        BY <1>2, <2>1, <3>1, FollowersHouse
      <3>3. ~h.copy
        BY <3>1, <3>2, CopyFollows
      <3> QED BY <1>1, <3>1, <3>2, <3>3
    <2>2. ASSUME NEW h \in Followed, NEW k \in Followed, ~h.copy, ~k.copy,
                 Members(h) \cap Members(k) # {}
          PROVE  h = k
      <3>1. PICK c : c \in Members(h) /\ c \in Members(k)
        BY <2>2
      <3>2. PICK g \in groups : ~g.copy /\ c \in Members(g) /\ h \in FollowChildren(registry, pairs, g)
        BY <1>5, <2>2, <3>1
      <3>3. PICK f \in groups : ~f.copy /\ c \in Members(f) /\ k \in FollowChildren(registry, pairs, f)
        BY <1>5, <2>2, <3>1
      <3>4. g = f
        BY <1>6, <3>2, <3>3
      <3> QED BY <3>1, <3>2, <3>3, <3>4, FollowersApart
    <2>3. ASSUME NEW h \in Followed, ~h.copy, NEW c \in Members(h) PROVE c \notin LoneOnes
      <3> SUFFICES ASSUME c \in LoneOnes PROVE FALSE
        OBVIOUS
      <3>1. PICK g \in groups : ~g.copy /\ c \in Members(g) /\ h \in FollowChildren(registry, pairs, g)
        BY <1>5, <2>3
      <3>2. PICK f \in groups : c \in LoneWrappers(registry, pairs, f)
        BY <1>2
      <3>3. g = f
        BY <1>4, <1>6, <3>1, <3>2
      <3> QED BY <2>3, <3>1, <3>2, <3>3, FollowersHouse
    <2> QED BY <2>1, <2>2, <2>3 DEF Homes
  <1>8. ASSUME NEW k \in Followed, k.copy PROVE k \in groups /\ Members(k) \subseteq Structural
    BY <1>1, <1>3, <1>8, CopyFollows DEF Sound
  <1>9. Copies(Followed)
    <2> SUFFICES ASSUME NEW k \in Followed, k.copy, NEW c \in Members(k),
                        NEW h \in Followed \ {k}, c \in Members(h)
                 PROVE  IF c \in Deleted THEN Unique(h) ELSE h.dels = {}
      BY DEF Copies
    <2>1. k \in groups /\ c \in Structural
      BY <1>8
    <2>2. h \in groups
      BY <1>1, <2>1, ChildrenFollow
    <2> QED BY <2>1, <2>2 DEF Copies
  <1>10. CopiesApart(Followed, LoneOnes)
    <2>1. \A c \in LoneOnes : c \notin Structural
      BY <1>2, <1>4
    <2> QED BY <1>8, <2>1 DEF CopiesApart
  <1> QED BY <1>3, <1>7, <1>9, <1>10

\* The wrapper of a resolved child is with the wrapper of the child's partner.
Follows(g) ==
    BothSides(g) =>
        \A w \in g.dels \cup g.inss : \A c \in AliasOf(registry, pairs, w) :
            /\ Unique(g)
            /\ UNION {AliasOf(registry, pairs, x) : x \in g.dels \cup g.inss}
                  = {c} \cup PartnerIn(pairs, c)

LEMMA FollowersFollow ==
    ASSUME Matching(pairs), NEW g, Sound(g), NEW h \in FollowChildren(registry, pairs, g)
    PROVE  Follows(h)
  <1> SUFFICES ASSUME NEW w \in Members(h), NEW c \in AliasOf(registry, pairs, w)
               PROVE  /\ Unique(h)
                      /\ UNION {AliasOf(registry, pairs, x) : x \in Members(h)}
                            = {c} \cup PartnerIn(pairs, c)
    BY DEF Follows, Members
  <1>1. w \in Members(g)
    BY FollowerSound
  <1>2. w \in Aliases(registry, pairs, g)
    BY <1>1 DEF Aliases, Members
  <1>3. h # FollowRest(pairs, g)
    BY <1>2, FollowRestIs
  <1>4. PICK e \in WrapperPairs(registry, pairs, g) : h = Couple(e)
    BY <1>3, FollowerIs
  <1>5. Unique(h) /\ Members(h) = {e[1], e[2]}
    BY <1>4, CoupleIs
  <1>6. PICK x \in pairs : /\ AliasOf(registry, pairs, e[1]) = {x[1]}
                           /\ AliasOf(registry, pairs, e[2]) = {x[2]}
    BY WrapperPairIs
  <1>7. UNION {AliasOf(registry, pairs, y) : y \in Members(h)} = {x[1], x[2]}
    BY <1>5, <1>6
  <1>8. c = x[1] \/ c = x[2]
    BY <1>5, <1>6
  <1>9. x[1] \in Deleted /\ x[2] \in Inserted /\ \A y \in pairs : y[1] \in Deleted /\ y[2] \in Inserted
    BY DEF Matching
  <1>10. PartnerIn(pairs, x[1]) = {x[2]} /\ PartnerIn(pairs, x[2]) = {x[1]}
    <2>1. \A y \in pairs : y[1] # x[2] /\ y[2] # x[1]
      BY <1>9 DEF Inserted
    <2>2. \A y \in pairs : y[1] = x[1] \/ y[2] = x[2] => y = x
      BY DEF Matching
    <2> QED BY <2>1, <2>2 DEF PartnerIn
  <1> QED BY <1>5, <1>7, <1>8, <1>10

-----------------------------------------------------------------------------
(* The comparison.                                                         *)

GroupsSettled ==
    /\ Matching(pairs)
    /\ \A g \in groups : Sound(g)
    /\ Homes(groups, suppressed) /\ Copies(groups) /\ CopiesApart(groups, suppressed)

SiblingInv ==
    /\ registry \in Comparisons
    /\ phase \in {"refine", "follow"} => suppressed = {}
    /\ phase \in {"follow", "select"} => GroupsSettled
    /\ phase = "select" => \A g \in groups : Follows(g)

LEMMA HoldingIs == ASSUME NEW c PROVE \A g : g \in Holding(c) <=> g \in groups /\ c \in Members(g)
  BY DEF Holding, Members

LEMMA SettledKept == ASSUME SiblingInv PROVE OccurrencesKept
  <1> SUFFICES ASSUME phase \in {"follow", "select"}, NEW c \in Candidate
               PROVE  /\ Cardinality({g \in Holding(c) : ~g.copy}) = IF c \in suppressed THEN 0 ELSE 1
                      /\ \A g \in Holding(c) : g.copy =>
                            \A h \in Holding(c) \ {g} :
                               IF c \in Deleted THEN Unique(h) ELSE h.dels = {}
    BY DEF OccurrencesKept
  <1>1. Homes(groups, suppressed) /\ Copies(groups) /\ CopiesApart(groups, suppressed)
    BY DEF SiblingInv, GroupsSettled
  <1> DEFINE H == {g \in Holding(c) : ~g.copy}
  <1>2. ASSUME c \in suppressed PROVE Cardinality(H) = 0
    <2>1. H = {}
      BY <1>1, <1>2, HoldingIs DEF Homes
    <2> QED BY <2>1, FS_EmptySet
  <1>3. ASSUME c \notin suppressed PROVE Cardinality(H) = 1
    <2>1. PICK h \in groups : ~h.copy /\ c \in Members(h)
      BY <1>1, <1>3 DEF Homes
    <2>2. \A g \in groups : ~g.copy /\ c \in Members(g) => g = h
      BY <1>1, <2>1 DEF Homes
    <2>3. H = {h}
      BY <2>1, <2>2, HoldingIs
    <2> HIDE DEF H
    <2> QED BY <2>3, FS_Singleton
  <1>4. \A g \in Holding(c) : g.copy =>
            \A h \in Holding(c) \ {g} : IF c \in Deleted THEN Unique(h) ELSE h.dels = {}
    BY <1>1, HoldingIs DEF Copies
  <1> QED BY <1>2, <1>3, <1>4

LEMMA SettledOnEvidence == ASSUME SiblingInv PROVE ResolvedOnEvidence
  <1>1. OnlyOnEvidence
    <2> SUFFICES ASSUME phase = "select", NEW g \in groups, Unique(g),
                        NEW d \in g.dels, NEW i \in g.inss, d \in Structural
                 PROVE  \/ OriginalPair(d, i)
                        \/ Vouched(d, i) /\ ~Denied(d, i)
                        \/ Neighbourly(d, i)
      BY DEF OnlyOnEvidence
    <2>1. Sound(g)
      BY DEF SiblingInv, GroupsSettled
    <2> QED BY <2>1 DEF Sound, Good, Vouching
  <1>2. WrappersFollowChildren
    BY DEF SiblingInv, WrappersFollowChildren, Follows
  <1> QED BY <1>1, <1>2 DEF ResolvedOnEvidence

\* Evidence is of the registry, which never changes.
LEMMA EvidenceStays ==
    ASSUME registry' = registry
    PROVE  \A g : Sound(g) => Sound(g)'
  <1>1. \A d, i : OriginalPair(d, i)' <=> OriginalPair(d, i)
    BY DEF OriginalPair
  <1>2. \A d, i : Landmark(d, i)' <=> Landmark(d, i)
    BY <1>1 DEF Landmark
  <1>3. \A c, d, k : Beside(c, d, k)' <=> Beside(c, d, k)
    BY DEF Beside
  <1>4. \A d, i : Vouched(d, i)' <=> Vouched(d, i)
    BY <1>2, <1>3 DEF Vouched
  <1>5. \A d, i : Denied(d, i)' <=> Denied(d, i)
    BY <1>2, <1>3 DEF Denied
  <1>6. \A d, i : Neighbourly(d, i)' <=> Neighbourly(d, i)
    <2> DEFINE V(d, i) == {e \in registry.akin : /\ Landmark(e[1], e[2])
                                                 /\ Parent[e[1]] = Parent[d]
                                                 /\ Parent[e[2]] = Parent[i]}
    <2>1. \A d, i : V(d, i)' = V(d, i)
      BY <1>2
    <2>2. \A d, i : Neighbourly(d, i) <=> /\ Cardinality(V(d, i)) >= 2
                                          /\ \A e \in V(d, i) : KeepsOrder(e, <<d, i>>)
      BY DEF Neighbourly
    <2>3. \A d, i : Neighbourly(d, i)' <=> /\ Cardinality(V(d, i)') >= 2
                                           /\ \A e \in V(d, i)' : KeepsOrder(e, <<d, i>>)
      BY DEF Neighbourly
    <2> HIDE DEF V
    <2> QED BY <2>1, <2>2, <2>3
  <1>7. \A d, i : Good(d, i)' <=> Good(d, i)
    BY <1>1, <1>4, <1>5, <1>6 DEF Good, Vouching
  <1> QED BY <1>7 DEF Sound

LEMMA ComparisonStarts == SiblingInit => SiblingInv
  BY DEF SiblingInit, SiblingInv

LEMMA ComparisonRefines == ASSUME SiblingInv, Refine PROVE SiblingInv'
  <1>1. /\ phase = "refine" /\ phase' = "follow" /\ registry' = registry
        /\ suppressed = {} /\ suppressed' = {} /\ registry \in Comparisons
    BY DEF SiblingInv, Refine
  <1>2. groups' = Refined /\ pairs' = Resolved
    <2>1. /\ groups' = UNION {Parts(registry, Evidence(registry), g) :
                                g \in {Group(f.dels, f.inss) : f \in ExactGroups(registry)}}
          /\ pairs' = UNION {Accepted(registry, Evidence(registry), g) :
                                g \in {Group(f.dels, f.inss) : f \in ExactGroups(registry)}}
      BY DEF Refine
    <2> QED BY <2>1, ExactIsClass DEF Refined, Resolved, View
  <1>3. PICK G : G = Refined
    OBVIOUS
  <1>4. PICK P : P = Resolved
    OBVIOUS
  <1>5. (\A g \in G : Sound(g)) /\ Homes(G, {}) /\ Copies(G) /\ Matching(P)
    BY <1>1, <1>3, <1>4, RefinedGroups, ResolvedMatch
  <1>6. groups' = G /\ pairs' = P
    BY <1>2, <1>3, <1>4
  <1>7. (\A g \in groups : Sound(g))'
    BY <1>1, <1>5, <1>6, EvidenceStays
  <1>8. CopiesApart(groups, suppressed)'
    BY <1>1 DEF CopiesApart
  <1>9. Homes(groups, suppressed)'
    BY <1>1, <1>5, <1>6 DEF Homes, Members
  <1>10. Copies(groups)'
    BY <1>5, <1>6 DEF Copies, Members, Unique
  <1>11. Matching(pairs)'
    BY <1>5, <1>6 DEF Matching
  <1>12. GroupsSettled'
    BY <1>7, <1>8, <1>9, <1>10, <1>11 DEF GroupsSettled
  <1> QED BY <1>1, <1>12 DEF SiblingInv

LEMMA ComparisonFollows == ASSUME SiblingInv, Follow PROVE SiblingInv'
  <1>1. /\ phase = "follow" /\ phase' = "select" /\ registry' = registry /\ pairs' = pairs
        /\ suppressed = {} /\ registry \in Comparisons /\ GroupsSettled
    BY DEF SiblingInv, Follow
  <1>2. groups' = Followed /\ suppressed' = LoneOnes
    BY DEF Follow, Followed, LoneOnes
  <1>3. PICK G : G = Followed
    OBVIOUS
  <1>4. PICK L : L = LoneOnes
    OBVIOUS
  <1>5. Matching(pairs) /\ (\A g \in groups : Sound(g)) /\ Homes(groups, {}) /\ Copies(groups)
    BY <1>1 DEF GroupsSettled
  <1>6. /\ \A g \in G : Sound(g)
        /\ Homes(G, L) /\ Copies(G) /\ CopiesApart(G, L)
    BY <1>3, <1>4, <1>5, FollowedGroups
  <1>7. \A g \in G : Follows(g)
    BY <1>3, <1>5, FollowersFollow DEF Followed
  <1>8. groups' = G /\ suppressed' = L
    BY <1>2, <1>3, <1>4
  <1>9. (\A g \in groups : Sound(g))'
    BY <1>1, <1>6, <1>8, EvidenceStays
  <1>10. CopiesApart(groups, suppressed)'
    BY <1>6, <1>8 DEF CopiesApart, Members
  <1>11. Homes(groups, suppressed)'
    BY <1>6, <1>8 DEF Homes, Members
  <1>12. Copies(groups)'
    BY <1>6, <1>8 DEF Copies, Members, Unique
  <1>13. Matching(pairs)'
    BY <1>1, <1>5 DEF Matching
  <1>14. GroupsSettled'
    BY <1>9, <1>10, <1>11, <1>12, <1>13 DEF GroupsSettled
  <1>15. (\A g \in groups : Follows(g))'
    BY <1>1, <1>7, <1>8 DEF Follows
  <1> QED BY <1>1, <1>14, <1>15 DEF SiblingInv

LEMMA ComparisonStays ==
    ASSUME SiblingInv, UNCHANGED siblingVars
    PROVE  SiblingInv'
  <1>1. /\ phase' = phase /\ registry' = registry /\ groups' = groups /\ pairs' = pairs
        /\ suppressed' = suppressed
    BY DEF siblingVars
  <1>2. GroupsSettled => GroupsSettled'
    <2>1. (\A g \in groups : Sound(g)) => (\A g \in groups : Sound(g))'
      BY <1>1, EvidenceStays
    <2>2. Homes(groups, suppressed) => Homes(groups, suppressed)'
      BY <1>1 DEF Homes, Members
    <2>3. Copies(groups) => Copies(groups)'
      BY <1>1 DEF Copies, Members, Unique
    <2>4. CopiesApart(groups, suppressed) => CopiesApart(groups, suppressed)'
      BY <1>1 DEF CopiesApart, Members
    <2>5. Matching(pairs) => Matching(pairs)'
      BY <1>1 DEF Matching
    <2> QED BY <2>1, <2>2, <2>3, <2>4, <2>5 DEF GroupsSettled
  <1>3. (\A g \in groups : Follows(g)) => (\A g \in groups : Follows(g))'
    BY <1>1 DEF Follows
  <1> QED BY <1>1, <1>2, <1>3 DEF SiblingInv

LEMMA ComparisonSteps == SiblingInv /\ [SiblingNext]_siblingVars => SiblingInv'
  <1> SUFFICES ASSUME SiblingInv, [SiblingNext]_siblingVars PROVE SiblingInv'
    OBVIOUS
  <1>1. CASE Refine
    BY <1>1, ComparisonRefines
  <1>2. CASE Follow
    BY <1>2, ComparisonFollows
  <1>3. CASE ChooseMoves
    BY <1>3 DEF ChooseMoves, SiblingInv
  <1>4. CASE Report
    BY <1>4 DEF Report, SiblingInv
  <1>5. CASE UNCHANGED siblingVars
    BY <1>5, ComparisonStays
  <1> QED BY <1>1, <1>2, <1>3, <1>4, <1>5 DEF SiblingNext

\* Taking repeated groups apart and letting wrappers follow loses no occurrence
\* and counts none twice, whatever the comparison
\* (refine_repeated_exact_groups).
THEOREM OccurrencesAlwaysKept == SiblingSpec => []OccurrencesKept
  <1>1. SiblingInv => OccurrencesKept
    BY SettledKept
  <1> QED BY <1>1, ComparisonStarts, ComparisonSteps, PTL DEF SiblingSpec

\* No occurrence gets a partner by elimination, and no wrapper another one than
\* its child's, whatever the comparison (refine_repeated_exact_groups).
THEOREM ResolvedAlwaysOnEvidence == SiblingSpec => []ResolvedOnEvidence
  <1>1. SiblingInv => ResolvedOnEvidence
    BY SettledOnEvidence
  <1> QED BY <1>1, ComparisonStarts, ComparisonSteps, PTL DEF SiblingSpec

-----------------------------------------------------------------------------
(* Orders on finite sets: what InOrder, NonOverlapping and the sequences of  *)
(* moves rest on.                                                            *)

\* Every set of numbers has a least one.
LEMMA LeastNumber ==
    ASSUME NEW T \in SUBSET Nat, T # {}
    PROVE  \E m \in T : \A n \in T : m <= n
  <1>1. IsWellFoundedOn(OpToRel(<, Nat), Nat)
    BY NatLessThanWellFounded
  <1>2. PICK m \in T : \A n \in T : ~(<<n, m>> \in OpToRel(<, Nat))
    BY <1>1, WFMin
  <1>3. \A n \in T : ~(n < m)
    BY <1>2 DEF OpToRel
  <1> QED BY <1>3

\* R orders the members of S.
StrictlyOrders(R, S) ==
    /\ \A x \in S : <<x, x>> \notin R
    /\ \A x, y, z \in S : <<x, y>> \in R /\ <<y, z>> \in R => <<x, z>> \in R

Preceding(R, S, x) == {y \in S : <<y, x>> \in R}

\* Who comes before has less before it.
LEMMA FewerBefore ==
    ASSUME NEW S, IsFiniteSet(S), NEW R, StrictlyOrders(R, S),
           NEW x \in S, NEW y \in S, <<x, y>> \in R
    PROVE  /\ Cardinality(Preceding(R, S, x)) \in Nat /\ Cardinality(Preceding(R, S, y)) \in Nat
           /\ Cardinality(Preceding(R, S, x)) < Cardinality(Preceding(R, S, y))
  <1> DEFINE X == Preceding(R, S, x)
             Y == Preceding(R, S, y)
  <1>1. X \subseteq Y /\ x \in Y /\ x \notin X /\ Y \subseteq S
    BY DEF Preceding, StrictlyOrders
  <1>2. IsFiniteSet(Y)
    BY <1>1, FS_Subset
  <1>3. IsFiniteSet(X) /\ Cardinality(X) <= Cardinality(Y)
        /\ (Cardinality(X) = Cardinality(Y) => X = Y)
    BY <1>1, <1>2, FS_Subset
  <1>4. Cardinality(X) \in Nat /\ Cardinality(Y) \in Nat
    BY <1>2, <1>3, FS_CardinalityType
  <1> HIDE DEF X, Y
  <1>5. X # Y
    BY <1>1
  <1>6. Cardinality(X) < Cardinality(Y)
    BY <1>3, <1>4, <1>5
  <1> QED BY <1>4, <1>6 DEF X, Y

\* A finite set has a first member.
LEMMA FirstMember ==
    ASSUME NEW S, IsFiniteSet(S), NEW R, StrictlyOrders(R, S), NEW T \in SUBSET S, T # {}
    PROVE  \E m \in T : \A y \in T : <<y, m>> \notin R
  <1> DEFINE Count(x) == Cardinality(Preceding(R, S, x))
             N == {Count(x) : x \in T}
  <1>1. \A x \in S : Count(x) \in Nat
    <2> TAKE x \in S
    <2>1. Preceding(R, S, x) \subseteq S
      BY DEF Preceding
    <2> QED BY <2>1, FS_Subset, FS_CardinalityType
  <1>2. \A x, y \in S : <<x, y>> \in R => Count(x) < Count(y)
    BY FewerBefore
  <1> HIDE DEF Count
  <1>3. N \in SUBSET Nat /\ N # {}
    BY <1>1
  <1>4. PICK n \in N : \A k \in N : n <= k
    BY <1>3, LeastNumber
  <1>5. PICK m \in T : n = Count(m)
    OBVIOUS
  <1>6. \A y \in T : ~(Count(y) < Count(m))
    BY <1>1, <1>4, <1>5
  <1> QED BY <1>2, <1>6

\* Keys of one length are ordered by their first difference.
LEMMA AboveIsOrder ==
    ASSUME NEW N \in Nat, NEW a \in [1..N -> Int], NEW b \in [1..N -> Int], NEW c \in [1..N -> Int]
    PROVE  /\ ~Above(a, a)
           /\ Above(a, b) /\ Above(b, c) => Above(a, c)
           /\ a = b \/ Above(a, b) \/ Above(b, a)
  <1>1. ~Above(a, a)
    BY DEF Above
  <1>2. ASSUME Above(a, b), Above(b, c) PROVE Above(a, c)
    <2>1. PICK i \in 1..N : a[i] > b[i] /\ \A m \in 1..(i - 1) : a[m] = b[m]
      BY <1>2 DEF Above
    <2>2. PICK j \in 1..N : b[j] > c[j] /\ \A m \in 1..(j - 1) : b[m] = c[m]
      BY <1>2 DEF Above
    <2>3. CASE i < j
      <3>1. i \in 1..(j - 1) /\ 1..(i - 1) \subseteq 1..(j - 1)
        BY <2>3
      <3>2. a[i] > c[i] /\ \A m \in 1..(i - 1) : a[m] = c[m]
        BY <2>1, <2>2, <3>1
      <3> QED BY <3>2 DEF Above
    <2>4. CASE j < i
      <3>1. j \in 1..(i - 1) /\ 1..(j - 1) \subseteq 1..(i - 1)
        BY <2>4
      <3>2. a[j] > c[j] /\ \A m \in 1..(j - 1) : a[m] = c[m]
        BY <2>1, <2>2, <3>1
      <3> QED BY <3>2 DEF Above
    <2>5. CASE i = j
      <3>1. a[i] \in Int /\ b[i] \in Int /\ c[i] \in Int
        OBVIOUS
      <3>2. a[i] > c[i] /\ \A m \in 1..(i - 1) : a[m] = c[m]
        BY <2>1, <2>2, <2>5, <3>1
      <3> QED BY <3>2 DEF Above
    <2> QED BY <2>3, <2>4, <2>5
  <1>3. ASSUME a # b PROVE Above(a, b) \/ Above(b, a)
    <2> DEFINE D == {n \in 1..N : a[n] # b[n]}
    <2>a. \E n \in 1..N : a[n] # b[n]
      <3> SUFFICES ASSUME \A n \in 1..N : a[n] = b[n] PROVE a = b
        BY <1>3
      <3> QED OBVIOUS
    <2>b. PICK k \in 1..N : a[k] # b[k]
      BY <2>a
    <2>c. k \in D
      BY <2>b
    <2>1. D \in SUBSET Nat /\ D # {}
      <3>1. \A n \in 1..N : n \in Nat
        OBVIOUS
      <3>2. D \subseteq 1..N
        OBVIOUS
      <3> HIDE DEF D
      <3> QED BY <2>c, <3>1, <3>2
    <2>2. PICK n \in D : \A l \in D : n <= l
      BY <2>1, LeastNumber
    <2>3. n \in 1..N /\ a[n] # b[n] /\ a[n] \in Int /\ b[n] \in Int
      OBVIOUS
    <2>4. \A m \in 1..(n - 1) : a[m] = b[m]
      BY <2>2, <2>3
    <2>5. \A m \in 1..(n - 1) : b[m] = a[m]
      BY <2>4
    <2>6. DOMAIN a = 1..N /\ DOMAIN b = 1..N
      OBVIOUS
    <2>7. a[n] > b[n] \/ b[n] > a[n]
      BY <2>3
    <2>8. CASE a[n] > b[n]
      <3>1. n \in DOMAIN a
        BY <2>3, <2>6
      <3> QED BY <2>4, <2>8, <3>1 DEF Above
    <2>9. CASE b[n] > a[n]
      <3>1. n \in DOMAIN b
        BY <2>3, <2>6
      <3> QED BY <2>5, <2>9, <3>1 DEF Above
    <2> QED BY <2>7, <2>8, <2>9
  <1> QED BY <1>1, <1>2, <1>3

-----------------------------------------------------------------------------
(* Sequences of moves.                                                       *)

\* The moves of a comparison: both sides, parts of a group, and apart.
MovesFit ==
    /\ \A g \in moves : /\ g \in GroupRecords /\ BothSides(g)
                        /\ \E h \in groups : g.dels \subseteq h.dels /\ g.inss \subseteq h.inss
    /\ Separate(moves)

\* A link is a pair of reliable children and makes up a move of its own.
LEMMA LinkIs ==
    ASSUME registry \in Comparisons, MovesFit, NEW e \in Links
    PROVE  /\ e = <<e[1], e[2]>> /\ e[1] \in Deleted /\ e[2] \in Inserted
           /\ \A s \in {1, 2} : e[s] \in registry.steady /\ e[s] \in Candidate
           /\ Couple(e) \in moves
  <1>1. PICK g \in moves : Unique(g) /\ e \in g.dels \X g.inss
    BY DEF Links
  <1>2. g \in GroupRecords /\ g.dels \subseteq Deleted /\ g.inss \subseteq Inserted
    BY <1>1 DEF MovesFit, GroupRecords
  <1>3. e = <<e[1], e[2]>> /\ e[1] \in g.dels /\ e[2] \in g.inss
    BY <1>1
  <1>4. g.dels \in SUBSET Candidate /\ g.inss \in SUBSET Candidate
    BY <1>2, RegistryAssumption DEF Inserted
  <1>5. g.dels = {e[1]} /\ g.inss = {e[2]}
    BY <1>1, <1>3, <1>4, OneCandidate DEF Unique, Single
  <1>6. g = [dels |-> g.dels, inss |-> g.inss, copy |-> g.copy, residual |-> g.residual]
    BY <1>2 DEF GroupRecords
  <1>7. g.copy = FALSE /\ g.residual = FALSE
    BY <1>1, <1>2 DEF Unique, GroupRecords
  <1>8. g = Couple(e)
    BY <1>5, <1>6, <1>7 DEF Couple, Group
  <1>9. e[1] \in registry.steady /\ e[2] \in registry.steady
    BY DEF Links
  <1> QED BY <1>1, <1>2, <1>3, <1>4, <1>8, <1>9

\* Links of one place are one link: their moves would nest.
LEMMA OneLinkAtAPlace ==
    ASSUME registry \in Comparisons, MovesFit, NEW e \in Links, NEW f \in Links, NEW s \in {1, 2},
           Parent[e[s]] = Parent[f[s]], Ordinal[e[s]] = Ordinal[f[s]]
    PROVE  e = f
  <1>1. /\ e[s] \in registry.steady /\ f[s] \in registry.steady
        /\ e[s] \in Candidate /\ f[s] \in Candidate
        /\ Couple(e) \in moves /\ Couple(f) \in moves
        /\ e = <<e[1], e[2]>> /\ f = <<f[1], f[2]>>
    BY LinkIs
  <1>2. SameSide(e[s], f[s]) /\ Lo[e[s]] = Lo[f[s]] /\ Hi[e[s]] = Hi[f[s]]
    BY <1>1, ComparisonAssumption
  <1>3. Lo[e[s]] \in Nat /\ Hi[e[s]] \in Nat
    BY <1>1, RegistryAssumption
  <1>4. Within(e[s], f[s])
    BY <1>2, <1>3 DEF Within
  <1>5. e[s] \in Couple(e).dels \cup Couple(e).inss /\ f[s] \in Couple(f).dels \cup Couple(f).inss
    BY CoupleIs
  <1>6. Couple(e) = Couple(f)
    BY <1>1, <1>4, <1>5 DEF MovesFit, Separate
  <1>7. {e[1]} = {f[1]} /\ {e[2]} = {f[2]}
    BY <1>6, CoupleIs
  <1> QED BY <1>1, <1>7

LEMMA CouplesDiffer ==
    ASSUME registry \in Comparisons, MovesFit, NEW e \in Links, NEW f \in Links, Couple(e) = Couple(f)
    PROVE  e = f
  <1>1. e = <<e[1], e[2]>> /\ f = <<f[1], f[2]>>
    BY LinkIs
  <1>2. {e[1]} = {f[1]} /\ {e[2]} = {f[2]}
    BY CoupleIs
  <1> QED BY <1>1, <1>2

\* The order of the links is strict and total.
LEMMA LinksAreOrdered ==
    ASSUME registry \in Comparisons, MovesFit
    PROVE  /\ \A e \in Links : ~LinkBefore(e, e)
           /\ \A e, f, h \in Links : LinkBefore(e, f) /\ LinkBefore(f, h) => LinkBefore(e, h)
           /\ \A e, f \in Links : e = f \/ LinkBefore(e, f) \/ LinkBefore(f, e)
  <1>1. \A e \in Links : LinkKey(e) \in [1..4 -> Int]
    <2> TAKE e \in Links
    <2>1. e[1] \in Candidate /\ e[2] \in Candidate
      BY LinkIs
    <2>2. Parent[e[1]] \in Int /\ Parent[e[2]] \in Int /\ Ordinal[e[1]] \in Int /\ Ordinal[e[2]] \in Int
      BY <2>1, SiblingAssumption
    <2> QED BY <2>2 DEF LinkKey
  <1>2. \A e, f \in Links : LinkKey(e) = LinkKey(f) => e = f
    <2> TAKE e, f \in Links
    <2>1. LinkKey(e) = LinkKey(f) => Parent[e[1]] = Parent[f[1]] /\ Ordinal[e[1]] = Ordinal[f[1]]
      BY DEF LinkKey
    <2> QED BY <2>1, OneLinkAtAPlace
  <1>3. 4 \in Nat
    OBVIOUS
  <1>4. \A e \in Links : ~LinkBefore(e, e)
    BY <1>1, <1>3, AboveIsOrder DEF LinkBefore
  <1>5. \A e, f, h \in Links : LinkBefore(e, f) /\ LinkBefore(f, h) => LinkBefore(e, h)
    <2> TAKE e, f, h \in Links
    <2>1. LinkKey(e) \in [1..4 -> Int] /\ LinkKey(f) \in [1..4 -> Int] /\ LinkKey(h) \in [1..4 -> Int]
      BY <1>1
    <2> QED BY <1>3, <2>1, AboveIsOrder DEF LinkBefore
  <1>6. \A e, f \in Links : e = f \/ LinkBefore(e, f) \/ LinkBefore(f, e)
    <2> TAKE e, f \in Links
    <2>1. LinkKey(e) \in [1..4 -> Int] /\ LinkKey(f) \in [1..4 -> Int]
      BY <1>1
    <2>2. LinkKey(e) = LinkKey(f) \/ Above(LinkKey(e), LinkKey(f)) \/ Above(LinkKey(f), LinkKey(e))
      BY <1>3, <2>1, AboveIsOrder
    <2> QED BY <1>2, <2>2 DEF LinkBefore
  <1> QED BY <1>4, <1>5, <1>6

\* K keeps those of S that nothing kept excludes.
Keeps(K, S, Q) == \A c \in S : c \in K <=> ~\E k \in K : <<k, c>> \in Q

\* Going through a finite set in order and keeping what nothing kept before
\* excludes is possible in one way at least.
LEMMA Kernel ==
    ASSUME NEW S, IsFiniteSet(S), NEW R, StrictlyOrders(R, S), NEW Q, Q \subseteq R
    PROVE  \E K \in SUBSET S : Keeps(K, S, Q)
  <1> DEFINE Closed(T) == \A x \in T, y \in S : <<y, x>> \in R => y \in T
             IsKernel(K, T) == K \subseteq T /\ \A c \in T : c \in K <=> ~\E k \in K : <<k, c>> \in Q
             Bad == {T \in SUBSET S : Closed(T) /\ ~\E K \in SUBSET S : IsKernel(K, T)}
             Sizes == {Cardinality(T) : T \in Bad}
             Back == {e \in S \X S : <<e[2], e[1]>> \in R}
  <1>1. \A T \in SUBSET S : IsFiniteSet(T) /\ Cardinality(T) \in Nat
    BY FS_Subset, FS_CardinalityType
  <1>2. StrictlyOrders(Back, S)
    BY DEF StrictlyOrders
  <1>3. Bad = {}
    <2> SUFFICES ASSUME Bad # {} PROVE FALSE
      OBVIOUS
    <2>0. Bad \in SUBSET SUBSET S
      OBVIOUS
    <2>1. Sizes \in SUBSET Nat /\ Sizes # {}
      <3> HIDE DEF Bad
      <3> QED BY <1>1, <2>0
    <2>2. PICK n \in Sizes : \A k \in Sizes : n <= k
      BY <2>1, LeastNumber
    <2>3. PICK T \in Bad : n = Cardinality(T)
      BY <2>2
    <2>4. \A U \in Bad : Cardinality(T) <= Cardinality(U)
      <3> HIDE DEF Bad
      <3> QED BY <2>2, <2>3
    <2>5. T \in SUBSET S /\ Closed(T) /\ ~\E K \in SUBSET S : IsKernel(K, T)
      BY <2>3
    <2>6. T # {}
      <3> SUFFICES ASSUME T = {} PROVE FALSE
        OBVIOUS
      <3>1. IsKernel({}, T) /\ {} \in SUBSET S
        OBVIOUS
      <3> HIDE DEF IsKernel
      <3> QED BY <2>5, <3>1
    <2>7. PICK m \in T : \A y \in T : <<y, m>> \notin Back
      <3> HIDE DEF Bad, Back
      <3>1. IsFiniteSet(S) /\ T \in SUBSET S
        BY <2>5
      <3> QED BY <1>2, <2>6, <3>1, FirstMember
    <2>8. \A y \in T : <<m, y>> \notin R
      BY <2>5, <2>7
    <2> DEFINE U == T \ {m}
    <2>9. Closed(U)
      BY <2>5, <2>8
    <2>10. U \in SUBSET S /\ Cardinality(U) < Cardinality(T)
      <3>1. Cardinality(U) = Cardinality(T) - 1 /\ IsFiniteSet(U)
        BY <1>1, <2>5, FS_RemoveElement
      <3> QED BY <1>1, <2>5, <3>1
    <2>11. U \notin Bad
      <3>1. Cardinality(U) \in Nat /\ Cardinality(T) \in Nat
        BY <1>1, <2>5, <2>10
      <3> HIDE DEF Bad, U
      <3> QED BY <2>4, <2>10, <3>1
    <2>12. PICK K \in SUBSET S : IsKernel(K, U)
      BY <2>9, <2>10, <2>11
    <2>13. CASE \E k \in K : <<k, m>> \in Q
      <3>1. IsKernel(K, T)
        BY <2>12, <2>13
      <3> QED BY <2>5, <3>1
    <2>14. CASE ~\E k \in K : <<k, m>> \in Q
      <3>1. \A c \in T : <<m, c>> \notin Q
        BY <2>8
      <3>2. IsKernel(K \cup {m}, T)
        BY <2>12, <2>14, <3>1
      <3>3. K \cup {m} \in SUBSET S
        BY <2>5
      <3> QED BY <2>5, <3>2, <3>3
    <2> QED BY <2>13, <2>14
  <1>4. Closed(S) /\ S \in SUBSET S
    OBVIOUS
  <1>5. PICK K \in SUBSET S : IsKernel(K, S)
    BY <1>3, <1>4
  <1> QED BY <1>5 DEF Keeps

SpanOrder == {e \in Candidate \X Candidate : SpanLess(e[1], e[2])}

LEMMA SpansAreOrdered ==
    ASSUME NEW S \in SUBSET Candidate
    PROVE  /\ IsFiniteSet(S) /\ StrictlyOrders(SpanOrder, S)
           /\ \A c, d \in S : <<c, d>> \in SpanOrder <=> SpanLess(c, d)
           /\ \A c, d \in S : c = d \/ SpanLess(c, d) \/ SpanLess(d, c)
  <1>1. \A c \in Candidate : Span(c) \in Int /\ c \in Int
    BY RegistryAssumption DEF Span
  <1>2. \A c, d \in S : <<c, d>> \in SpanOrder <=> SpanLess(c, d)
    BY DEF SpanOrder
  <1>3. \A c, d \in S : c = d \/ SpanLess(c, d) \/ SpanLess(d, c)
    BY <1>1 DEF SpanLess
  <1>4. \A c \in S : ~SpanLess(c, c)
    BY <1>1 DEF SpanLess
  <1>5. \A c, d, e \in S : SpanLess(c, d) /\ SpanLess(d, e) => SpanLess(c, e)
    BY <1>1 DEF SpanLess
  <1>6. StrictlyOrders(SpanOrder, S)
    BY <1>2, <1>4, <1>5 DEF StrictlyOrders
  <1> QED BY <1>2, <1>3, <1>6, RegistryAssumption, FS_Subset

\* The endpoints that are kept are some of them, do not overlap, and are none
\* only if there were none (non_overlapping_exact_endpoints).
LEMMA Kept ==
    ASSUME NEW S \in SUBSET Candidate
    PROVE  /\ NonOverlapping(S) \subseteq S
           /\ S # {} => NonOverlapping(S) # {}
           /\ \A c, d \in NonOverlapping(S) : c # d => ~Overlap(c, d)
  <1> DEFINE Q == {e \in SpanOrder : Overlap(e[2], e[1])}
             Fits(K) == \A c \in S : c \in K <=> ~\E k \in K : SpanLess(k, c) /\ Overlap(c, k)
  <1>1. \A c, d \in S : <<c, d>> \in Q <=> SpanLess(c, d) /\ Overlap(d, c)
    BY SpansAreOrdered
  <1>2. PICK K \in SUBSET S : Keeps(K, S, Q)
    <2>1. Q \subseteq SpanOrder /\ IsFiniteSet(S) /\ StrictlyOrders(SpanOrder, S)
      BY SpansAreOrdered
    <2> HIDE DEF Q
    <2> QED BY <2>1, Kernel
  <1>3. Fits(K)
    <2> HIDE DEF Q
    <2> QED BY <1>1, <1>2 DEF Keeps
  <1>4. NonOverlapping(S) \in SUBSET S /\ Fits(NonOverlapping(S))
    BY <1>3 DEF NonOverlapping
  <1>5. ASSUME S # {} PROVE NonOverlapping(S) # {}
    <2>1. PICK c \in S : \A d \in S : ~(<<d, c>> \in SpanOrder)
      BY <1>5, SpansAreOrdered, FirstMember
    <2> QED BY <1>4, <2>1, SpansAreOrdered
  <1>6. ASSUME NEW c \in NonOverlapping(S), NEW d \in NonOverlapping(S), c # d PROVE ~Overlap(c, d)
    <2>1. Overlap(c, d) <=> Overlap(d, c)
      BY DEF Overlap, SameSide
    <2>2. SpanLess(c, d) \/ SpanLess(d, c)
      BY <1>4, <1>6, SpansAreOrdered
    <2> QED BY <1>4, <2>1, <2>2
  <1> QED BY <1>4, <1>5, <1>6

RunOf(e) == {f \in Links : \A b \in Beginnings(Links) : LinkBefore(e, b) <=> LinkBefore(f, b)}
MovesOf(L) == {Couple(f) : f \in L}

LEMMA SequencesAre ==
    \A R : R \in Sequences <=>
        \E e \in Links : Cardinality(RunOf(e)) >= 2 /\ R = MovesOf(RunOf(e))
  BY DEF Sequences, RunOf, MovesOf

\* A link that comes before another in the order of the comparison.
LEMMA BeforeMeans ==
    ASSUME registry \in Comparisons, MovesFit, NEW e \in Links, NEW f \in Links
    PROVE  /\ LinkBefore(e, f) =>
                \/ Parent[e[1]] < Parent[f[1]]
                \/ /\ Parent[e[1]] = Parent[f[1]]
                   /\ \/ Parent[e[2]] < Parent[f[2]]
                      \/ Parent[e[2]] = Parent[f[2]] /\ Ordinal[e[1]] <= Ordinal[f[1]]
           /\ /\ Parent[e[1]] = Parent[f[1]] /\ Parent[e[2]] = Parent[f[2]]
              /\ Ordinal[e[1]] < Ordinal[f[1]]
              => LinkBefore(e, f)
  <1> DEFINE a == LinkKey(f)
             b == LinkKey(e)
  <1>1. e[1] \in Candidate /\ e[2] \in Candidate /\ f[1] \in Candidate /\ f[2] \in Candidate
    BY LinkIs
  <1>2. /\ a[1] = Parent[f[1]] /\ a[2] = Parent[f[2]] /\ a[3] = Ordinal[f[1]] /\ a[4] = Ordinal[f[2]]
        /\ b[1] = Parent[e[1]] /\ b[2] = Parent[e[2]] /\ b[3] = Ordinal[e[1]] /\ b[4] = Ordinal[e[2]]
        /\ DOMAIN a = {1, 2, 3, 4}
    BY DEF LinkKey
  <1>3. \A n \in 1..4 : a[n] \in Int /\ b[n] \in Int
    BY <1>1, <1>2, SiblingAssumption
  <1>4. LinkBefore(e, f) <=> Above(a, b)
    BY DEF LinkBefore
  <1> HIDE DEF a, b
  <1>5. Above(a, b) <=> \E n \in {1, 2, 3, 4} : a[n] > b[n] /\ \A m \in 1..(n - 1) : a[m] = b[m]
    BY <1>2 DEF Above
  <1>6. Above(a, b) => \/ b[1] < a[1]
                       \/ b[1] = a[1] /\ (b[2] < a[2] \/ (b[2] = a[2] /\ b[3] <= a[3]))
    <2> SUFFICES ASSUME NEW n \in {1, 2, 3, 4}, a[n] > b[n], \A m \in 1..(n - 1) : a[m] = b[m]
                 PROVE  \/ b[1] < a[1]
                        \/ b[1] = a[1] /\ (b[2] < a[2] \/ (b[2] = a[2] /\ b[3] <= a[3]))
      BY <1>5
    <2>1. \A m \in {1, 2, 3} : n > m => m \in 1..(n - 1)
      OBVIOUS
    <2>2. \A m \in {1, 2, 3} : n > m => a[m] = b[m]
      BY <2>1
    <2> QED BY <1>3, <2>2
  <1>7. b[1] = a[1] /\ b[2] = a[2] /\ b[3] < a[3] => Above(a, b)
    <2> SUFFICES ASSUME b[1] = a[1], b[2] = a[2], b[3] < a[3]
                 PROVE  a[3] > b[3] /\ \A m \in 1..(3 - 1) : a[m] = b[m]
      BY <1>5
    <2>1. \A m \in 1..(3 - 1) : m = 1 \/ m = 2
      OBVIOUS
    <2> QED BY <1>3, <2>1
  <1> QED BY <1>2, <1>4, <1>6, <1>7

\* Children that follow one another on both sides follow one another in the
\* order of the comparison.
LEMMA NextFollows ==
    ASSUME registry \in Comparisons, MovesFit, NEW e \in Links, NEW f \in Links, NextTo(e, f)
    PROVE  Precedes(Links, e, f) /\ Consecutive(e, f)
  <1>1. /\ \A s \in {1, 2} : /\ Parent[e[s]] = Parent[f[s]] /\ Ordinal[f[s]] = Ordinal[e[s]] + 1
                             /\ e[s] \in registry.steady /\ f[s] \in registry.steady
                             /\ e[s] \in Candidate /\ f[s] \in Candidate
                             /\ Ordinal[e[s]] \in Int /\ Parent[e[s]] \in Int
    BY LinkIs, SiblingAssumption DEF NextTo
  <1>2. LinkBefore(e, f)
    <2>1. Ordinal[e[1]] < Ordinal[f[1]]
      BY <1>1
    <2> QED BY <1>1, <2>1, BeforeMeans
  <1>3. ASSUME NEW h \in Links, LinkBefore(e, h), LinkBefore(h, f) PROVE FALSE
    <2>1. h[1] \in Candidate /\ h[2] \in Candidate
      BY LinkIs
    <2>2. Ordinal[h[1]] \in Int /\ Parent[h[1]] \in Int /\ Parent[h[2]] \in Int
      BY <2>1, SiblingAssumption
    <2>3. \/ Parent[e[1]] < Parent[h[1]]
          \/ /\ Parent[e[1]] = Parent[h[1]]
             /\ \/ Parent[e[2]] < Parent[h[2]]
                \/ Parent[e[2]] = Parent[h[2]] /\ Ordinal[e[1]] <= Ordinal[h[1]]
      BY <1>3, BeforeMeans
    <2>4. \/ Parent[h[1]] < Parent[f[1]]
          \/ /\ Parent[h[1]] = Parent[f[1]]
             /\ \/ Parent[h[2]] < Parent[f[2]]
                \/ Parent[h[2]] = Parent[f[2]] /\ Ordinal[h[1]] <= Ordinal[f[1]]
      BY <1>3, BeforeMeans
    <2>5. /\ Parent[h[1]] = Parent[e[1]] /\ Parent[h[2]] = Parent[e[2]]
          /\ Ordinal[h[1]] = Ordinal[e[1]] \/ Ordinal[h[1]] = Ordinal[f[1]]
      BY <1>1, <2>2, <2>3, <2>4
    <2>6. h = e \/ h = f
      BY <1>1, <2>5, OneLinkAtAPlace
    <2> QED BY <1>3, <2>6, LinksAreOrdered
  <1>4. \A s \in {1, 2} : Hi[e[s]] < Lo[f[s]]
    <2> TAKE s \in {1, 2}
    <2>1. Ordinal[e[s]] < Ordinal[f[s]]
      BY <1>1
    <2> QED BY <1>1, <2>1, ComparisonAssumption
  <1>5. Consecutive(e, f)
    BY <1>1, <1>4 DEF Consecutive
  <1> QED BY <1>2, <1>3, <1>5 DEF Precedes

\* A link that follows the one before it is in its run.
LEMMA OneRun ==
    ASSUME registry \in Comparisons, MovesFit, NEW e \in Links, NEW f \in Links,
           Precedes(Links, e, f), Consecutive(e, f)
    PROVE  RunOf(f) = RunOf(e) /\ e \in RunOf(e) /\ f \in RunOf(e)
  <1>1. f \notin Beginnings(Links)
    BY DEF Beginnings
  <1>2. \A b \in Beginnings(Links) : b \in Links /\ b # f
    BY <1>1 DEF Beginnings
  <1>3. LinkBefore(e, f) /\ \A h \in Links : ~(LinkBefore(e, h) /\ LinkBefore(h, f))
    BY DEF Precedes
  <1>4. \A b \in Beginnings(Links) : LinkBefore(e, b) <=> LinkBefore(f, b)
    BY <1>2, <1>3, LinksAreOrdered
  <1> QED BY <1>4 DEF RunOf

LEMMA RunsApart ==
    \A e, f \in Links : /\ e \in RunOf(e) /\ RunOf(e) \subseteq Links
                        /\ f \in RunOf(e) => RunOf(f) = RunOf(e)
  BY DEF RunOf

LEMMA LinksFinite ==
    ASSUME registry \in Comparisons, MovesFit
    PROVE  IsFiniteSet(Links)
  <1>1. IsFiniteSet(Candidate \X Candidate)
    BY RegistryAssumption, FS_Product
  <1>2. Links \subseteq Candidate \X Candidate
    BY LinkIs
  <1> QED BY <1>1, <1>2, FS_Subset

\* In a run of two or more, everyone has a neighbour.
LEMMA RunNeighbour ==
    ASSUME registry \in Comparisons, MovesFit, NEW e \in Links,
           NEW x \in RunOf(e), NEW y \in RunOf(e), x # y
    PROVE  \E v, w \in RunOf(e) : Precedes(Links, v, w) /\ Consecutive(v, w) /\ x \in {v, w}
  <1>1. x \in Links /\ y \in Links /\ RunOf(x) = RunOf(e) /\ RunOf(y) = RunOf(e)
    BY RunsApart
  <1>2. \A b \in Beginnings(Links) : LinkBefore(x, b) <=> LinkBefore(y, b)
    BY <1>1 DEF RunOf
  <1>3. CASE LinkBefore(y, x)
    <2>1. x \notin Beginnings(Links)
      BY <1>1, <1>2, <1>3, LinksAreOrdered
    <2>2. PICK w \in Links : Precedes(Links, w, x) /\ Consecutive(w, x)
      BY <1>1, <2>1 DEF Beginnings
    <2>3. RunOf(x) = RunOf(w) /\ w \in RunOf(w)
      BY <1>1, <2>2, OneRun
    <2> QED BY <1>1, <2>2, <2>3
  <1>4. CASE LinkBefore(x, y)
    <2> DEFINE T == {h \in Links : LinkBefore(x, h)}
               R == {p \in Links \X Links : LinkBefore(p[1], p[2])}
    <2>1. StrictlyOrders(R, Links) /\ \A h, k \in Links : <<h, k>> \in R <=> LinkBefore(h, k)
      BY LinksAreOrdered DEF StrictlyOrders
    <2>2. y \in T /\ T \in SUBSET Links
      BY <1>1, <1>4
    <2>3. PICK z \in T : \A h \in T : <<h, z>> \notin R
      <3> HIDE DEF T, R
      <3> QED BY <2>1, <2>2, LinksFinite, FirstMember
    <2>4. z \in Links /\ LinkBefore(x, z) /\ \A h \in Links : LinkBefore(x, h) => ~LinkBefore(h, z)
      BY <2>1, <2>3
    <2>5. z \notin Beginnings(Links)
      BY <1>1, <1>2, <1>4, <2>4
    <2>6. PICK w \in Links : Precedes(Links, w, z) /\ Consecutive(w, z)
      BY <2>4, <2>5 DEF Beginnings
    <2>7. w = x
      BY <1>1, <2>4, <2>6, LinksAreOrdered DEF Precedes
    <2>8. z \in RunOf(x) /\ x \in RunOf(x)
      BY <2>4, <2>6, <2>7, OneRun
    <2> QED BY <1>1, <2>6, <2>7, <2>8
  <1> QED BY <1>1, <1>3, <1>4, LinksAreOrdered

Reported == Sequences \cup {{g} : g \in moves \ UNION Sequences}

\* A move is in one sequence, or alone in its report.
LEMMA EachMoveOnce ==
    ASSUME registry \in Comparisons, MovesFit, NEW g \in moves
    PROVE  \E R : {X \in Reported : g \in X} = {R}
  <1>1. CASE g \notin UNION Sequences
    <2>1. {X \in Reported : g \in X} = {{g}}
      BY <1>1 DEF Reported
    <2> QED BY <2>1
  <1>2. CASE g \in UNION Sequences
    <2>1. PICK R \in Sequences : g \in R
      BY <1>2
    <2>2. PICK e \in Links : R = MovesOf(RunOf(e))
      BY SequencesAre
    <2>3. PICK x \in RunOf(e) : g = Couple(x)
      BY <2>1, <2>2 DEF MovesOf
    <2>4. ASSUME NEW X \in Reported, g \in X PROVE X = R
      <3>1. X \in Sequences
        BY <1>2, <2>4 DEF Reported
      <3>2. PICK f \in Links : X = MovesOf(RunOf(f))
        BY <3>1, SequencesAre
      <3>3. PICK y \in RunOf(f) : g = Couple(y)
        BY <2>4, <3>2 DEF MovesOf
      <3>4. x \in Links /\ y \in Links /\ RunOf(x) = RunOf(e) /\ RunOf(y) = RunOf(f)
        BY <2>3, <3>3, RunsApart
      <3>5. x = y
        BY <2>3, <3>3, <3>4, CouplesDiffer
      <3> QED BY <2>2, <3>2, <3>4, <3>5
    <2>5. {X \in Reported : g \in X} = {R}
      BY <2>1, <2>4 DEF Reported
    <2> QED BY <2>5
  <1> QED BY <1>1, <1>2

LEMMA RunSizes ==
    ASSUME registry \in Comparisons, MovesFit, NEW e \in Links
    PROVE  /\ Cardinality(RunOf(e)) >= 2 <=> \E x, y \in RunOf(e) : x # y
           /\ \A g : Cardinality({g}) = 1
  <1>1. IsFiniteSet(RunOf(e)) /\ e \in RunOf(e)
    BY RunsApart, LinksFinite, FS_Subset
  <1>2. Cardinality(RunOf(e)) \in Nat
    BY <1>1, FS_CardinalityType
  <1>3. ASSUME NEW x \in RunOf(e), NEW y \in RunOf(e), x # y PROVE Cardinality(RunOf(e)) >= 2
    <2>1. {x, y} \subseteq RunOf(e) /\ {x, y} = {x} \cup {y}
      OBVIOUS
    <2>2. IsFiniteSet({x}) /\ Cardinality({x}) = 1
      BY FS_Singleton
    <2>3. Cardinality({x} \cup {y}) = 2
      BY <1>3, <2>2, FS_AddElement
    <2>4. Cardinality({x, y}) <= Cardinality(RunOf(e))
      BY <1>1, <2>1, FS_Subset
    <2> QED BY <1>2, <2>1, <2>3, <2>4
  <1>4. ASSUME Cardinality(RunOf(e)) >= 2 PROVE \E x, y \in RunOf(e) : x # y
    <2>1. CASE RunOf(e) = {e}
      BY <1>4, <2>1, FS_Singleton
    <2> QED BY <1>1, <2>1
  <1> QED BY <1>3, <1>4, FS_Singleton

\* Pairs of children that follow one another are in one sequence.
LEMMA NeighboursTogether ==
    ASSUME registry \in Comparisons, MovesFit, NEW e \in Links, NEW f \in Links, NextTo(e, f)
    PROVE  \E R \in Reported : {Couple(e), Couple(f)} \subseteq R
  <1>1. e \in RunOf(e) /\ f \in RunOf(e)
    BY NextFollows, OneRun
  <1>2. e # f
    BY NextFollows, LinksAreOrdered DEF Precedes
  <1>3. MovesOf(RunOf(e)) \in Sequences
    BY <1>1, <1>2, RunSizes, SequencesAre
  <1>4. Couple(e) \in MovesOf(RunOf(e)) /\ Couple(f) \in MovesOf(RunOf(e))
    BY <1>1 DEF MovesOf
  <1> QED BY <1>3, <1>4 DEF Reported

\* No move is in a sequence without a neighbour.
LEMMA TogetherIsNext ==
    ASSUME registry \in Comparisons, MovesFit, NEW R \in Reported, Cardinality(R) > 1, NEW g \in R
    PROVE  \E e, f \in Links : /\ NextTo(e, f) /\ g \in {Couple(e), Couple(f)}
                               /\ {Couple(e), Couple(f)} \subseteq R
  <1>1. R \in Sequences
    <2> SUFFICES ASSUME NEW h, R = {h} PROVE FALSE
      BY DEF Reported
    <2> QED BY FS_Singleton
  <1>2. PICK x \in Links : Cardinality(RunOf(x)) >= 2 /\ R = MovesOf(RunOf(x))
    BY <1>1, SequencesAre
  <1>3. PICK y \in RunOf(x) : g = Couple(y)
    BY <1>2 DEF MovesOf
  <1>4. PICK z \in RunOf(x) : z # y
    BY <1>2, RunSizes
  <1>5. PICK v, w \in RunOf(x) : Precedes(Links, v, w) /\ Consecutive(v, w) /\ y \in {v, w}
    BY <1>3, <1>4, RunNeighbour
  <1>6. v \in Links /\ w \in Links
    BY <1>5, RunsApart
  <1>7. NextTo(v, w)
    BY <1>5 DEF Consecutive, NextTo
  <1>8. Couple(v) \in R /\ Couple(w) \in R
    BY <1>2 DEF MovesOf
  <1> QED BY <1>3, <1>5, <1>6, <1>7, <1>8

LEMMA AllReported ==
    ASSUME registry \in Comparisons, MovesFit, reports = Reported
    PROVE  ReportedOnce /\ reports \subseteq SUBSET moves
  <1>1. \A g \in moves : Cardinality({X \in reports : g \in X}) = 1
    <2> TAKE g \in moves
    <2>1. PICK R : {X \in Reported : g \in X} = {R}
      BY EachMoveOnce
    <2> QED BY <2>1, FS_Singleton
  <1>2. ASSUME NEW X \in reports PROVE X \subseteq moves
    <2>1. CASE X \in Sequences
      <3>1. PICK e \in Links : X = MovesOf(RunOf(e))
        BY <2>1, SequencesAre
      <3> QED BY <3>1, RunsApart, LinkIs DEF MovesOf
    <2> QED BY <2>1 DEF Reported
  <1> QED BY <1>1, <1>2, NeighboursTogether, TogetherIsNext DEF ReportedOnce

SequenceInv ==
    /\ phase \in {"refine", "follow", "select", "report", "done"}
    /\ \A g \in groups : g \in GroupRecords
    /\ pairs \subseteq Deleted \X Inserted /\ stable \subseteq Deleted \X Inserted
    /\ \A c \in suppressed : Role[c] = "single_child_wrapper"
    /\ phase \in {"refine", "follow", "select"} => moves = {}
    /\ MovesFit
    /\ phase = "done" => reports = Reported
    /\ phase # "done" => reports = {}

LEMMA SequenceStarts == SiblingInit => SequenceInv
  BY DEF SiblingInit, SequenceInv, MovesFit, Separate

LEMMA SequenceRefines ==
    ASSUME SequenceInv, SiblingInv, SiblingInv', Refine
    PROVE  SequenceInv'
  <1>1. /\ phase = "refine" /\ phase' = "follow" /\ registry' = registry /\ registry \in Comparisons
        /\ suppressed' = suppressed /\ moves' = moves /\ reports' = reports
    BY DEF SiblingInv, Refine
  <1>2. moves = {} /\ reports = {} /\ \A c \in suppressed : Role[c] = "single_child_wrapper"
    BY <1>1 DEF SequenceInv
  <1>3. (\A g \in groups : g \in GroupRecords)' /\ pairs' \subseteq Deleted \X Inserted
    BY <1>1 DEF SiblingInv, GroupsSettled, Sound, Matching
  <1>4. stable' \subseteq pairs'
    BY DEF Refine
  <1>5. MovesFit'
    BY <1>1, <1>2 DEF MovesFit, Separate
  <1> QED BY <1>1, <1>2, <1>3, <1>4, <1>5 DEF SequenceInv

LEMMA SequenceFollows ==
    ASSUME SequenceInv, SiblingInv, SiblingInv', Follow
    PROVE  SequenceInv'
  <1>1. /\ phase = "follow" /\ phase' = "select" /\ registry' = registry /\ registry \in Comparisons
        /\ pairs' = pairs /\ moves' = moves /\ reports' = reports
    BY DEF SiblingInv, Follow
  <1>2. /\ moves = {} /\ reports = {}
        /\ pairs \subseteq Deleted \X Inserted /\ stable \subseteq Deleted \X Inserted
    BY <1>1 DEF SequenceInv
  <1>3. (\A g \in groups : g \in GroupRecords)'
    BY <1>1 DEF SiblingInv, GroupsSettled, Sound
  <1>4. \A g \in groups : Sound(g)
    BY <1>1 DEF SiblingInv, GroupsSettled
  <1>5. stable' \subseteq Deleted \X Inserted
    <2>1. \A e \in stable' : e \in stable \/ \E g \in groups : e \in WrapperPairs(registry, pairs, g)
      BY DEF Follow
    <2> QED BY <1>2, <1>4, <2>1, WrapperPairIs
  <1>6. \A c \in suppressed' : Role[c] = "single_child_wrapper"
    <2>1. \A c \in suppressed' : \E g \in groups : c \in Aliases(registry, pairs, g)
      BY DEF Follow, LoneWrappers
    <2>2. \A c \in suppressed' : \E x : x \in AliasOf(registry, pairs, c)
      BY <2>1 DEF Aliases
    <2> QED BY <2>2, AliasIs
  <1>7. MovesFit'
    BY <1>1, <1>2 DEF MovesFit, Separate
  <1> QED BY <1>1, <1>2, <1>3, <1>5, <1>6, <1>7 DEF SequenceInv

\* What is selected of a group is a part of it with both sides.
LEMMA ReducedIs ==
    ASSUME NEW g \in GroupRecords, BothSides(g)
    PROVE  /\ Reduced(g) \in GroupRecords /\ BothSides(Reduced(g))
           /\ Reduced(g).dels \subseteq g.dels /\ Reduced(g).inss \subseteq g.inss
  <1>1. /\ g.dels \in SUBSET Deleted /\ g.inss \in SUBSET Inserted
        /\ g.copy \in BOOLEAN /\ g.residual \in BOOLEAN
    BY DEF GroupRecords
  <1>2. CASE Single(g)
    BY <1>2 DEF Reduced
  <1>3. CASE ~Single(g)
    <2>1. /\ Reduced(g) = [dels |-> NonOverlapping(g.dels), inss |-> NonOverlapping(g.inss),
                           copy |-> g.copy, residual |-> g.residual]
          /\ Reduced(g).dels = NonOverlapping(g.dels) /\ Reduced(g).inss = NonOverlapping(g.inss)
      BY <1>3 DEF Reduced
    <2>2. g.dels \in SUBSET Candidate /\ g.inss \in SUBSET Candidate
      BY <1>1, RegistryAssumption DEF Inserted
    <2>3. /\ NonOverlapping(g.dels) \subseteq g.dels /\ NonOverlapping(g.dels) # {}
          /\ NonOverlapping(g.inss) \subseteq g.inss /\ NonOverlapping(g.inss) # {}
      BY <2>2, Kept DEF BothSides
    <2>4. NonOverlapping(g.dels) \in SUBSET Deleted /\ NonOverlapping(g.inss) \in SUBSET Inserted
      BY <1>1, <2>3
    <2>5. Reduced(g) \in GroupRecords
      BY <1>1, <2>1, <2>4, IsRecord
    <2> QED BY <2>1, <2>3, <2>5 DEF BothSides
  <1> QED BY <1>2, <1>3

LEMMA SequenceChooses ==
    ASSUME SequenceInv, ChooseMoves
    PROVE  SequenceInv'
  <1>1. /\ phase = "select" /\ phase' = "report" /\ registry' = registry /\ groups' = groups
        /\ pairs' = pairs /\ stable' = stable /\ suppressed' = suppressed /\ reports' = reports
    BY DEF ChooseMoves
  <1>2. PICK S \in SUBSET {Reduced(g) : g \in {h \in groups : Proposed(h)}} : Separate(S) /\ moves' = S
    BY DEF ChooseMoves
  <1>3. \A g \in S : \E h \in groups : g = Reduced(h) /\ BothSides(h) /\ h \in GroupRecords
    BY DEF Proposed, SequenceInv
  <1>4. \A g \in S : /\ g \in GroupRecords /\ BothSides(g)
                     /\ \E h \in groups : g.dels \subseteq h.dels /\ g.inss \subseteq h.inss
    BY <1>3, ReducedIs
  <1>5. MovesFit'
    BY <1>1, <1>2, <1>4 DEF MovesFit, Separate, BothSides
  <1> QED BY <1>1, <1>5 DEF SequenceInv

LEMMA SameMoves ==
    ASSUME UNCHANGED <<registry, moves>>
    PROVE  Reported' = Reported
  <1>1. Links' = Links
    BY DEF Links, Unique
  <1>2. Sequences' = Sequences
    BY <1>1 DEF Sequences
  <1> QED BY <1>2 DEF Reported

LEMMA SequenceReports ==
    ASSUME SequenceInv, Report
    PROVE  SequenceInv'
  <1>1. /\ phase = "report" /\ phase' = "done" /\ registry' = registry /\ groups' = groups
        /\ pairs' = pairs /\ stable' = stable /\ suppressed' = suppressed /\ moves' = moves
        /\ reports' = Reported
    BY DEF Report, Reported
  <1>2. Reported' = Reported
    BY <1>1, SameMoves
  <1>3. MovesFit'
    BY <1>1 DEF SequenceInv, MovesFit, Separate
  <1> QED BY <1>1, <1>2, <1>3 DEF SequenceInv

LEMMA SequenceStays ==
    ASSUME SequenceInv, UNCHANGED siblingVars
    PROVE  SequenceInv'
  <1>1. /\ phase' = phase /\ registry' = registry /\ groups' = groups
        /\ pairs' = pairs /\ stable' = stable /\ suppressed' = suppressed /\ moves' = moves
        /\ reports' = reports
    BY DEF siblingVars
  <1>2. Reported' = Reported
    BY <1>1, SameMoves
  <1>3. MovesFit'
    BY <1>1 DEF SequenceInv, MovesFit, Separate
  <1> QED BY <1>1, <1>2, <1>3 DEF SequenceInv

LEMMA SequenceSteps ==
    SequenceInv /\ SiblingInv /\ SiblingInv' /\ [SiblingNext]_siblingVars => SequenceInv'
  BY SequenceRefines, SequenceFollows, SequenceChooses, SequenceReports, SequenceStays DEF SiblingNext

LEMMA SequenceReported == SiblingInv /\ SequenceInv => ReportedOnceTogether
  <1> SUFFICES ASSUME SiblingInv, SequenceInv PROVE RecordsTyped /\ ReportedOnce
    BY DEF ReportedOnceTogether
  <1>1. registry \in Comparisons /\ MovesFit
    BY DEF SiblingInv, SequenceInv
  <1>2. reports \subseteq SUBSET moves /\ ReportedOnce
    BY <1>1, AllReported DEF SequenceInv, ReportedOnce
  <1>3. \A g \in moves : /\ BothSides(g)
                         /\ \E h \in groups : g.dels \subseteq h.dels /\ g.inss \subseteq h.inss
    BY <1>1 DEF MovesFit
  <1>4. groups \subseteq GroupRecords /\ pairs \cup stable \subseteq Deleted \X Inserted
    BY DEF SequenceInv
  <1> QED BY <1>2, <1>3, <1>4 DEF RecordsTyped, SequenceInv, GroupRecords

\* Whatever moves are selected, each is reported once, children that follow one
\* another are reported together and no others are (build_move_sequences,
\* build_reported_moves).
THEOREM ReportedAlwaysOnce == SiblingSpec => []ReportedOnceTogether
  <1>1. SiblingSpec => []SiblingInv
    BY ComparisonStarts, ComparisonSteps, PTL DEF SiblingSpec
  <1>2. SiblingSpec => []SequenceInv
    BY <1>1, SequenceStarts, SequenceSteps, PTL DEF SiblingSpec
  <1> QED BY <1>1, <1>2, SequenceReported, PTL

-----------------------------------------------------------------------------
(* The proposals of a registry (MatchProposals): numbers and sums.         *)

LEMMA MinIs ==
    ASSUME NEW T \in SUBSET Nat, T # {}
    PROVE  Min(T) \in T /\ \A n \in T : Min(T) <= n
  <1>1. \E m \in T : \A n \in T : m <= n
    BY LeastNumber
  <1> QED BY <1>1 DEF Min

LEMMA LesserIs ==
    ASSUME NEW a \in Nat, NEW b \in Nat
    PROVE  /\ Min({a, b}) \in Nat /\ Min({a, b}) <= a /\ Min({a, b}) <= b
           /\ Min({a, b}) = a \/ Min({a, b}) = b
  <1>1. {a, b} \in SUBSET Nat /\ {a, b} # {}
    OBVIOUS
  <1>2. Min({a, b}) \in {a, b} /\ \A n \in {a, b} : Min({a, b}) <= n
    BY <1>1, MinIs
  <1> QED BY <1>2

LEMMA GreaterIs ==
    ASSUME NEW a \in Nat, NEW b \in Nat
    PROVE  /\ Max({a, b}) \in Nat /\ a <= Max({a, b}) /\ b <= Max({a, b})
           /\ Max({a, b}) = a \/ Max({a, b}) = b
  <1>1. \E m \in {a, b} : \A n \in {a, b} : m >= n
    <2>1. CASE a <= b
      BY <2>1
    <2>2. CASE b <= a
      BY <2>2
    <2> QED BY <2>1, <2>2
  <1>2. Max({a, b}) \in {a, b} /\ \A n \in {a, b} : Max({a, b}) >= n
    BY <1>1 DEF Max
  <1> QED BY <1>2

\* What a sum counts.
Counted(count) == UNION {{x} \X (1..count[x]) : x \in DOMAIN count}

LEMMA CountedAre ==
    ASSUME NEW S, NEW count \in [S -> Nat]
    PROVE  /\ SumOf(count) = Cardinality(Counted(count))
           /\ \A u : u \in Counted(count) <=> \E x \in S : \E n \in 1..count[x] : u = <<x, n>>
  BY DEF SumOf, Counted

LEMMA SumIsNumber ==
    ASSUME NEW S, IsFiniteSet(S), NEW count \in [S -> Nat]
    PROVE  IsFiniteSet(Counted(count)) /\ SumOf(count) \in Nat
  <1> DEFINE parts == {{x} \X (1..count[x]) : x \in S}
             part == [x \in S |-> {x} \X (1..count[x])]
  <1>1. part \in Surjection(S, parts)
    BY DEF Surjection
  <1>2. IsFiniteSet(parts)
    BY <1>1, FS_Surjection
  <1>3. ASSUME NEW x \in S PROVE IsFiniteSet({x} \X (1..count[x]))
    <2> DEFINE here == {x}
               units == 1..count[x]
    <2>1. count[x] \in Nat
      OBVIOUS
    <2>2. IsFiniteSet(here)
      BY FS_Singleton
    <2>3. IsFiniteSet(units)
      BY <2>1, FS_Interval
    <2> HIDE DEF here, units
    <2>4. IsFiniteSet(here \X units)
      BY <2>2, <2>3, FS_Product
    <2> QED BY <2>4 DEF here, units
  <1>4. \A s \in parts : IsFiniteSet(s)
    BY <1>3
  <1> HIDE DEF parts
  <1>5. IsFiniteSet(UNION parts)
    BY <1>2, <1>4, FS_UNION
  <1>6. IsFiniteSet(Counted(count))
    BY <1>5 DEF Counted, parts
  <1> QED BY <1>6, CountedAre, FS_CardinalityType

\* The number of one is its sum.
LEMMA SumOfOne ==
    ASSUME NEW x, NEW count \in [{x} -> Nat]
    PROVE  SumOf(count) = count[x]
  <1> DEFINE units == 1..count[x]
             place == [n \in units |-> <<x, n>>]
  <1>1. count[x] \in Nat
    OBVIOUS
  <1>2. IsFiniteSet(units) /\ Cardinality(units) = count[x]
    <2> DEFINE one == 1
               last == count[x]
    <2>1. one \in Int /\ last \in Int
      BY <1>1
    <2>2. /\ IsFiniteSet(one..last)
          /\ Cardinality(one..last) = IF one > last THEN 0 ELSE last - one + 1
      <3> HIDE DEF one, last
      <3> QED BY <2>1, FS_Interval
    <2> QED BY <1>1, <2>2
  <1>3. \A u : u \in Counted(count) <=> \E n \in units : u = <<x, n>>
    BY CountedAre
  <1> HIDE DEF units
  <1>4. place \in Bijection(units, Counted(count))
    BY <1>3 DEF Bijection, Injection, Surjection, IsInjective
  <1> HIDE DEF place
  <1>5. ExistsBijection(units, Counted(count))
    BY <1>4 DEF ExistsBijection
  <1>6. Cardinality(Counted(count)) = Cardinality(units)
    BY <1>2, <1>5, FS_Bijection
  <1> QED BY <1>2, <1>6, CountedAre

\* How much the parts of a candidate that do not overlap span.
LEMMA PartsSpan ==
    ASSUME NEW d \in Candidate, NEW S \in SUBSET {c \in Candidate : Within(c, d)}, Apart(S)
    PROVE  /\ SpanOf(S) \in Nat /\ Span(d) \in Nat
           /\ SpanOf(S) <= Span(d)
           /\ d \notin S => SpanOf(S) < Span(d)
  <1> DEFINE count == [c \in S |-> Span(c)]
             all == Counted(count)
             place == [u \in all |-> Lo[u[1]] + u[2] - 1]
  <1>1. \A c \in Candidate : /\ Lo[c] \in Nat /\ Hi[c] \in Nat /\ Lo[c] <= Hi[c]
                             /\ Span(c) = Hi[c] - Lo[c] + 1 /\ Span(c) \in Nat
    BY RegistryAssumption DEF Span
  <1>2. S \subseteq Candidate /\ count \in [S -> Nat]
    BY <1>1
  <1>3. \A c \in S : Within(c, d) /\ count[c] = Span(c)
    OBVIOUS
  <1>4. SpanOf(S) = SumOf(count)
    BY DEF SpanOf
  <1>5. IsFiniteSet(S)
    BY <1>2, RegistryAssumption, FS_Subset
  <1> HIDE DEF count
  <1>6. SpanOf(S) \in Nat /\ SpanOf(S) = Cardinality(all) /\ IsFiniteSet(all)
    BY <1>2, <1>4, <1>5, SumIsNumber, CountedAre
  <1>7. \A u \in all : u[1] \in S /\ u[2] \in 1..Span(u[1]) /\ u = <<u[1], u[2]>>
    BY <1>2, <1>3, CountedAre
  <1> HIDE DEF all
  <1>8. \A u \in all : /\ place[u] \in Lo[u[1]]..Hi[u[1]]
                       /\ place[u] \in Lo[d]..Hi[d]
                       /\ place[u] = Lo[d] => Lo[u[1]] = Lo[d]
    <2> TAKE u \in all
    <2>1. u[1] \in S /\ u[1] \in Candidate /\ u[2] \in 1..Span(u[1]) /\ Within(u[1], d)
      BY <1>2, <1>3, <1>7
    <2>2. Lo[d] <= Lo[u[1]] /\ Hi[u[1]] <= Hi[d]
      BY <2>1 DEF Within
    <2>3. place[u] = Lo[u[1]] + u[2] - 1
      OBVIOUS
    <2> HIDE DEF place
    <2> QED BY <1>1, <2>1, <2>2, <2>3
  <1>9. \A u, v \in all : place[u] = place[v] => u = v
    <2> SUFFICES ASSUME NEW u \in all, NEW v \in all, place[u] = place[v] PROVE u = v
      OBVIOUS
    <2>1. u[1] \in Candidate /\ v[1] \in Candidate /\ u[1] \in S /\ v[1] \in S
      BY <1>2, <1>7
    <2>2. place[u] \in Lo[u[1]]..Hi[u[1]] /\ place[u] \in Lo[v[1]]..Hi[v[1]]
      <3> HIDE DEF place
      <3> QED BY <1>8
    <2>3. SameSide(u[1], v[1])
      BY <1>3, <2>1 DEF Within, SameSide
    <2>4. Overlap(u[1], v[1])
      <3> HIDE DEF place
      <3>1. Lo[u[1]] <= Hi[v[1]] /\ Lo[v[1]] <= Hi[u[1]]
        BY <1>1, <2>1, <2>2
      <3> QED BY <2>3, <3>1 DEF Overlap
    <2>5. u[1] = v[1]
      BY <2>1, <2>4 DEF Apart
    <2>6. Lo[u[1]] + u[2] - 1 = Lo[v[1]] + v[2] - 1 /\ u[2] \in Int /\ v[2] \in Int
      BY <1>7
    <2>7. u[2] = v[2]
      BY <1>1, <2>1, <2>5, <2>6
    <2> QED BY <1>7, <2>5, <2>7
  <1>10. ASSUME NEW a \in Nat, \A u \in all : place[u] \in a..Hi[d], a <= Hi[d] + 1
         PROVE  SpanOf(S) <= Hi[d] - a + 1
    <2> DEFINE room == a..Hi[d]
    <2>1. IsFiniteSet(room) /\ Cardinality(room) = Hi[d] - a + 1
      <3> DEFINE last == Hi[d]
      <3>1. last \in Int /\ a \in Int
        BY <1>1
      <3>2. /\ IsFiniteSet(a..last)
            /\ Cardinality(a..last) = IF a > last THEN 0 ELSE last - a + 1
        <4> HIDE DEF last
        <4> QED BY <3>1, FS_Interval
      <3> QED BY <1>1, <1>10, <3>2
    <2>2. place \in [all -> room]
      BY <1>10
    <2> HIDE DEF room
    <2>3. place \in Injection(all, room)
      <3>1. \A u, v \in all : place[u] = place[v] => u = v
        BY <1>9
      <3> HIDE DEF place
      <3> QED BY <2>2, <3>1 DEF Injection, IsInjective
    <2> HIDE DEF place
    <2>4. Cardinality(all) <= Cardinality(room)
      BY <2>1, <2>3, FS_Injection
    <2> QED BY <1>6, <2>1, <2>4
  <1>11. SpanOf(S) <= Span(d)
    <2>1. Lo[d] \in Nat /\ Lo[d] <= Hi[d] + 1 /\ Span(d) = Hi[d] - Lo[d] + 1
      BY <1>1
    <2>2. \A u \in all : place[u] \in Lo[d]..Hi[d]
      BY <1>8
    <2> HIDE DEF place
    <2> QED BY <1>10, <2>1, <2>2
  <1>12. ASSUME d \notin S PROVE SpanOf(S) < Span(d)
    <2>1. \A u \in all : place[u] # Lo[d]
      <3> SUFFICES ASSUME NEW u \in all, place[u] = Lo[d] PROVE FALSE
        OBVIOUS
      <3>1. Lo[u[1]] = Lo[d] /\ u[1] \in S /\ u[1] \in Candidate
        <4> HIDE DEF place
        <4> QED BY <1>2, <1>7, <1>8
      <3>2. SameSide(u[1], d)
        BY <1>3, <3>1 DEF Within
      <3>3. u[1] = d
        BY <3>1, <3>2, PlacesAssumption DEF SameSide
      <3> QED BY <1>12, <3>1, <3>3
    <2> HIDE DEF place
    <2>2. /\ Lo[d] + 1 \in Nat /\ Lo[d] + 1 <= Hi[d] + 1
          /\ Span(d) = Hi[d] - (Lo[d] + 1) + 1 + 1
      BY <1>1
    <2>3. \A u \in all : place[u] \in (Lo[d] + 1)..Hi[d]
      BY <1>1, <1>8, <2>1
    <2>4. SpanOf(S) <= Hi[d] - (Lo[d] + 1) + 1
      BY <1>10, <2>2, <2>3
    <2> QED BY <1>1, <1>6, <2>2, <2>4
  <1> QED BY <1>1, <1>6, <1>11, <1>12

-----------------------------------------------------------------------------
(* Lists in an order.                                                      *)

\* In a strict order of all members, each rank is taken.
LEMMA RanksAreTaken ==
    ASSUME NEW S, IsFiniteSet(S), NEW R, StrictlyOrders(R, S),
           \A x, y \in S : x = y \/ <<x, y>> \in R \/ <<y, x>> \in R
    PROVE  /\ Cardinality(S) \in Nat
           /\ \A x \in S : Cardinality(Preceding(R, S, x)) \in 0..(Cardinality(S) - 1)
           /\ \A n \in 1..Cardinality(S) : \E x \in S : Cardinality(Preceding(R, S, x)) = n - 1
           /\ \A x, y \in S : Cardinality(Preceding(R, S, x)) < Cardinality(Preceding(R, S, y))
                                => <<x, y>> \in R
  <1> DEFINE N == Cardinality(S)
             Before(x) == Cardinality(Preceding(R, S, x))
             rank == [x \in S |-> Before(x)]
             image == {rank[x] : x \in S}
             all == 0..(N - 1)
  <1>1. N \in Nat
    BY FS_CardinalityType
  <1>2. \A x, y \in S : <<x, y>> \in R => Before(x) < Before(y)
    BY FewerBefore
  <1>3. \A x \in S : Before(x) \in 0..(N - 1)
    <2> TAKE x \in S
    <2>1. Preceding(R, S, x) \subseteq S /\ x \notin Preceding(R, S, x)
      BY DEF Preceding, StrictlyOrders
    <2>2. Before(x) \in Nat /\ Before(x) <= N /\ Before(x) # N
      <3>1. /\ IsFiniteSet(Preceding(R, S, x))
            /\ Cardinality(Preceding(R, S, x)) <= Cardinality(S)
            /\ Cardinality(Preceding(R, S, x)) = Cardinality(S) => Preceding(R, S, x) = S
        BY <2>1, FS_Subset
      <3> QED BY <2>1, <3>1, FS_CardinalityType
    <2> HIDE DEF Before, N
    <2> QED BY <1>1, <2>2
  <1> HIDE DEF Before
  <1>4. \A x, y \in S : Before(x) \in Nat /\ Before(y) \in Nat
    <2> HIDE DEF N
    <2> QED BY <1>1, <1>3
  <1>5. \A x, y \in S : rank[x] = rank[y] => x = y
    <2> SUFFICES ASSUME NEW x \in S, NEW y \in S, Before(x) = Before(y) PROVE x = y
      OBVIOUS
    <2>1. ~(Before(x) < Before(y)) /\ ~(Before(y) < Before(x))
      BY <1>4
    <2> QED BY <1>2, <2>1
  <1>6. rank \in Bijection(S, image)
    <2>1. rank \in [S -> image] /\ \A v \in image : \E x \in S : rank[x] = v
      OBVIOUS
    <2>2. rank \in Injection(S, image)
      <3> HIDE DEF rank, image
      <3> QED BY <1>5, <2>1 DEF Injection, IsInjective
    <2>3. rank \in Surjection(S, image)
      <3> HIDE DEF rank, image
      <3> QED BY <2>1 DEF Surjection
    <2> QED BY <2>2, <2>3 DEF Bijection
  <1>7. IsFiniteSet(all) /\ Cardinality(all) = N
    <2> DEFINE last == N - 1
    <2>1. last \in Int /\ 0 \in Int
      BY <1>1
    <2>2. /\ IsFiniteSet(0..last)
          /\ Cardinality(0..last) = IF 0 > last THEN 0 ELSE last - 0 + 1
      <3> HIDE DEF last
      <3> QED BY <2>1, FS_Interval
    <2> HIDE DEF N
    <2> QED BY <1>1, <2>2
  <1>8. image \subseteq all
    BY <1>3
  <1> HIDE DEF rank, image, all
  <1>9. ExistsBijection(S, image)
    BY <1>6 DEF ExistsBijection
  <1>10. Cardinality(image) = N
    BY <1>9, FS_Bijection
  <1>11. image = all
    BY <1>7, <1>8, <1>10, FS_Subset
  <1>12. ASSUME NEW n \in 1..N PROVE \E x \in S : Before(x) = n - 1
    <2>1. n - 1 \in 0..(N - 1)
      <3> HIDE DEF N
      <3> QED BY <1>1
    <2>2. n - 1 \in image
      BY <1>11, <2>1 DEF all
    <2> QED BY <2>2 DEF image, rank
  <1>13. ASSUME NEW x \in S, NEW y \in S, Before(x) < Before(y) PROVE <<x, y>> \in R
    <2>1. x # y /\ ~(Before(y) < Before(x))
      BY <1>4, <1>13
    <2> QED BY <1>2, <2>1
  <1> QED BY <1>1, <1>3, <1>12, <1>13 DEF Before

LEMMA Listed ==
    ASSUME NEW n \in Nat, NEW S, NEW list \in [1..n -> S]
    PROVE  list \in Seq(S) /\ Len(list) = n
  OBVIOUS

\* A list that gives each place to the member with as many before it.
LEMMA ListIs ==
    ASSUME NEW S, IsFiniteSet(S), NEW R, StrictlyOrders(R, S),
           \A x, y \in S : x = y \/ <<x, y>> \in R \/ <<y, x>> \in R,
           NEW list \in [1..Cardinality(S) -> S],
           \A n \in 1..Cardinality(S) : Cardinality(Preceding(R, S, list[n])) = n - 1
    PROVE  /\ list \in Seq(S) /\ Len(list) = Cardinality(S)
           /\ \A j, k \in 1..Len(list) : j < k => <<list[j], list[k]>> \in R
  <1> DEFINE N == Cardinality(S)
  <1>1. N \in Nat
    BY RanksAreTaken
  <1>2. \A n \in 1..N : list[n] \in S /\ Cardinality(Preceding(R, S, list[n])) = n - 1
    OBVIOUS
  <1>3. list \in [1..N -> S]
    OBVIOUS
  <1> HIDE DEF N
  <1>4. list \in Seq(S) /\ Len(list) = N
    BY <1>1, <1>3, Listed
  <1>5. ASSUME NEW j \in 1..N, NEW k \in 1..N, j < k PROVE <<list[j], list[k]>> \in R
    <2>1. j - 1 < k - 1
      BY <1>1, <1>5
    <2>2. /\ list[j] \in S /\ list[k] \in S
          /\ Cardinality(Preceding(R, S, list[j])) < Cardinality(Preceding(R, S, list[k]))
      BY <1>2, <2>1
    <2> QED BY <2>2, RanksAreTaken
  <1> QED BY <1>4, <1>5 DEF N

-----------------------------------------------------------------------------
(* The groups of a registry. *)

-----------------------------------------------------------------------------
(* One proposal.                                                           *)

\* The exact group of a candidate.
Exact(r, c) == [dels |-> {d \in Deleted : SameText(r, d, c)},
                inss |-> {i \in Inserted : SameText(r, i, c)}]

LEMMA ExactIs ==
    ASSUME NEW r
    PROVE  /\ \A g \in ExactGroups(r) : \E c \in Candidate : g = Exact(r, c)
           /\ \A c \in Candidate : /\ Exact(r, c) \in ExactGroups(r)
                                   /\ Exact(r, c).dels \in SUBSET Deleted
                                   /\ Exact(r, c).inss \in SUBSET Inserted
                                   /\ c \in Exact(r, c).dels \cup Exact(r, c).inss
           /\ \A c, d \in Candidate : d \in Exact(r, c).dels \cup Exact(r, c).inss
                                        => Exact(r, d) = Exact(r, c)
  <1>1. \A g \in ExactGroups(r) : \E c \in Candidate : g = Exact(r, c)
    BY DEF ExactGroups, Exact
  <1>2. ASSUME NEW c \in Candidate
        PROVE  /\ Exact(r, c) \in ExactGroups(r)
               /\ Exact(r, c).dels \in SUBSET Deleted
               /\ Exact(r, c).inss \in SUBSET Inserted
               /\ c \in Exact(r, c).dels \cup Exact(r, c).inss
    BY DEF ExactGroups, Exact, SameText, Inserted
  <1>3. ASSUME NEW c \in Candidate, NEW d \in Candidate,
               d \in Exact(r, c).dels \cup Exact(r, c).inss
        PROVE  Exact(r, d) = Exact(r, c)
    <2>1. SameText(r, d, c)
      BY <1>3 DEF Exact
    <2>2. \A x : SameText(r, x, d) <=> SameText(r, x, c)
      BY <2>1 DEF SameText
    <2> QED BY <2>2 DEF Exact
  <1> QED BY <1>1, <1>2, <1>3

LEMMA PartnerlessAre ==
    ASSUME NEW r, NEW c \in Candidate
    PROVE  c \in Partnerless(r) <=> ~BothSides(Exact(r, c))
  <1>1. ASSUME c \in Partnerless(r) PROVE ~BothSides(Exact(r, c))
    <2>1. PICK g \in ExactGroups(r) : ~BothSides(g) /\ c \in g.dels \cup g.inss
      BY <1>1 DEF Partnerless
    <2>2. PICK x \in Candidate : g = Exact(r, x)
      BY ExactIs
    <2>3. Exact(r, c) = g
      BY <2>1, <2>2, ExactIs
    <2> QED BY <2>1, <2>3
  <1>2. ASSUME ~BothSides(Exact(r, c)) PROVE c \in Partnerless(r)
    <2>1. Exact(r, c) \in ExactGroups(r) /\ c \in Exact(r, c).dels \cup Exact(r, c).inss
      BY ExactIs
    <2> QED BY <1>2, <2>1 DEF Partnerless
  <1> QED BY <1>1, <1>2

\* No match is worth more than full confidence in what it covers.
Sensible(match, cover, conf, worth, part) ==
    /\ worth \in Nat /\ worth <= 1000 * cover
    /\ part \in Nat /\ part <= cover
    /\ match = "type1" /\ conf = 1000 => worth = 1000 * cover

Share(cover, conf) == (cover * conf) \div 1000

LEMMA WorthIs ==
    ASSUME NEW cover, cover \in Nat, NEW conf, conf \in 0..1000, NEW match
    PROVE  Sensible(match, cover, conf, Worth(match, cover, conf), Share(cover, conf))
  <1> DEFINE full == cover * conf
             rest == cover * (1000 - conf)
             penalty == rest \div 2
  <1>1. full \in Nat /\ full <= 1000 * cover
    BY Weight
  <1>2. rest \in Nat
    <2>1. 1000 - conf \in Nat
      OBVIOUS
    <2> QED BY <2>1, Weight
  <1> HIDE DEF rest
  <1>3. penalty \in Nat
    BY <1>2
  <1> HIDE DEF full, penalty
  <1>4. Min({full, penalty}) \in Nat /\ Min({full, penalty}) <= full
    BY <1>1, <1>3, LesserIs
  <1>5. Worth(match, cover, conf) = IF match = "type3" THEN full - Min({full, penalty}) ELSE full
    BY DEF Worth, full, penalty, rest
  <1>6. full \div 1000 \in Nat /\ full \div 1000 <= cover
    BY <1>1
  <1>7. /\ Worth(match, cover, conf) \in Nat /\ Worth(match, cover, conf) <= full
        /\ match = "type1" => Worth(match, cover, conf) = full
    BY <1>1, <1>4, <1>5
  <1>8. conf = 1000 => full = 1000 * cover
    BY DEF full
  <1>9. Share(cover, conf) = full \div 1000
    BY Zenon DEF Share, full
  <1> QED BY <1>1, <1>6, <1>7, <1>8, <1>9 DEF Sensible

\* What is counted of some candidates.
LEMMA UnitsAre ==
    ASSUME NEW r, Registered(r), NEW S \in SUBSET Candidate
    PROVE  UnitsOf(r, S) \in Nat /\ SpanOf(S) \in Nat
  <1> DEFINE units == [c \in S |-> r.units[c]]
             spans == [c \in S |-> Span(c)]
  <1>1. IsFiniteSet(S)
    BY RegistryAssumption, FS_Subset
  <1>2. units \in [S -> Nat] /\ spans \in [S -> Nat]
    BY RegistryAssumption DEF Registered, Span
  <1>3. UnitsOf(r, S) = SumOf(units) /\ SpanOf(S) = SumOf(spans)
    BY DEF UnitsOf, SpanOf
  <1> HIDE DEF units, spans
  <1> QED BY <1>1, <1>2, <1>3, SumIsNumber

\* The endpoints of a proposal.
Ends(n) ==
    /\ n.dels \in SUBSET Deleted /\ n.dels # {} /\ Apart(n.dels)
    /\ n.inss \in SUBSET Inserted /\ n.inss # {} /\ Apart(n.inss)

LEMMA ApartAcross ==
    ASSUME NEW n, Ends(n)
    PROVE  Apart(n.dels \cup n.inss)
  BY DEF Ends, Apart, Overlap, SameSide, Inserted

MatchKinds == {"type1", "type2", "type3"}

LEMMA Discounted ==
    ASSUME NEW worth \in Nat
    PROVE  (worth * 650) \div 1000 \in Nat /\ (worth * 650) \div 1000 <= worth
  OBVIOUS

Recorded(dels, inss, match, conf, explanatory, matched, utility, strength, construct, span,
         disabled) ==
    [dels |-> dels, inss |-> inss, match |-> match, conf |-> conf,
     explanatory |-> explanatory, matched |-> matched, utility |-> utility,
     strength |-> strength, construct |-> construct, span |-> span,
     disabled |-> disabled] \in MatchProposal

\* The confidence of a proposal for the endpoints n.
Trusted(n, match, conf) ==
    /\ match \in MatchKinds /\ conf \in 0..1000
    /\ Single(n) => conf \in 900..1000 /\ (match = "type1" => conf = 1000)

\* What is true of a proposal by itself.
Grounded(r, p) ==
    /\ p \in MatchProposal
    /\ BothSides(p) /\ p.conf \in Confidence(p) /\ Valued(p)
    /\ Apart(p.dels) /\ Apart(p.inss) /\ Apart(p.dels \cup p.inss)
    /\ p.explanatory <= UnitsOf(r, p.dels) /\ p.explanatory <= UnitsOf(r, p.inss)
    /\ p.explanatory = UnitsOf(r, p.dels) \/ p.explanatory = UnitsOf(r, p.inss)
    /\ p.span = SpanOf(p.dels) + SpanOf(p.inss)
    /\ p.construct = 1 <=> p.dels \cup p.inss \subseteq Structural

LEMMA ProposalIs ==
    ASSUME NEW r, Registered(r), NEW g, NEW n, Ends(n),
           NEW match, NEW conf, Trusted(n, match, conf),
           NEW p, p = Proposal(r, g, n, match, conf)
    PROVE  /\ Grounded(r, p)
           /\ p.dels = n.dels /\ p.inss = n.inss /\ p.match = match
  <1> DEFINE cover == Min({UnitsOf(r, n.dels), UnitsOf(r, n.inss)})
             worth == Worth(match, cover, conf)
             part == Share(cover, conf)
             matched == IF match = "type3" THEN part ELSE cover
             utility == IF Doubtful(r, g, match) THEN (worth * 650) \div 1000 ELSE worth
             strength == IF Doubtful(r, g, match) THEN 0
                         ELSE IF match = "type1" THEN 3 ELSE IF match = "type2" THEN 2 ELSE 1
             construct == IF n.dels \cup n.inss \subseteq Structural THEN 1 ELSE 0
             span == SpanOf(n.dels) + SpanOf(n.inss)
             disabled == ~Admitted(r, g, n, match)
  <1>1. n.dels \in SUBSET Candidate /\ n.inss \in SUBSET Candidate
    <2>1. Deleted \subseteq Candidate /\ Inserted \subseteq Candidate
      BY RegistryAssumption DEF Inserted
    <2> QED BY <2>1 DEF Ends
  <1>2. /\ UnitsOf(r, n.dels) \in Nat /\ UnitsOf(r, n.inss) \in Nat
        /\ SpanOf(n.dels) \in Nat /\ SpanOf(n.inss) \in Nat
    BY <1>1, UnitsAre
  <1>3. /\ cover \in Nat /\ cover <= UnitsOf(r, n.dels) /\ cover <= UnitsOf(r, n.inss)
        /\ cover = UnitsOf(r, n.dels) \/ cover = UnitsOf(r, n.inss)
    BY <1>2, LesserIs
  <1> HIDE DEF cover
  <1>4. Sensible(match, cover, conf, worth, part)
    <2>1. cover \in Nat
      BY <1>3
    <2>2. conf \in 0..1000
      BY DEF Trusted
    <2> QED BY <2>1, <2>2, WorthIs
  <1> HIDE DEF worth, part
  <1>5. matched \in Nat /\ matched <= cover /\ (match = "type1" => matched = cover)
    BY <1>3, <1>4 DEF Sensible
  <1>6. utility \in Nat /\ utility <= 1000 * cover
    <2>1. worth \in Nat /\ worth <= 1000 * cover /\ cover \in Nat
      BY <1>3, <1>4 DEF Sensible
    <2>2. (worth * 650) \div 1000 \in Nat /\ (worth * 650) \div 1000 <= worth
      BY <2>1, Discounted
    <2>3. CASE Doubtful(r, g, match)
      BY <2>1, <2>2, <2>3
    <2>4. CASE ~Doubtful(r, g, match)
      BY <2>1, <2>4
    <2> QED BY <2>3, <2>4
  <1>7. match = "type1" => strength = 3 /\ (conf = 1000 => utility = 1000 * cover)
    BY <1>4 DEF Sensible, Doubtful
  <1>8. strength \in 0..3 /\ construct \in 0..1 /\ span \in Nat /\ disabled \in BOOLEAN
    BY <1>2
  <1>9. construct = 1 <=> n.dels \cup n.inss \subseteq Structural
    OBVIOUS
  <1>10. p = [dels |-> n.dels, inss |-> n.inss, match |-> match, conf |-> conf,
              explanatory |-> cover, matched |-> matched, utility |-> utility,
              strength |-> strength, construct |-> construct, span |-> span,
              disabled |-> disabled]
    BY Zenon DEF Proposal, Share, cover, worth, part
  <1>11. n.dels \in SUBSET Deleted /\ n.inss \in SUBSET Inserted /\ conf \in Nat
    BY DEF Ends, Trusted
  <1>12. span = SpanOf(n.dels) + SpanOf(n.inss)
    OBVIOUS
  <1> HIDE DEF matched, utility, strength, construct, span, disabled
  <1>13. p \in MatchProposal
    <2>1. cover \in Nat /\ matched \in Nat /\ utility \in Nat
      BY <1>3, <1>5, <1>6
    <2>2. [dels |-> n.dels, inss |-> n.inss, match |-> match, conf |-> conf,
           explanatory |-> cover, matched |-> matched, utility |-> utility,
           strength |-> strength, construct |-> construct, span |-> span,
           disabled |-> disabled] \in MatchProposal
      <3>1. /\ n.dels \in SUBSET Deleted /\ n.inss \in SUBSET Inserted
            /\ conf \in Nat /\ cover \in Nat /\ matched \in Nat /\ utility \in Nat
            /\ strength \in 0..3 /\ construct \in 0..1 /\ span \in Nat
        BY <1>8, <1>11, <2>1
      <3>2. disabled \in BOOLEAN /\ match \in MatchKinds
        BY <1>8 DEF Trusted
      <3> DEFINE dels == n.dels
                 inss == n.inss
      <3> HIDE DEF dels, inss
      <3>3. dels \in SUBSET Deleted /\ inss \in SUBSET Inserted
        BY <3>1 DEF dels, inss
      <3>4. ASSUME NEW off \in BOOLEAN
            PROVE  Recorded(dels, inss, match, conf, cover, matched, utility, strength,
                            construct, span, off)
        BY <3>1, <3>2, <3>3 DEF MatchProposal, MatchKinds, Recorded
      <3>5. Recorded(n.dels, n.inss, match, conf, cover, matched, utility, strength,
                     construct, span, disabled)
        BY <3>2, <3>4, Zenon DEF dels, inss
      <3> QED BY <3>5 DEF Recorded
    <2> QED BY <1>10, <2>2
  <1>14. /\ p.dels = n.dels /\ p.inss = n.inss /\ p.match = match /\ p.conf = conf
         /\ p.explanatory = cover /\ p.matched = matched /\ p.utility = utility
         /\ p.strength = strength /\ p.construct = construct /\ p.span = span
    BY <1>10
  <1>15. BothSides(p) /\ (Single(p) <=> Single(n))
    BY <1>14 DEF BothSides, Single, Ends
  <1>16. p.conf \in Confidence(p)
    BY <1>14, <1>15 DEF Confidence, Trusted
  <1>17. Valued(p)
    <2>1. match = "type1" /\ Single(n) => utility = 1000 * cover
      BY <1>3, <1>7 DEF Trusted
    <2> QED BY <1>5, <1>6, <1>7, <1>14, <1>15, <2>1 DEF Valued
  <1>18. Apart(p.dels) /\ Apart(p.inss) /\ Apart(p.dels \cup p.inss)
    <2>1. Apart(n.dels) /\ Apart(n.inss) /\ Apart(n.dels \cup n.inss)
      BY ApartAcross DEF Ends
    <2> QED BY <1>14, <2>1
  <1>19. /\ p.explanatory <= UnitsOf(r, p.dels) /\ p.explanatory <= UnitsOf(r, p.inss)
         /\ p.explanatory = UnitsOf(r, p.dels) \/ p.explanatory = UnitsOf(r, p.inss)
         /\ p.span = SpanOf(p.dels) + SpanOf(p.inss)
    BY <1>3, <1>12, <1>14
  <1>20. p.construct = 1 <=> p.dels \cup p.inss \subseteq Structural
    BY <1>9, <1>14
  <1>21. Grounded(r, p)
    BY <1>13, <1>15, <1>16, <1>17, <1>18, <1>19, <1>20, Zenon DEF Grounded
  <1> QED BY <1>14, <1>21

\* A similarity of nine tenths, in thousands.
LEMMA Similar ==
    ASSUME NEW c \in Nat, NEW n \in Nat, c > 0, c <= n, 9 * n <= 10 * c
    PROVE  (c * 1000) \div n \in 900..1000
  <1>1. n > 0 /\ c * 1000 \in Nat /\ 900 * n <= c * 1000 /\ c * 1000 <= 1000 * n
    OBVIOUS
  <1> DEFINE a == c * 1000
  <1>2. a \in Nat /\ 900 * n <= a /\ a <= 1000 * n
    BY <1>1
  <1> HIDE DEF a
  <1>3. a \div n <= 1000
    BY <1>1, <1>2, Quotient
  <1>4. a \div n \in Int /\ a \div n >= 900
    BY <1>1, <1>2, SMT
  <1>5. a \div n \in 900..1000
    BY <1>3, <1>4
  <1> QED BY <1>5 DEF a

LEMMA SharedTrust ==
    ASSUME NEW n \in Nat, n > 0
    PROVE  1000 \div n \in 0..1000 /\ (n = 1 => 1000 \div n = 1000)
  <1>1. 1000 \div n <= 1000
    BY Quotient
  <1>2. 1000 \div n \in Nat
    BY SMT
  <1> QED BY <1>1, <1>2

\* How many endpoints there are on each side.
LEMMA EndsCount ==
    ASSUME NEW n, Ends(n)
    PROVE  /\ Cardinality(n.dels) \in Nat /\ Cardinality(n.dels) > 0
           /\ Cardinality(n.inss) \in Nat /\ Cardinality(n.inss) > 0
  <1>1. IsFiniteSet(n.dels) /\ IsFiniteSet(n.inss)
    <2>1. n.dels \subseteq Candidate /\ n.inss \subseteq Candidate
      BY RegistryAssumption DEF Ends, Inserted
    <2> QED BY <2>1, RegistryAssumption, FS_Subset
  <1>2. n.dels # {} /\ n.inss # {}
    BY DEF Ends
  <1>3. \A S : IsFiniteSet(S) /\ S # {} => Cardinality(S) \in Nat /\ Cardinality(S) > 0
    <2> TAKE S
    <2> SUFFICES ASSUME IsFiniteSet(S), S # {} PROVE Cardinality(S) \in Nat /\ Cardinality(S) > 0
      OBVIOUS
    <2>1. Cardinality(S) \in Nat
      BY FS_CardinalityType
    <2>2. Cardinality(S) # 0
      BY FS_EmptySet
    <2> QED BY <2>1, <2>2
  <1> QED BY <1>1, <1>2, <1>3

\* A proposal for the texts of an exact group.
LEMMA ExactsAre ==
    ASSUME NEW r, Registered(r), NEW c \in Candidate, BothSides(Exact(r, c)),
           NEW p, p = ExactProposal(r, Exact(r, c))
    PROVE  /\ Grounded(r, p) /\ p.match = "type1"
           /\ p.dels \subseteq Exact(r, c).dels /\ p.inss \subseteq Exact(r, c).inss
  <1> DEFINE g == Exact(r, c)
             n == [dels |-> NonOverlapping(g.dels), inss |-> NonOverlapping(g.inss)]
             most == Max({Cardinality(n.dels), Cardinality(n.inss)})
             conf == 1000 \div most
  <1>1. g.dels \in SUBSET Deleted /\ g.inss \in SUBSET Inserted /\ g.dels # {} /\ g.inss # {}
    BY ExactIs DEF BothSides
  <1>2. g.dels \in SUBSET Candidate /\ g.inss \in SUBSET Candidate
    BY <1>1, RegistryAssumption DEF Inserted
  <1>3. /\ n.dels \subseteq g.dels /\ n.dels # {}
        /\ n.inss \subseteq g.inss /\ n.inss # {}
        /\ \A x, y \in n.dels : x # y => ~Overlap(x, y)
        /\ \A x, y \in n.inss : x # y => ~Overlap(x, y)
    BY <1>1, <1>2, Kept
  <1>4. Ends(n)
    BY <1>1, <1>3 DEF Ends, Apart
  <1>5. p = Proposal(r, g, n, "type1", conf)
    BY Zenon DEF ExactProposal
  <1> HIDE DEF n, g
  <1>6. /\ Cardinality(n.dels) \in Nat /\ Cardinality(n.dels) > 0
        /\ Cardinality(n.inss) \in Nat /\ Cardinality(n.inss) > 0
    BY <1>4, EndsCount
  <1>7. most \in Nat /\ most > 0 /\ (Single(n) => most = 1)
    BY <1>6, GreaterIs DEF Single
  <1> HIDE DEF most
  <1>8. conf \in 0..1000 /\ (Single(n) => conf = 1000)
    BY <1>7, SharedTrust
  <1> HIDE DEF conf
  <1>9. Trusted(n, "type1", conf)
    BY <1>8 DEF Trusted, MatchKinds
  <1>10. Grounded(r, p) /\ p.dels = n.dels /\ p.inss = n.inss /\ p.match = "type1"
    BY <1>4, <1>5, <1>9, ProposalIs
  <1> QED BY <1>3, <1>10 DEF g

\* The endpoints of one Type-2c form.
SameKey(r, c) ==
    LET S == Partnerless(r) \cap Eligible
    IN [dels |-> {d \in S \cap Deleted : r.key[d] = r.key[c]},
        inss |-> {i \in S \cap Inserted : r.key[i] = r.key[c]}]

\* A single pair that is matched is a proposal's.
LEMMA PairIs ==
    ASSUME NEW d \in Deleted, NEW i \in Inserted, NEW n, n.dels = {d}, n.inss = {i}
    PROVE  Ends(n) /\ Single(n)
  <1>1. Cardinality({d}) = 1 /\ Cardinality({i}) = 1
    BY FS_Singleton
  <1> QED BY <1>1 DEF Ends, Single, Apart

\* A proposal for a renamed pair.
LEMMA Type2sAre ==
    ASSUME NEW r, Registered(r), NEW g \in Type2Groups(r), Single(g),
           NEW p, p = Type2Proposal(r, g)
    PROVE  /\ Grounded(r, p) /\ p.match = "type2" /\ p.dels = g.dels /\ p.inss = g.inss
           /\ p.dels \cup p.inss \subseteq Partnerless(r)
           /\ \A c \in p.dels \cup p.inss : g = SameKey(r, c)
           /\ \A c, d \in p.dels \cup p.inss : r.key[c] = r.key[d]
  <1>1. PICK c \in Partnerless(r) \cap Eligible : g = SameKey(r, c)
    BY DEF Type2Groups, SameKey
  <1>2. /\ g.dels \subseteq Deleted /\ g.inss \subseteq Inserted
        /\ g.dels \cup g.inss \subseteq Partnerless(r)
        /\ \A d \in g.dels \cup g.inss : r.key[d] = r.key[c]
    BY <1>1 DEF SameKey
  <1>3. \A d \in g.dels \cup g.inss : SameKey(r, d) = g
    BY <1>1, <1>2 DEF SameKey
  <1>4. \E d : g.dels = {d}
    <2>1. IsFiniteSet(g.dels) /\ Cardinality(g.dels) = 1
      <3>1. g.dels \subseteq Candidate
        BY <1>2, RegistryAssumption
      <3> QED BY <3>1, RegistryAssumption, FS_Subset DEF Single
    <2> QED BY <2>1, FS_Singleton
  <1>5. \E i : g.inss = {i}
    <2>1. IsFiniteSet(g.inss) /\ Cardinality(g.inss) = 1
      <3>1. g.inss \subseteq Candidate
        BY <1>2 DEF Inserted
      <3> QED BY <3>1, RegistryAssumption, FS_Subset DEF Single
    <2> QED BY <2>1, FS_Singleton
  <1>6. PICK d \in Deleted, i \in Inserted : g.dels = {d} /\ g.inss = {i}
    BY <1>2, <1>4, <1>5
  <1>7. Ends(g)
    BY <1>6, PairIs
  <1>8. Trusted(g, "type2", 950)
    BY DEF Trusted, MatchKinds
  <1>9. Grounded(r, p) /\ p.dels = g.dels /\ p.inss = g.inss /\ p.match = "type2"
    BY <1>7, <1>8, ProposalIs DEF Type2Proposal
  <1> QED BY <1>2, <1>3, <1>9

\* A proposal for an edited pair.
LEMMA Type3sAre ==
    ASSUME NEW r, Registered(r), NEW e \in Type3Edges(r), NEW p, p = Type3Proposal(r, e)
    PROVE  /\ Grounded(r, p) /\ p.match = "type3" /\ p.dels = {e[1]} /\ p.inss = {e[2]}
           /\ p.dels \cup p.inss \subseteq Partnerless(r)
           /\ e = <<e[1], e[2]>> /\ r.key[e[1]] # r.key[e[2]]
  <1> DEFINE g == [dels |-> {e[1]}, inss |-> {e[2]}]
             conf == (r.common[e] * 1000) \div r.longer[e]
  <1>1. /\ e[1] \in Deleted /\ e[2] \in Inserted /\ e = <<e[1], e[2]>>
        /\ e \in Deleted \X Inserted
        /\ e[1] \in Partnerless(r) /\ e[2] \in Partnerless(r)
        /\ r.key[e[1]] # r.key[e[2]] /\ r.common[e] > 0
    BY DEF Type3Edges
  <1>2. /\ r.common[e] \in Nat /\ r.longer[e] \in Nat
        /\ r.common[e] <= r.longer[e] /\ 9 * r.longer[e] <= 10 * r.common[e]
    BY <1>1 DEF Registered
  <1>3. conf \in 900..1000
    <2> DEFINE common == r.common[e]
               longer == r.longer[e]
    <2>1. /\ common \in Nat /\ longer \in Nat
          /\ common > 0 /\ common <= longer /\ 9 * longer <= 10 * common
      BY <1>1, <1>2
    <2> HIDE DEF common, longer
    <2>2. (common * 1000) \div longer \in 900..1000
      BY <2>1, Similar
    <2> QED BY <2>2 DEF common, longer
  <1>4. p = Proposal(r, g, g, "type3", conf)
    BY Zenon DEF Type3Proposal
  <1>5. g.dels = {e[1]} /\ g.inss = {e[2]}
    OBVIOUS
  <1> HIDE DEF conf, g
  <1>6. Ends(g)
    BY <1>1, <1>5, PairIs
  <1>7. Trusted(g, "type3", conf)
    BY <1>3 DEF Trusted, MatchKinds
  <1>8. Grounded(r, p) /\ p.dels = g.dels /\ p.inss = g.inss /\ p.match = "type3"
    BY <1>4, <1>6, <1>7, ProposalIs
  <1> QED BY <1>1, <1>5, <1>8

-----------------------------------------------------------------------------
(* All of them.                                                            *)

\* The three ways to a proposal.
OfExact(r, p) ==
    \E c \in Candidate : BothSides(Exact(r, c)) /\ p = ExactProposal(r, Exact(r, c))

OfType2(r, p) == \E g \in Type2Groups(r) : Single(g) /\ p = Type2Proposal(r, g)

OfType3(r, p) == \E e \in Type3Edges(r) : p = Type3Proposal(r, e)

LEMMA ProposedIs ==
    ASSUME NEW r, Registered(r), NEW p \in Proposals(r)
    PROVE  Grounded(r, p) /\ (OfExact(r, p) \/ OfType2(r, p) \/ OfType3(r, p))
  <1>1. CASE p \in {ExactProposal(r, g) : g \in {h \in ExactGroups(r) : BothSides(h)}}
    <2>1. PICK g \in ExactGroups(r) : BothSides(g) /\ p = ExactProposal(r, g)
      BY <1>1
    <2>2. PICK c \in Candidate : g = Exact(r, c)
      BY ExactIs
    <2>3. BothSides(Exact(r, c)) /\ p = ExactProposal(r, Exact(r, c))
      BY <2>1, <2>2
    <2>4. Grounded(r, p)
      BY <2>3, ExactsAre
    <2> QED BY <2>3, <2>4 DEF OfExact
  <1>2. CASE p \in {Type2Proposal(r, g) : g \in {h \in Type2Groups(r) : Single(h)}}
    <2>1. PICK g \in Type2Groups(r) : Single(g) /\ p = Type2Proposal(r, g)
      BY <1>2
    <2>2. Grounded(r, p)
      BY <2>1, Type2sAre
    <2> QED BY <2>1, <2>2 DEF OfType2
  <1>3. CASE p \in {Type3Proposal(r, e) : e \in Type3Edges(r)}
    <2>1. PICK e \in Type3Edges(r) : p = Type3Proposal(r, e)
      BY <1>3
    <2>2. Grounded(r, p)
      BY <2>1, Type3sAre
    <2> QED BY <2>1, <2>2 DEF OfType3
  <1> QED BY <1>1, <1>2, <1>3 DEF Proposals

\* Two proposals do not match the same deletion with the same insertion: what
\* has an exact partner is left to its exact group, and what shares a Type-2c
\* form to its Type-2 group.
LEMMA OnePerPair ==
    ASSUME NEW r, Registered(r), NEW p \in Proposals(r), NEW q \in Proposals(r),
           NEW c \in p.dels \cap q.dels, NEW d \in p.inss \cap q.inss
    PROVE  p = q
  <1>1. \A x \in Candidate : x \in Partnerless(r) <=> ~BothSides(Exact(r, x))
    BY PartnerlessAre
  <1>2. ASSUME NEW w, OfExact(r, w), c \in w.dels
        PROVE  c \notin Partnerless(r) /\ w = ExactProposal(r, Exact(r, c))
    <2>1. PICK x \in Candidate : BothSides(Exact(r, x)) /\ w = ExactProposal(r, Exact(r, x))
      BY <1>2 DEF OfExact
    <2>2. c \in Exact(r, x).dels
      BY <1>2, <2>1, ExactsAre
    <2>3. c \in Candidate /\ Exact(r, c) = Exact(r, x)
      BY <2>2, ExactIs, RegistryAssumption
    <2> QED BY <1>1, <2>1, <2>3
  <1>3. ASSUME NEW w, OfType2(r, w), c \in w.dels, d \in w.inss
        PROVE  c \in Partnerless(r) /\ r.key[c] = r.key[d] /\ w = Type2Proposal(r, SameKey(r, c))
    <2>1. PICK g \in Type2Groups(r) : Single(g) /\ w = Type2Proposal(r, g)
      BY <1>3 DEF OfType2
    <2>2. c \in w.dels \cup w.inss /\ d \in w.dels \cup w.inss
      BY <1>3
    <2>3. /\ w.dels \cup w.inss \subseteq Partnerless(r)
          /\ \A x \in w.dels \cup w.inss : g = SameKey(r, x)
          /\ \A x, y \in w.dels \cup w.inss : r.key[x] = r.key[y]
      BY <2>1, Type2sAre
    <2> QED BY <2>1, <2>2, <2>3
  <1>4. ASSUME NEW w, OfType3(r, w), c \in w.dels, d \in w.inss
        PROVE  c \in Partnerless(r) /\ r.key[c] # r.key[d] /\ w = Type3Proposal(r, <<c, d>>)
    <2>1. PICK e \in Type3Edges(r) : w = Type3Proposal(r, e)
      BY <1>4 DEF OfType3
    <2>2. /\ w.dels = {e[1]} /\ w.inss = {e[2]} /\ w.dels \cup w.inss \subseteq Partnerless(r)
          /\ e = <<e[1], e[2]>> /\ r.key[e[1]] # r.key[e[2]]
      BY <2>1, Type3sAre
    <2>3. e[1] = c /\ e[2] = d
      BY <1>4, <2>2
    <2>4. e = <<c, d>>
      BY <2>2, <2>3
    <2> QED BY <1>4, <2>1, <2>2, <2>3, <2>4
  <1>5. /\ OfExact(r, p) \/ OfType2(r, p) \/ OfType3(r, p)
        /\ OfExact(r, q) \/ OfType2(r, q) \/ OfType3(r, q)
    BY ProposedIs
  <1>6. c \in p.dels /\ c \in q.dels /\ d \in p.inss /\ d \in q.inss
    OBVIOUS
  <1>7. CASE OfExact(r, p)
    BY <1>2, <1>3, <1>4, <1>5, <1>6, <1>7
  <1>8. CASE OfType2(r, p)
    BY <1>2, <1>3, <1>4, <1>5, <1>6, <1>8
  <1>9. CASE OfType3(r, p)
    BY <1>2, <1>3, <1>4, <1>5, <1>6, <1>9
  <1> QED BY <1>5, <1>7, <1>8, <1>9

\* What a proposal is made of, in numbers.
LEMMA ProposalNumbers ==
    ASSUME NEW r, Registered(r), NEW p \in Proposals(r)
    PROVE  /\ p \in MatchProposal
           /\ p.dels \in SUBSET Deleted /\ p.dels # {} /\ p.inss \in SUBSET Inserted /\ p.inss # {}
           /\ Min(p.dels) \in p.dels /\ Min(p.inss) \in p.inss
           /\ Min(p.dels) \in Nat /\ Min(p.inss) \in Nat /\ MinimumId(p) \in Nat
           /\ p.utility \in Nat /\ p.explanatory \in Nat /\ p.matched \in Nat
           /\ p.strength \in Nat /\ p.construct \in Nat /\ p.span \in Nat
  <1>1. p \in MatchProposal /\ BothSides(p)
    BY ProposedIs DEF Grounded
  <1>2. /\ p.dels \in SUBSET Deleted /\ p.dels # {} /\ p.inss \in SUBSET Inserted /\ p.inss # {}
        /\ p.utility \in Nat /\ p.explanatory \in Nat /\ p.matched \in Nat
        /\ p.strength \in Nat /\ p.construct \in Nat /\ p.span \in Nat
    BY <1>1 DEF MatchProposal, BothSides
  <1>3. p.dels \in SUBSET Nat /\ p.inss \in SUBSET Nat
    BY <1>2, RegistryAssumption DEF Inserted
  <1>4. p.dels \cup p.inss \in SUBSET Nat /\ p.dels \cup p.inss # {}
    BY <1>2, <1>3
  <1>5. Min(p.dels) \in p.dels /\ Min(p.inss) \in p.inss
    BY <1>2, <1>3, MinIs
  <1>6. Min(p.dels) \in Nat /\ Min(p.inss) \in Nat
    BY <1>3, <1>5
  <1>7. MinimumId(p) \in Nat
    BY <1>4, MinIs DEF MinimumId
  <1> QED BY <1>1, <1>2, <1>5, <1>6, <1>7

LEMMA ProposalsAreFinite ==
    ASSUME NEW r, Registered(r)
    PROVE  IsFiniteSet(Proposals(r))
  <1> DEFINE couples == Candidate \X Candidate
             place == [p \in Proposals(r) |-> <<Min(p.dels), Min(p.inss)>>]
  <1>1. \A p \in Proposals(r) : Min(p.dels) \in p.dels /\ Min(p.inss) \in p.inss
                                /\ Min(p.dels) \in Candidate /\ Min(p.inss) \in Candidate
    <2> TAKE p \in Proposals(r)
    <2>1. /\ Min(p.dels) \in p.dels /\ Min(p.inss) \in p.inss
          /\ p.dels \in SUBSET Deleted /\ p.inss \in SUBSET Inserted
      BY ProposalNumbers
    <2> QED BY <2>1, RegistryAssumption DEF Inserted
  <1>2. \A p, q \in Proposals(r) : place[p] = place[q] => p = q
    <2> TAKE p, q \in Proposals(r)
    <2> SUFFICES ASSUME place[p] = place[q] PROVE p = q
      OBVIOUS
    <2>1. Min(p.dels) = Min(q.dels) /\ Min(p.inss) = Min(q.inss)
      OBVIOUS
    <2>2. Min(p.dels) \in p.dels \cap q.dels /\ Min(p.inss) \in p.inss \cap q.inss
      BY <1>1, <2>1
    <2> QED BY <2>2, OnePerPair
  <1>3. place \in [Proposals(r) -> couples]
    BY <1>1
  <1>4. IsFiniteSet(couples)
    BY RegistryAssumption, FS_Product
  <1> HIDE DEF place, couples
  <1>5. place \in Injection(Proposals(r), couples)
    BY <1>2, <1>3 DEF Injection, IsInjective
  <1> QED BY <1>4, <1>5, FS_Injection

\* No two proposals have the same key.
LEMMA KeysDiffer ==
    ASSUME NEW r, Registered(r)
    PROVE  /\ \A p \in Proposals(r) : RankKey(p) \in [1..9 -> Int]
           /\ \A p, q \in Proposals(r) : RankKey(p) = RankKey(q) => p = q
  <1>1. ASSUME NEW p \in Proposals(r) PROVE RankKey(p) \in [1..9 -> Int]
    <2> DEFINE a1 == p.utility + 200 * p.explanatory
               a7 == -MinimumId(p)
               a8 == -Min(p.dels)
               a9 == -Min(p.inss)
    <2>1. /\ a1 \in Int /\ p.utility \in Int /\ p.matched \in Int /\ p.strength \in Int
          /\ p.construct \in Int /\ p.span \in Int /\ a7 \in Int /\ a8 \in Int /\ a9 \in Int
      BY ProposalNumbers
    <2>2. RankKey(p) = <<a1, p.utility, p.matched, p.strength, p.construct, p.span, a7, a8, a9>>
      BY DEF RankKey
    <2> HIDE DEF a1, a7, a8, a9
    <2> QED BY <2>1, <2>2
  <1>2. ASSUME NEW p \in Proposals(r), NEW q \in Proposals(r), RankKey(p) = RankKey(q)
        PROVE  p = q
    <2>1. -Min(p.dels) = -Min(q.dels) /\ -Min(p.inss) = -Min(q.inss)
      BY <1>2 DEF RankKey
    <2>2. /\ Min(p.dels) \in p.dels /\ Min(p.inss) \in p.inss
          /\ Min(p.dels) \in Nat /\ Min(p.inss) \in Nat
      BY ProposalNumbers
    <2>3. /\ Min(q.dels) \in q.dels /\ Min(q.inss) \in q.inss
          /\ Min(q.dels) \in Nat /\ Min(q.inss) \in Nat
      BY ProposalNumbers
    <2>4. Min(p.dels) = Min(q.dels) /\ Min(p.inss) = Min(q.inss)
      BY <2>1, <2>2, <2>3
    <2>5. Min(p.dels) \in p.dels \cap q.dels /\ Min(p.inss) \in p.inss \cap q.inss
      BY <2>2, <2>3, <2>4
    <2> QED BY <2>5, OnePerPair
  <1> QED BY <1>1, <1>2

\* proposal_rank_better as a relation.
BetterOrder(r) == {e \in Proposals(r) \X Proposals(r) : Better(e[1], e[2])}

\* Proposals are ranked without a tie.
LEMMA BetterIsOrder ==
    ASSUME NEW r, Registered(r)
    PROVE  /\ \A p, q \in Proposals(r) : <<p, q>> \in BetterOrder(r) <=> Better(p, q)
           /\ StrictlyOrders(BetterOrder(r), Proposals(r))
           /\ \A p, q \in Proposals(r) :
                 p = q \/ <<p, q>> \in BetterOrder(r) \/ <<q, p>> \in BetterOrder(r)
  <1>1. \A p, q \in Proposals(r) : <<p, q>> \in BetterOrder(r) <=> Better(p, q)
    BY DEF BetterOrder
  <1>2. \A p \in Proposals(r) : RankKey(p) \in [1..9 -> Int]
    BY KeysDiffer
  <1>3. 9 \in Nat
    OBVIOUS
  <1>4. \A p \in Proposals(r) : ~Better(p, p)
    BY <1>2, <1>3, AboveIsOrder DEF Better
  <1>5. \A p, q, w \in Proposals(r) : Better(p, q) /\ Better(q, w) => Better(p, w)
    <2> TAKE p, q, w \in Proposals(r)
    <2>1. RankKey(p) \in [1..9 -> Int] /\ RankKey(q) \in [1..9 -> Int] /\ RankKey(w) \in [1..9 -> Int]
      BY <1>2
    <2> QED BY <1>3, <2>1, AboveIsOrder DEF Better
  <1>6. \A p, q \in Proposals(r) : p = q \/ Better(p, q) \/ Better(q, p)
    <2> TAKE p, q \in Proposals(r)
    <2>1. RankKey(p) \in [1..9 -> Int] /\ RankKey(q) \in [1..9 -> Int]
      BY <1>2
    <2>2. RankKey(p) = RankKey(q) \/ Above(RankKey(p), RankKey(q)) \/ Above(RankKey(q), RankKey(p))
      BY <1>3, <2>1, AboveIsOrder
    <2>3. RankKey(p) = RankKey(q) => p = q
      BY KeysDiffer
    <2> QED BY <2>2, <2>3 DEF Better
  <1>7. StrictlyOrders(BetterOrder(r), Proposals(r))
    BY <1>1, <1>4, <1>5 DEF StrictlyOrders
  <1> QED BY <1>1, <1>6, <1>7

LEMMA RankedIs ==
    ASSUME NEW r, Registered(r)
    PROVE  /\ Ranked(r) \in Seq(Proposals(r))
           /\ \A j, k \in 1..Len(Ranked(r)) : j < k => Better(Ranked(r)[j], Ranked(r)[k])
  <1> DEFINE P == Proposals(r)
             R == BetterOrder(r)
             N == Cardinality(P)
             list == Ranked(r)
             Ahead(x) == Cardinality(Preceding(R, P, x))
  <1>1. /\ IsFiniteSet(P) /\ StrictlyOrders(R, P)
        /\ \A x, y \in P : x = y \/ <<x, y>> \in R \/ <<y, x>> \in R
        /\ \A x, y \in P : <<x, y>> \in R <=> Better(x, y)
    BY BetterIsOrder, ProposalsAreFinite
  <1>2. \A x \in P : Cardinality({y \in P : Better(y, x)}) = Ahead(x)
    <2> TAKE x \in P
    <2>1. {y \in P : Better(y, x)} = Preceding(R, P, x)
      BY <1>1 DEF Preceding
    <2> QED BY <2>1
  <1>3. list = [n \in 1..N |-> CHOOSE x \in P : Cardinality({y \in P : Better(y, x)}) = n - 1]
    BY DEF Ranked, InOrder
  <1> HIDE DEF P, R, list
  <1>4. \A n \in 1..N : \E x \in P : Ahead(x) = n - 1
    BY <1>1, RanksAreTaken
  <1> HIDE DEF Ahead, N
  <1>5. \A n \in 1..N : list[n] \in P /\ Ahead(list[n]) = n - 1
    <2> TAKE n \in 1..N
    <2>1. list[n] = CHOOSE x \in P : Cardinality({y \in P : Better(y, x)}) = n - 1
      BY <1>3
    <2>2. \E x \in P : Cardinality({y \in P : Better(y, x)}) = n - 1
      BY <1>2, <1>4
    <2>3. list[n] \in P /\ Cardinality({y \in P : Better(y, list[n])}) = n - 1
      BY <2>1, <2>2
    <2> QED BY <1>2, <2>3
  <1>6. list \in [1..N -> P]
    BY <1>3, <1>5
  <1>7. /\ list \in Seq(P)
        /\ \A j, k \in 1..Len(list) : j < k => <<list[j], list[k]>> \in R
    BY <1>1, <1>5, <1>6, ListIs DEF Ahead, N
  <1>8. \A n \in 1..Len(list) : list[n] \in P
    BY <1>7
  <1>9. \A j, k \in 1..Len(list) : j < k => Better(list[j], list[k])
    BY <1>1, <1>7, <1>8
  <1> QED BY <1>7, <1>9 DEF P, list

\* No proposal is listed twice.
LEMMA RankedOnce ==
    ASSUME NEW r, Registered(r), NEW j \in 1..Len(Ranked(r)), NEW k \in 1..Len(Ranked(r)), j # k
    PROVE  /\ Ranked(r)[j] \in Proposals(r) /\ Ranked(r)[k] \in Proposals(r)
           /\ Ranked(r)[j] # Ranked(r)[k]
  <1>1. Ranked(r)[j] \in Proposals(r) /\ Ranked(r)[k] \in Proposals(r)
    BY RankedIs
  <1>2. Better(Ranked(r)[j], Ranked(r)[k]) \/ Better(Ranked(r)[k], Ranked(r)[j])
    <2>1. j \in Int /\ k \in Int
      OBVIOUS
    <2>2. j < k \/ k < j
      BY <2>1
    <2> QED BY <2>2, RankedIs
  <1>3. \A p \in Proposals(r) : ~Better(p, p)
    BY BetterIsOrder DEF StrictlyOrders
  <1> QED BY <1>1, <1>2, <1>3

-----------------------------------------------------------------------------
(* What has no partner.                                                    *)

Alone(r) == {g.dels \cup g.inss : g \in {h \in ExactGroups(r) : ~BothSides(h)}}

\* The groups without a partner share nothing.
LEMMA AloneAre ==
    ASSUME NEW r
    PROVE  /\ IsFiniteSet(Alone(r))
           /\ \A S \in Alone(r) : S \in SUBSET Candidate /\ Min(S) \in S /\ Min(S) \in Nat
           /\ \A S, T \in Alone(r) : S # T => S \cap T = {}
  <1>1. \A S \in Alone(r) : \E c \in Candidate : S = Exact(r, c).dels \cup Exact(r, c).inss
    <2> TAKE S \in Alone(r)
    <2>1. PICK g \in ExactGroups(r) : S = g.dels \cup g.inss
      BY DEF Alone
    <2>2. PICK c \in Candidate : g = Exact(r, c)
      BY ExactIs
    <2> QED BY <2>1, <2>2
  <1>2. ASSUME NEW S \in Alone(r)
        PROVE  S \in SUBSET Candidate /\ Min(S) \in S /\ Min(S) \in Nat
    <2>1. PICK c \in Candidate : S = Exact(r, c).dels \cup Exact(r, c).inss
      BY <1>1
    <2>2. S \in SUBSET Candidate /\ c \in S
      BY <2>1, ExactIs, RegistryAssumption DEF Inserted
    <2>3. S \in SUBSET Nat /\ S # {}
      BY <2>2, RegistryAssumption
    <2>4. Min(S) \in S
      BY <2>3, MinIs
    <2> QED BY <2>2, <2>3, <2>4
  <1>3. ASSUME NEW S \in Alone(r), NEW T \in Alone(r), NEW x \in S \cap T
        PROVE  S = T
    <2>1. PICK c \in Candidate : S = Exact(r, c).dels \cup Exact(r, c).inss
      BY <1>1
    <2>2. PICK d \in Candidate : T = Exact(r, d).dels \cup Exact(r, d).inss
      BY <1>1
    <2>3. x \in Candidate
      BY <1>2
    <2>4. Exact(r, x) = Exact(r, c) /\ Exact(r, x) = Exact(r, d)
      BY <2>1, <2>2, <2>3, ExactIs
    <2> QED BY <2>1, <2>2, <2>4
  <1>4. IsFiniteSet(Alone(r))
    <2>1. Alone(r) \subseteq SUBSET Candidate
      BY <1>2
    <2>2. IsFiniteSet(SUBSET Candidate)
      BY RegistryAssumption, FS_SUBSET
    <2> QED BY <2>1, <2>2, FS_Subset
  <1> QED BY <1>2, <1>3, <1>4

EarlierOrder(r) == {e \in Alone(r) \X Alone(r) : Earlier(e[1], e[2])}

LEMMA EarlierIsOrder ==
    ASSUME NEW r, Registered(r)
    PROVE  /\ \A g, h \in Alone(r) : <<g, h>> \in EarlierOrder(r) <=> Earlier(g, h)
           /\ StrictlyOrders(EarlierOrder(r), Alone(r))
           /\ \A g, h \in Alone(r) :
                 g = h \/ <<g, h>> \in EarlierOrder(r) \/ <<h, g>> \in EarlierOrder(r)
  <1>1. \A g, h \in Alone(r) : <<g, h>> \in EarlierOrder(r) <=> Earlier(g, h)
    BY DEF EarlierOrder
  <1>2. \A g \in Alone(r) : Sized(g) \in [1..3 -> Int]
    <2> TAKE g \in Alone(r)
    <2> DEFINE first == IF \E c \in g : Role[c] = "single_child_wrapper" THEN 0 ELSE 1
               span == SpanOf(g)
               last == -Min(g)
    <2>1. span \in Int /\ last \in Int
      BY AloneAre, UnitsAre
    <2>2. first \in Int
      OBVIOUS
    <2>3. Sized(g) = <<first, span, last>>
      BY Zenon DEF Sized
    <2> HIDE DEF first, span, last
    <2> QED BY <2>1, <2>2, <2>3
  <1>3. 3 \in Nat
    OBVIOUS
  <1>4. \A g \in Alone(r) : ~Earlier(g, g)
    BY <1>2, <1>3, AboveIsOrder DEF Earlier
  <1>5. \A g, h, w \in Alone(r) : Earlier(g, h) /\ Earlier(h, w) => Earlier(g, w)
    <2> TAKE g, h, w \in Alone(r)
    <2>1. Sized(g) \in [1..3 -> Int] /\ Sized(h) \in [1..3 -> Int] /\ Sized(w) \in [1..3 -> Int]
      BY <1>2
    <2> QED BY <1>3, <2>1, AboveIsOrder DEF Earlier
  <1>6. \A g, h \in Alone(r) : g = h \/ Earlier(g, h) \/ Earlier(h, g)
    <2> TAKE g, h \in Alone(r)
    <2>1. Sized(g) \in [1..3 -> Int] /\ Sized(h) \in [1..3 -> Int]
      BY <1>2
    <2>2. Sized(g) = Sized(h) \/ Above(Sized(g), Sized(h)) \/ Above(Sized(h), Sized(g))
      BY <1>3, <2>1, AboveIsOrder
    <2>3. Sized(g) = Sized(h) => g = h
      <3> SUFFICES ASSUME Sized(g) = Sized(h) PROVE g = h
        OBVIOUS
      <3>1. -Min(g) = -Min(h)
        BY DEF Sized
      <3>2. Min(g) \in g /\ Min(g) \in Nat /\ Min(h) \in h /\ Min(h) \in Nat
        BY AloneAre
      <3>3. Min(g) = Min(h)
        BY <3>1, <3>2
      <3>4. g \cap h # {}
        BY <3>2, <3>3
      <3> QED BY <3>4, AloneAre
    <2> QED BY <2>2, <2>3 DEF Earlier
  <1>7. StrictlyOrders(EarlierOrder(r), Alone(r))
    BY <1>1, <1>4, <1>5 DEF StrictlyOrders
  <1> QED BY <1>1, <1>6, <1>7

LEMMA LooseIs ==
    ASSUME NEW r, Registered(r)
    PROVE  /\ Loose(r) \in Seq(SUBSET Candidate)
           /\ \A m, n \in 1..Len(Loose(r)) : m # n => Loose(r)[m] \cap Loose(r)[n] = {}
  <1> DEFINE P == Alone(r)
             R == EarlierOrder(r)
             N == Cardinality(P)
             list == Loose(r)
             Ahead(x) == Cardinality(Preceding(R, P, x))
  <1>1. /\ IsFiniteSet(P) /\ StrictlyOrders(R, P)
        /\ \A x, y \in P : x = y \/ <<x, y>> \in R \/ <<y, x>> \in R
        /\ \A x, y \in P : <<x, y>> \in R <=> Earlier(x, y)
    BY EarlierIsOrder, AloneAre
  <1>2. \A x \in P : Cardinality({y \in P : Earlier(y, x)}) = Ahead(x)
    <2> TAKE x \in P
    <2>1. {y \in P : Earlier(y, x)} = Preceding(R, P, x)
      BY <1>1 DEF Preceding
    <2> QED BY <2>1
  <1>3. list = [n \in 1..N |-> CHOOSE x \in P : Cardinality({y \in P : Earlier(y, x)}) = n - 1]
    BY DEF Loose, InOrder, Alone
  <1>a. \A x \in P : x \in SUBSET Candidate
    BY AloneAre
  <1>b. \A x, y \in P : x # y => x \cap y = {}
    BY AloneAre
  <1> HIDE DEF P, R, list
  <1>4. \A n \in 1..N : \E x \in P : Ahead(x) = n - 1
    BY <1>1, RanksAreTaken
  <1> HIDE DEF Ahead, N
  <1>5. \A n \in 1..N : list[n] \in P /\ Ahead(list[n]) = n - 1
    <2> TAKE n \in 1..N
    <2>1. list[n] = CHOOSE x \in P : Cardinality({y \in P : Earlier(y, x)}) = n - 1
      BY <1>3
    <2>2. \E x \in P : Cardinality({y \in P : Earlier(y, x)}) = n - 1
      BY <1>2, <1>4
    <2>3. list[n] \in P /\ Cardinality({y \in P : Earlier(y, list[n])}) = n - 1
      BY <2>1, <2>2
    <2> QED BY <1>2, <2>3
  <1>6. list \in [1..N -> P]
    BY <1>3, <1>5
  <1>7. /\ list \in Seq(P)
        /\ \A j, k \in 1..Len(list) : j < k => <<list[j], list[k]>> \in R
    BY <1>1, <1>5, <1>6, ListIs DEF Ahead, N
  <1>8. \A n \in 1..Len(list) : list[n] \in P
    BY <1>7
  <1>9. list \in Seq(SUBSET Candidate)
    BY <1>7, <1>8, <1>a
  <1>10. \A m, n \in 1..Len(list) : m # n => list[m] \cap list[n] = {}
    <2> TAKE m, n \in 1..Len(list)
    <2> SUFFICES ASSUME m # n PROVE list[m] \cap list[n] = {}
      OBVIOUS
    <2>1. m \in Int /\ n \in Int
      OBVIOUS
    <2>2. m < n \/ n < m
      BY <2>1
    <2>3. <<list[m], list[n]>> \in R \/ <<list[n], list[m]>> \in R
      BY <1>7, <2>2
    <2>4. \A x \in P : <<x, x>> \notin R
      BY <1>1 DEF StrictlyOrders
    <2>5. list[m] # list[n]
      BY <1>8, <2>3, <2>4
    <2> QED BY <1>8, <1>b, <2>5
  <1> QED BY <1>9, <1>10 DEF list

-----------------------------------------------------------------------------
(* A part and its whole, again.                                            *)

\* One candidate spans and holds what it does.
LEMMA OneCounts ==
    ASSUME NEW r, Registered(r), NEW c \in Candidate
    PROVE  UnitsOf(r, {c}) = r.units[c] /\ SpanOf({c}) = Span(c)
  <1> DEFINE units == [x \in {c} |-> r.units[x]]
             spans == [x \in {c} |-> Span(x)]
  <1>1. units \in [{c} -> Nat] /\ spans \in [{c} -> Nat]
    BY RegistryAssumption DEF Registered, Span
  <1>2. units[c] = r.units[c] /\ spans[c] = Span(c)
    OBVIOUS
  <1>3. UnitsOf(r, {c}) = SumOf(units) /\ SpanOf({c}) = SumOf(spans)
    BY DEF UnitsOf, SpanOf
  <1> HIDE DEF units, spans
  <1> QED BY <1>1, <1>2, <1>3, SumOfOne

\* What lies inside a moved construct explains no more than it does, and spans
\* less.
LEMMA PartsAreLess ==
    ASSUME NEW r, Registered(r), NEW p \in Proposals(r), NEW q \in Proposals(r), p # q,
           ExactConstructs(p), Inside(q, p)
    PROVE  q.explanatory <= p.explanatory /\ q.span < p.span
  <1>1. /\ Grounded(r, p) /\ Grounded(r, q)
        /\ p.dels \in SUBSET Deleted /\ p.inss \in SUBSET Inserted
        /\ q.dels \in SUBSET Deleted /\ q.inss \in SUBSET Inserted
        /\ p.explanatory \in Nat /\ q.explanatory \in Nat
    <2>1. /\ p.dels \in SUBSET Deleted /\ p.inss \in SUBSET Inserted /\ p.explanatory \in Nat
      BY ProposalNumbers
    <2>2. /\ q.dels \in SUBSET Deleted /\ q.inss \in SUBSET Inserted /\ q.explanatory \in Nat
      BY ProposalNumbers
    <2> QED BY <2>1, <2>2, ProposedIs
  <1>2. Deleted \subseteq Candidate /\ Inserted \subseteq Candidate /\ Deleted \cap Inserted = {}
    BY RegistryAssumption DEF Inserted
  <1>3. \E d : p.dels = {d}
    <2>1. IsFiniteSet(p.dels) /\ Cardinality(p.dels) = 1
      BY <1>1, <1>2, RegistryAssumption, FS_Subset DEF ExactConstructs, Single
    <2> QED BY <2>1, FS_Singleton
  <1>4. \E i : p.inss = {i}
    <2>1. IsFiniteSet(p.inss) /\ Cardinality(p.inss) = 1
      BY <1>1, <1>2, RegistryAssumption, FS_Subset DEF ExactConstructs, Single
    <2> QED BY <2>1, FS_Singleton
  <1>5. PICK d \in Deleted, i \in Inserted : p.dels = {d} /\ p.inss = {i}
    BY <1>1, <1>3, <1>4
  <1>6. d \in Structural /\ i \in Structural
    BY <1>1, <1>5 DEF Grounded, ExactConstructs
  <1>7. \A c \in q.dels \cup q.inss : Within(c, d) \/ Within(c, i)
    BY <1>5 DEF Inside
  <1>8. /\ q.dels \in SUBSET {c \in Candidate : Within(c, d)}
        /\ q.inss \in SUBSET {c \in Candidate : Within(c, i)}
    <2>1. \A c \in q.dels : Within(c, d)
      BY <1>1, <1>2, <1>5, <1>7 DEF Within, SameSide
    <2>2. \A c \in q.inss : Within(c, i)
      BY <1>1, <1>2, <1>5, <1>7 DEF Within, SameSide
    <2> QED BY <1>1, <1>2, <2>1, <2>2
  <1>9. d \in Candidate /\ i \in Candidate /\ Apart(q.dels) /\ Apart(q.inss)
    BY <1>1, <1>2, <1>5 DEF Grounded
  <1>10. /\ UnitsOf(r, q.dels) <= UnitsOf(r, p.dels) /\ UnitsOf(r, q.inss) <= UnitsOf(r, p.inss)
         /\ UnitsOf(r, q.dels) \in Nat /\ UnitsOf(r, q.inss) \in Nat
         /\ UnitsOf(r, p.dels) \in Nat /\ UnitsOf(r, p.inss) \in Nat
    <2>1. UnitsOf(r, q.dels) <= r.units[d] /\ UnitsOf(r, q.inss) <= r.units[i]
      BY <1>6, <1>8, <1>9 DEF Registered
    <2>2. UnitsOf(r, p.dels) = r.units[d] /\ UnitsOf(r, p.inss) = r.units[i]
      BY <1>5, <1>9, OneCounts
    <2>3. /\ UnitsOf(r, q.dels) \in Nat /\ UnitsOf(r, q.inss) \in Nat
          /\ UnitsOf(r, p.dels) \in Nat /\ UnitsOf(r, p.inss) \in Nat
      BY <1>1, <1>2, UnitsAre
    <2> QED BY <2>1, <2>2, <2>3
  <1>11. q.explanatory <= p.explanatory
    BY <1>1, <1>10 DEF Grounded
  <1>12. /\ SpanOf(q.dels) \in Nat /\ Span(d) \in Nat /\ SpanOf(q.dels) <= Span(d)
         /\ d \notin q.dels => SpanOf(q.dels) < Span(d)
    BY <1>8, <1>9, PartsSpan
  <1>13. /\ SpanOf(q.inss) \in Nat /\ Span(i) \in Nat /\ SpanOf(q.inss) <= Span(i)
         /\ i \notin q.inss => SpanOf(q.inss) < Span(i)
    BY <1>8, <1>9, PartsSpan
  <1>14. p.span = Span(d) + Span(i) /\ q.span = SpanOf(q.dels) + SpanOf(q.inss)
    <2>1. SpanOf(p.dels) = Span(d) /\ SpanOf(p.inss) = Span(i)
      BY <1>5, <1>9, OneCounts
    <2> QED BY <1>1, <2>1 DEF Grounded
  <1>15. d \notin q.dels \/ i \notin q.inss
    <2> SUFFICES ASSUME d \in q.dels, i \in q.inss PROVE FALSE
      OBVIOUS
    <2>1. d \in q.dels \cap p.dels /\ i \in q.inss \cap p.inss
      BY <1>5
    <2> QED BY <2>1, OnePerPair
  <1>16. q.span < p.span
    BY <1>12, <1>13, <1>14, <1>15
  <1> QED BY <1>11, <1>16

\* What build_content_groups hands to the selection is well formed, whatever
\* the registry: every side has endpoints that lie apart, confidence and
\* utility keep their bounds, no proposal is ranked twice or level with another,
\* nothing without a partner is listed twice, and a part of a moved construct
\* explains no more than the construct.
THEOREM ProposalsWellFormed ==
    ASSUME NEW r, Registered(r)
    PROVE  WellFormed(Comparison(r))
  <1> DEFINE i == Comparison(r)
  <1>1. i.units = r.units /\ i.ranked = Ranked(r) /\ i.loose = Loose(r)
    BY DEF Comparison
  <1> HIDE DEF i
  <1>2. \A k \in 1..Len(i.ranked) : i.ranked[k] \in Proposals(r) /\ Grounded(r, i.ranked[k])
    <2> TAKE k \in 1..Len(i.ranked)
    <2>1. i.ranked[k] \in Proposals(r)
      BY <1>1, RankedIs
    <2> QED BY <2>1, ProposedIs
  <1>3. i.units \in [Candidate -> Nat]
    BY <1>1 DEF Registered
  <1>4. /\ i.loose \in Seq(SUBSET Candidate)
        /\ \A m, n \in 1..Len(i.loose) : m # n => i.loose[m] \cap i.loose[n] = {}
    BY <1>1, LooseIs
  <1>5. i.ranked \in Seq(MatchProposal)
    <2>1. i.ranked \in Seq(Proposals(r))
      BY <1>1, RankedIs
    <2>2. \A k \in 1..Len(i.ranked) : i.ranked[k] \in MatchProposal
      BY <1>2 DEF Grounded
    <2> QED BY <2>1, <2>2
  <1>6. \A k \in 1..Len(i.ranked) :
           LET p == i.ranked[k]
           IN /\ BothSides(p)
              /\ p.conf \in Confidence(p)
              /\ Valued(p)
              /\ Apart(p.dels \cup p.inss)
    BY <1>2 DEF Grounded
  <1>7. \A j, k \in 1..Len(i.ranked) :
           j # k /\ ExactConstructs(i.ranked[k]) /\ Inside(i.ranked[j], i.ranked[k]) =>
               /\ i.ranked[j].explanatory <= i.ranked[k].explanatory
               /\ i.ranked[j].span < i.ranked[k].span
    <2> TAKE j, k \in 1..Len(i.ranked)
    <2> SUFFICES ASSUME j # k, ExactConstructs(i.ranked[k]), Inside(i.ranked[j], i.ranked[k])
                 PROVE  /\ i.ranked[j].explanatory <= i.ranked[k].explanatory
                        /\ i.ranked[j].span < i.ranked[k].span
      OBVIOUS
    <2>1. i.ranked[j] # i.ranked[k]
      BY <1>1, RankedOnce
    <2>2. i.ranked[j] \in Proposals(r) /\ i.ranked[k] \in Proposals(r)
      BY <1>2
    <2> QED BY <2>1, <2>2, PartsAreLess
  <1>8. \A j, k \in 1..Len(i.ranked) : j < k => Better(i.ranked[j], i.ranked[k])
    BY <1>1, RankedIs
  <1> QED BY <1>3, <1>4, <1>5, <1>6, <1>7, <1>8 DEF WellFormed, i
=============================================================================
