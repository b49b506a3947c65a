------------------------------ MODULE CaseScoring ----------------------------
(***************************************************************************)
(* How a benchmark decides what srcMove made of its cases: the one scratch *)
(* archive all cases pass through (benchmark_cases.py), the gate on what   *)
(* srcDiff exposes (adapter.py), the oracle (oracle.py, evaluate.py), the  *)
(* reviewed labels (label_corrections.py) and the verdict on a pair set    *)
(* (suite.py).  When a process dies, and what it then leaves on disk, is   *)
(* the subject of BenchmarkExecution; here a process leaves or is killed   *)
(* at any point, and later launches go on with the rows there are.         *)
(*                                                                         *)
(* A text stands for its lines without their indentation; that a text      *)
(* matched strictly or tolerantly is reported by the code, but decides     *)
(* nothing and is left out.                                                *)
(***************************************************************************)
EXTENDS Integers, Sequences, FiniteSets

CONSTANTS
    PairSets,    \* what may be benchmarked: a pair set, how it came about, its cases
    Registries,  \* registries of corrections, functions from unordered text pairs
    Damaged,     \* texts with a replacement character or its usual misspelling
    Repaired,    \* what normalize_encoding_damage makes of a text
    Shown,       \* the texts srcMove may report for a fragment, parts included
    Regions,     \* line ranges of regions and nodes in srcDiff's output
    Payload,     \* the line range of a fragment in its wrapper
    Wrapper,     \* the text of a wrapper without a fragment
    None,
    MaxStarts

Categories == {"type1", "type2b", "type2c", "type3"}

\* A generated case: what it claims of two fragments.
CaseRecords ==
    [kind : {"positive", "known_false_positive"}, category : Categories \cup {None},
     from : DOMAIN Repaired \ {Wrapper}, to : DOMAIN Repaired \ {Wrapper}]

ASSUME ScoringAssumption ==
    /\ \A s \in PairSets : s.cases \in Seq(CaseRecords)
                            /\ s.membership \in {"derived", "legacy"}
    /\ None \notin Registries /\ None \notin BOOLEAN

VARIABLES
    selected,   \* what is benchmarked
    edited,     \* the registry in the source tree
    registry,   \* the snapshot the running process loaded
    pinned,     \* the registry in the provenance of the journal
    scores,     \* the journal: case -> terminal row or None
    at,         \* the case the runner is at
    scratch,    \* the scratch archive, file by file
    cached,     \* the development cache: fragments of a case -> output of srcDiff
    diff,       \* the texts srcDiff shows as deleted and as inserted
    report,     \* the results of srcMove, None when not admitted
    retrying,   \* whether failures that may be retried are
    stage, starts, verdict

scoringVars == <<selected, edited, registry, pinned, scores, at, scratch, cached, diff, report,
                 stage, retrying, starts, verdict>>

Cases == selected.cases
Case == Cases[at]
Relationships == {"type1", "type2c", "type3"}

\* The files of the scratch archive: revision and path.
Files == {"original", "modified"} \X {"source", "destination"}
Bare == [f \in Files |-> None]

\* Nothing is cached.  A case is named after its two fragments.
Empty == [key \in (DOMAIN Repaired) \X (DOMAIN Repaired) |-> None]

ScoringInit ==
    /\ selected \in PairSets /\ edited \in Registries
    /\ registry = None /\ pinned = None
    /\ scores = [i \in DOMAIN selected.cases |-> None]
    /\ at = 1 /\ scratch = Bare /\ cached = Empty /\ diff = None /\ report = None
    /\ stage = "down" /\ retrying = FALSE /\ starts = 0 /\ verdict = None

-----------------------------------------------------------------------------
(* Texts and positions. *)

Matches(observed, expected) ==
    \/ observed = expected
    \/ /\ {observed, expected} \cap Damaged # {}
       /\ Repaired[observed] = Repaired[expected]

Covers(range, expected) == range[1] <= expected[1] /\ range[2] >= expected[2]
Overlaps(left, right) == left[1] <= right[2] /\ right[1] <= left[2]

-----------------------------------------------------------------------------
(* The oracle.  A report has a set of atomic groups and tells whether their *)
(* XPaths resolve; a group has endpoints, with texts and ranges, on each    *)
(* side.                                                                    *)

LinksTexts(move, c) ==
    /\ \E e \in move.from : Matches(e.text, c.from)
    /\ \E e \in move.to : Matches(e.text, c.to)

InPlace(move) ==
    /\ \E e \in move.from : Overlaps(e.range, Payload)
    /\ \E e \in move.to : Overlaps(e.range, Payload)

PooledDetection(c, moves) ==  \* faulty, unused
    {m \in moves : LinksTexts(m, c) /\ \E n, k \in moves : InPlace([from |-> n.from, to |-> k.to])}
Detected(c, moves) == {m \in moves : LinksTexts(m, c) /\ InPlace(m)}

KnownFalsePositive(c, r) ==
    IF \E m \in r.moves : LinksTexts(m, c) THEN "srcmove_false_positive" ELSE "oracle_pass"

Positive(c, r, expected) ==
    IF r.moves # {} /\ ~r.resolves THEN "oracle_failure"
    ELSE IF Detected(c, r.moves) = {} THEN "srcmove_miss"
    ELSE IF \E m \in Detected(c, r.moves) : m.relationship = expected THEN "oracle_pass"
    ELSE "wrong_classification"

Outcome(c, r, expected) == IF c.kind = "known_false_positive" THEN KnownFalsePositive(c, r)
                           ELSE Positive(c, r, expected)

-----------------------------------------------------------------------------
(* The reviewed labels. *)

Pair(c) == {c.from, c.to}
Entered(c, corrections) == c.kind = "positive" /\ Pair(c) \in DOMAIN corrections
Corrected(c, corrections) ==
    Entered(c, corrections) /\ corrections[Pair(c)].original = c.category

\* An entry that contradicts the label of a case stops a run over categories that
\* were derived; over those of the older rules it is passed over.
ConflictNeverStops(c, corrections) ==  \* faulty, unused
    FALSE
Conflict(c, corrections) ==
    /\ Entered(c, corrections) /\ ~Corrected(c, corrections)
    /\ selected.membership = "derived"

ReviewedByAnyEntry(c, corrections) ==  \* faulty, unused
    IF Entered(c, corrections) THEN corrections[Pair(c)].reviewed ELSE c.category
ReviewedCategory(c, corrections) ==
    IF Corrected(c, corrections) THEN corrections[Pair(c)].reviewed ELSE c.category

-----------------------------------------------------------------------------
(* The runner.  A row keeps the outcome, the outcome under the reviewed     *)
(* label and what srcMove linked: the relationships it gave to the whole    *)
(* pair in its place, where places resolve, and whether it linked the two   *)
(* texts anywhere.                                                          *)

ScoreRow(outcome, reviewed, linked, anywhere) ==
    [outcome |-> outcome, reviewed |-> reviewed, linked |-> linked, anywhere |-> anywhere]
Unscored(outcome) == ScoreRow(outcome, outcome, {}, FALSE)

ScoredRow(c, r) ==
    ScoreRow(Outcome(c, r, c.category), Outcome(c, r, ReviewedCategory(c, registry)),
        {m.relationship : m \in IF r.resolves THEN Detected(c, r.moves) ELSE {}},
        \E m \in r.moves : LinksTexts(m, c))

OperationalFailures == {"upstream_failure", "srcdiff_semantic_ineligible",
                        "srcmove_tool_failure", "oracle_failure"}
Retryable == OperationalFailures \ {"srcdiff_semantic_ineligible"}

\* A journal takes no process with another registry than it began with.
StartAnyway ==  \* faulty, unused
    /\ stage = "down" /\ starts < MaxStarts
    /\ starts' = starts + 1 /\ retrying' \in BOOLEAN
    /\ registry' = edited /\ pinned' = edited
    /\ at' = 1 /\ stage' = "next"
    /\ UNCHANGED <<selected, edited, scores, scratch, cached, diff, report, verdict>>
StartRunner ==
    /\ stage = "down" /\ starts < MaxStarts
    /\ pinned \in {None, edited}
    /\ starts' = starts + 1 /\ retrying' \in BOOLEAN
    /\ registry' = edited /\ pinned' = edited
    /\ at' = 1 /\ stage' = "next"
    /\ UNCHANGED <<selected, edited, scores, scratch, cached, diff, report, verdict>>

\* Somebody edits the registry.  A running process has loaded its own snapshot,
\* so an edit below it is one after it.
ReviseRegistry ==
    /\ stage = "down" /\ starts < MaxStarts
    /\ edited' \in Registries \ {edited}
    /\ UNCHANGED <<selected, registry, pinned, scores, at, scratch, cached, diff, report,
                   stage, retrying, starts, verdict>>

\* The generated objects of a case, each linked into its file.
MisplacedObjects(c) ==  \* faulty, unused
    [f \in Files |-> CASE f = <<"original", "source">>      -> c.to
                      [] f = <<"modified", "destination">> -> c.from
                      [] OTHER                             -> Wrapper]
Objects(c) == [f \in Files |-> CASE f = <<"original", "source">>      -> c.from
                                [] f = <<"modified", "destination">> -> c.to
                                [] OTHER                             -> Wrapper]

\* The scratch archive is emptied and the objects of the next case are linked,
\* whether the case still has to run or not.
ClearScratch ==
    /\ stage = "next" /\ at <= Len(Cases)
    /\ scratch' = Bare
    /\ stage' = "link1"
    /\ UNCHANGED <<selected, edited, registry, pinned, scores, at, cached, diff, report,
                   retrying, starts, verdict>>

\* One file after the other; a link, hard or symbolic, replaces no file.
LinkOrder == << <<"original", "source">>, <<"original", "destination">>,
                <<"modified", "source">>, <<"modified", "destination">> >>
LinkStages == <<"link1", "link2", "link3", "link4", "linked">>
LinkObject ==
    \E k \in 1..4 :
        /\ stage = LinkStages[k] /\ scratch[LinkOrder[k]] = None
        /\ scratch' = [scratch EXCEPT ![LinkOrder[k]] = Objects(Case)[LinkOrder[k]]]
        /\ stage' = LinkStages[k + 1]
        /\ UNCHANGED <<selected, edited, registry, pinned, scores, at, cached, diff, report,
                       retrying, starts, verdict>>

Settled(i) == scores[i] # None /\ ~(retrying /\ scores[i].outcome \in Retryable)

\* On to the next case, with the scratch archive emptied.
Advance ==
    /\ scratch' = Bare /\ at' = at + 1 /\ stage' = "next" /\ diff' = None /\ report' = None
    /\ UNCHANGED <<selected, edited, registry, pinned, cached, retrying, starts, verdict>>

ReuseRow == stage = "linked" /\ Settled(at) /\ Advance /\ UNCHANGED scores

FinishCase(row) == scores' = [scores EXCEPT ![at] = row] /\ Advance

\* What a comparison of the two revisions shows as gone and as new.
Changed(paths, revision) ==
    {scratch[<<revision, p>>] : p \in {q \in paths :
        scratch[<<"original", q>>] # scratch[<<"modified", q>>]}} \ {Wrapper}
DiffOf == [deleted  |-> Changed({"source", "destination"}, "original"),
           inserted |-> Changed({"source", "destination"}, "modified")]

CacheKeyOfFirst(c) ==  \* faulty, unused
    <<c.from, c.from>>
CacheKey(c) == <<c.from, c.to>>

\* The output of an earlier run on the case is restored from the cache,
RestoreDiff ==
    /\ stage = "linked" /\ ~Settled(at)
    /\ cached[CacheKey(Case)] # None
    /\ diff' = cached[CacheKey(Case)] /\ stage' = "shown"
    /\ UNCHANGED <<selected, edited, registry, pinned, scores, at, scratch, cached, report,
                   retrying, starts, verdict>>

\* or srcDiff runs: there is no entry, none may be used or it is damaged.  Output
\* that is admitted is stored, unless the cache is off or the storing fails.
RunSrcdiff ==
    /\ stage = "linked" /\ ~Settled(at)
    /\ diff' = DiffOf
    /\ \/ /\ stage' = "shown"
          /\ cached' \in {cached, [cached EXCEPT ![CacheKey(Case)] = DiffOf]}
       \/ stage' = "rejected" /\ UNCHANGED cached
    /\ UNCHANGED <<selected, edited, registry, pinned, scores, at, scratch, report,
                   retrying, starts, verdict>>

\* The correction is looked up before anything is made of the output, admitted or
\* not: a registry that conflicts with the label of the case stops the run, with
\* the row left running.
LookUpCorrection ==
    \/ /\ stage \in {"shown", "rejected"}
       /\ \/ Conflict(Case, registry) /\ stage' = "leaving"
          \/ ~Conflict(Case, registry) /\ stage = "shown" /\ stage' = "diffed"
       /\ UNCHANGED <<selected, edited, registry, pinned, scores, at, scratch, cached, diff,
                      report, retrying, starts, verdict>>
    \/ /\ stage = "rejected" /\ ~Conflict(Case, registry)
       /\ FinishCase(Unscored("upstream_failure"))

\* Some region must cover the whole payload on each side.
Exposed(deletions, insertions) ==
    /\ \E d \in deletions : Covers(d, Payload)
    /\ \E i \in insertions : Covers(i, Payload)

CheckExposure ==
    /\ stage = "diffed"
    /\ \E deletions, insertions \in SUBSET Regions :
          IF Exposed(deletions, insertions)
          THEN /\ stage' = "eligible"
               /\ UNCHANGED <<selected, edited, registry, pinned, scores, at, scratch,
                              cached, diff, report, retrying, starts, verdict>>
          ELSE FinishCase(Unscored("srcdiff_semantic_ineligible"))

\* A report srcMove may give: one group with up to two endpoints on each side,
\* or two with one (a bound).
Endpoints(texts) == [text : UNION {Shown[t] : t \in texts}, range : Regions]
Sides(texts, n) == {e \in SUBSET Endpoints(texts) : Cardinality(e) \in 1..n}
Groups(n) == [from : Sides(diff.deleted, n), to : Sides(diff.inserted, n),
              relationship : Relationships]
GroupSets == {{}} \cup {{m} : m \in Groups(2)} \cup {{m, n} : m, n \in Groups(1)}
Reports == [moves : GroupSets, resolves : BOOLEAN]

RunSrcmove ==
    /\ stage = "eligible"
    /\ report' \in Reports
    /\ stage' = "reported"
    /\ UNCHANGED <<selected, edited, registry, pinned, scores, at, scratch, cached, diff,
                   retrying, starts, verdict>>

\* srcMove failed, its results are missing, empty, malformed or invalid, or the
\* annotated XML that a review asked for is missing or empty.
SrcmoveNotAdmitted == stage = "eligible" /\ FinishCase(Unscored("srcmove_tool_failure"))

ScoreReport == stage = "reported" /\ FinishCase(ScoredRow(Case, report))

OriginalCount(outcome) ==  \* faulty, unused
    Cardinality({i \in DOMAIN Cases : scores[i].outcome = outcome})
ReviewedCount(outcome) == Cardinality({i \in DOMAIN Cases : scores[i].reviewed = outcome})

PairSetPasses ==
    IF selected.pairSet = "type3" THEN \A f \in OperationalFailures : ReviewedCount(f) = 0
    ELSE ReviewedCount("oracle_pass") = Len(Cases)

PairResult ==
    /\ stage = "next" /\ at > Len(Cases)
    /\ verdict' = PairSetPasses
    /\ stage' = "leaving"
    /\ UNCHANGED <<selected, edited, registry, pinned, scores, at, scratch, cached, diff,
                   report, retrying, starts>>

\* The process leaves or is killed; the next one has a scratch of its own.
Leave ==
    /\ stage # "down"
    /\ stage' = "down" /\ scratch' = Bare /\ diff' = None /\ report' = None
    /\ at' = 1 /\ registry' = None /\ retrying' = FALSE /\ verdict' = None
    /\ UNCHANGED <<selected, edited, pinned, scores, cached, starts>>

ScoringNext ==
    \/ StartRunner \/ ReviseRegistry \/ ClearScratch \/ LinkObject \/ ReuseRow
    \/ RestoreDiff \/ RunSrcdiff \/ LookUpCorrection
    \/ CheckExposure \/ RunSrcmove \/ SrcmoveNotAdmitted \/ ScoreReport \/ PairResult \/ Leave

ScoringSpec == ScoringInit /\ [][ScoringNext]_scoringVars

-----------------------------------------------------------------------------
(* Properties. *)

\* The results that are scored for a case come from a comparison of its own two
\* fragments and of nothing else, although every case passes through the same
\* four files, output comes back from a cache that outlives the runs, and cases
\* may be skipped, interrupted and run again.
JudgedOnItsOwn ==
    stage = "reported" => diff = [deleted |-> {Case.from}, inserted |-> {Case.to}]

Alone(move) == [report EXCEPT !.moves = {move}]

\* One reported group decides (README of bigMoveBench: position evidence of
\* another move cannot satisfy the oracle, unrelated moves are allowed): a report
\* scores what the most telling of its groups scores on its own, and a group that
\* detects the pair as a positive case is a false positive where the same pair is
\* known not to be a clone.
OneMoveDecides ==
    stage = "reported" /\ report.moves # {} =>
        LET alone == {Outcome(Case, Alone(m), Case.category) : m \in report.moves}
            ranked == <<"srcmove_false_positive", "oracle_failure", "oracle_pass",
                        "wrong_classification", "srcmove_miss">>
            negative == [Case EXCEPT !.kind = "known_false_positive"]
        IN /\ Outcome(Case, report, Case.category) =
                  ranked[CHOOSE k \in 1..5 : /\ ranked[k] \in alone
                                             /\ \A j \in 1..(k - 1) : ranked[j] \notin alone]
           /\ Positive(Case, report, Case.category) \in {"oracle_pass", "wrong_classification"}
                  => KnownFalsePositive(negative, report) = "srcmove_false_positive"

\* Neither another case nor another group of the same report decides a case.
CasesJudgedApart == JudgedOnItsOwn /\ OneMoveDecides

\* The label a case stands under: an entry of the registry that the journal names
\* counts where it was made for the label the case has.
Meant(c) == Pair(c) \in DOMAIN pinned /\ pinned[Pair(c)].original = c.category
Label(c) == IF Meant(c) THEN pinned[Pair(c)].reviewed ELSE c.category

\* A correction of a label moves a case between agreement and disagreement about
\* the category and nowhere else, and only a case it was made for; an entry that
\* was made for another label changes nothing, and over derived categories the
\* case then gets no row at all.  All rows of a run stand under the registry the
\* journal names, whatever was edited between launches, and the inherited label
\* keeps its own outcome.
ReviewOnlyRelabels ==
    \A i \in DOMAIN Cases :
        LET row == scores[i] c == Cases[i]
            Agreement(category) == IF category \in row.linked THEN "oracle_pass"
                                   ELSE "wrong_classification"
        IN row # None /\ c.kind = "positive" =>
              /\ row.outcome = row.reviewed
                 \/ /\ {row.outcome, row.reviewed} = {"oracle_pass", "wrong_classification"}
                    /\ Meant(c)
              /\ row.outcome \in {"oracle_pass", "wrong_classification"} =>
                    /\ row.outcome = Agreement(c.category)
                    /\ row.reviewed = Agreement(Label(c))
              /\ selected.membership = "derived" /\ Pair(c) \in DOMAIN pinned => Meant(c)

\* A required pair set passes only when srcMove linked every positive pair in its
\* place under its reviewed category and no known false positive anywhere.
PassIsEarned ==
    verdict = TRUE /\ selected.pairSet # "type3" =>
        \A i \in DOMAIN Cases :
            IF Cases[i].kind = "positive"
            THEN Label(Cases[i]) \in scores[i].linked
            ELSE ~scores[i].anywhere

\* What a run reports in the end follows from its rows and the pinned registry.
VerdictIsEarned == ReviewOnlyRelabels /\ PassIsEarned
=============================================================================
