----------------------------- MODULE CatalogFrames ---------------------------
(***************************************************************************)
(* From the rows of BigCloneBench to the cases of a benchmark: the catalog *)
(* (bigMoveBench/catalog.py), the frames selected from it (selection.py,   *)
(* categories.py) and the cases made of them (benchmark_cases.py).  Where  *)
(* BenchmarkArtifacts is about when these are published, this module is    *)
(* about what is in them.                                                  *)
(*                                                                         *)
(* A row is a labelled pair of functions; a fragment is the text of a      *)
(* function and stands, as a number, for its SHA-256.  Which frames a      *)
(* sample takes depends on hashes and is left open.                        *)
(***************************************************************************)
EXTENDS Naturals, Sequences, FiniteSets, FiniteSetsExt

CONSTANTS
    Exports,      \* bags of exported rows, functions from rows to counts
    SourceTrees,  \* what (functionality, function) is found in the source files
    Strata,       \* lower bounds of the type-3 strata, falling, the last one 0
    SampleSizes,
    Missing          \* a source that is missing or that nothing can be extracted from

\* A labelled pair of functions as it is exported; similarities in hundredths.
ExportRows ==
    [kind : {"positive", "known_false_positive"}, functionality : Nat, type : Nat,
     line : 0..100, token : 0..100, one : Nat, two : Nat]

ASSUME ExportsAssumption ==
    \A bag \in Exports :
        /\ DOMAIN bag \subseteq ExportRows /\ IsFiniteSet(DOMAIN bag)
        /\ \A r \in DOMAIN bag : bag[r] \in Nat

\* A function that a row names is a fragment of its file or cannot be had.
ASSUME SourcesAssumption ==
    \A bag \in Exports, tree \in SourceTrees : \A r \in DOMAIN bag :
        {tree[<<r.functionality, r.one>>], tree[<<r.functionality, r.two>>]}
            \subseteq Nat \cup {Missing}

\* The last stratum has no lower bound (its None is 0 here, as in the report).
ASSUME StrataAssumption ==
    Strata \in Seq(Nat) /\ Len(Strata) > 0 /\ Strata[Len(Strata)] = 0

ASSUME SampleSizesAssumption == SampleSizes \subseteq Nat

VARIABLES exported, sources, catalog, request, selection, caseTable, stage

catalogVars == <<exported, sources, catalog, request, selection, caseTable, stage>>

PairSets == {"type1", "type2b", "type2c", "type3", "known-false-positive"}
Requests == {r \in [pairSet : PairSets, dedupe : {"unordered", "none"},
                     mode : {"sample", "census"}, size : SampleSizes \cup {Missing}] :
                 r.mode = "census" <=> r.size = Missing}

\* What the table of pairs admits; its references to fragments are nullable.
PairRows == [row : ExportRows, multiplicity : Nat \ {0},
             first : Nat \cup {Missing}, second : Nat \cup {Missing}]
\* The tables of cases and of their rows, which are never empty.
CaseRecords == [id : Nat \X Nat, moves : {0, 1}, rows : (SUBSET PairRows) \ {{}},
                stratum : DOMAIN Strata \cup {Missing}]

CatalogInit ==
    /\ exported \in Exports /\ sources \in SourceTrees
    /\ catalog = {} /\ request = Missing /\ selection = Missing /\ caseTable = {}
    /\ stage = "exported"

-----------------------------------------------------------------------------
(* The catalog. *)

RowsEver == DOMAIN exported  \* faulty, unused
ExportedRows == {r \in DOMAIN exported : exported[r] > 0}
Materializations ==
    UNION {{<<r.functionality, r.one>>, <<r.functionality, r.two>>} : r \in ExportedRows}
Conflicting == \E m, n \in Materializations :
                  /\ m[2] = n[2] /\ sources[m] # sources[n]
                  /\ Missing \notin {sources[m], sources[n]}

\* Equal rows are one catalog row with a multiplicity.
PairRow(r) == [row |-> r, multiplicity |-> exported[r],
               first |-> sources[<<r.functionality, r.one>>],
               second |-> sources[<<r.functionality, r.two>>]]

\* Both fragments are there, or the row is unavailable.
Available(p) == Missing \notin {p.first, p.second}
UnorderedPair(p) == {p.first, p.second}

CompileCatalog ==
    /\ stage = "exported"
    /\ IF Conflicting THEN stage' = "refused" /\ UNCHANGED catalog
       ELSE stage' = "compiled" /\ catalog' = {PairRow(r) : r \in ExportedRows}
    /\ UNCHANGED <<exported, sources, request, selection, caseTable>>

-----------------------------------------------------------------------------
(* Which rows a selection is about. *)

Category(r) ==
    CASE r.type = 1 -> "type1"
      [] r.type = 2 -> "type2c"
      [] r.type = 3 /\ r.line >= 100 /\ r.token >= 100 -> "type2b"
      [] OTHER -> "type3"

InPairSet(p, pairSet) ==
    IF pairSet = "known-false-positive" THEN p.row.kind = "known_false_positive"
    ELSE p.row.kind = "positive" /\ Category(p.row) = pairSet

Labelled(kind) == {UnorderedPair(p) : p \in {q \in catalog : Available(q) /\ q.row.kind = kind}}
\* Contents that some row labels a clone and another a false positive.
ConflictIds == Labelled("positive") \cap Labelled("known_false_positive")

RowsOf(req) == {p \in catalog : InPairSet(p, req.pairSet)}
UnscreenedRows(req) == {p \in RowsOf(req) : Available(p)}  \* faulty, unused
EligibleRows(req) == {p \in RowsOf(req) : Available(p) /\ UnorderedPair(p) \notin ConflictIds}
ConflictRows(req) == {p \in RowsOf(req) : Available(p) /\ UnorderedPair(p) \in ConflictIds}
UnavailableRows(req) == {p \in RowsOf(req) : ~Available(p)}

OrderedKey(req, p) ==  \* faulty, unused
    IF req.dedupe = "unordered" THEN <<p.first, p.second>> ELSE p.row
FrameKey(req, p) == IF req.dedupe = "unordered" THEN UnorderedPair(p) ELSE p.row
Frames(req, rows) == {FrameKey(req, p) : p \in rows}
FrameRows(req, key) == {p \in RowsOf(req) : Available(p) /\ FrameKey(req, p) = key}

\* The sum of the values of a function, as the number of the units in it.
SumOf(count) == Cardinality(UNION {{x} \X (1..count[x]) : x \in DOMAIN count})
SourceRows(rows) == SumOf([p \in rows |-> p.multiplicity])

-----------------------------------------------------------------------------
(* Samples. *)

LesserOf(a, b) == IF a < b THEN a ELSE b
BothSimilarity(p) == LesserOf(p.row.line, p.row.token)
\* A frame is as strong as the weakest row that asserts it.
Strength(rows) == Min({BothSimilarity(p) : p \in rows})
Stratum(strength) == CHOOSE i \in DOMAIN Strata :
    /\ strength >= Strata[i]
    /\ i > 1 => strength < Strata[i - 1]

InStratum(req, i) ==
    {k \in Frames(req, EligibleRows(req)) : Stratum(Strength(FrameRows(req, k))) = i}

\* The first of the strata that have frames left.
Leading(active, places) ==
    CHOOSE first \in kSubset(places, active) : \A i \in first, j \in active \ first : i < j

\* A round adds equally to the strata that have frames left; when there is less
\* than one for each, the first ones take the rest.
Pour(eligible, poured) ==
    LET active == {i \in DOMAIN Strata : poured.allocation[i] < eligible[i]}
        quotient == poured.remaining \div Cardinality(active)
        Addition(i) ==
            IF i \notin active THEN 0
            ELSE IF quotient > 0 THEN LesserOf(quotient, eligible[i] - poured.allocation[i])
            ELSE IF i \in Leading(active, poured.remaining) THEN 1 ELSE 0
        additions == [i \in DOMAIN Strata |-> Addition(i)]
    IN  IF poured.remaining = 0 \/ active = {} THEN poured
        ELSE [allocation |-> [i \in DOMAIN Strata |-> poured.allocation[i] + additions[i]],
              remaining |-> poured.remaining - SumOf(additions)]

\* Every round places something, so that these are enough.
Rounds(start, eligible, places) ==
    LET round[n \in 0..places] ==
            IF n = 0 THEN [allocation |-> start, remaining |-> places]
            ELSE Pour(eligible, round[n - 1])
    IN  round

Waterfill(start, eligible, places) == Rounds(start, eligible, places)[places].allocation

Allocable(eligible, size) ==
    /\ \A i \in DOMAIN Strata : eligible[i] > 0
    /\ LesserOf(size, SumOf(eligible)) >= Len(Strata)
GreedyAllocation(eligible, size) ==  \* faulty, unused
    [i \in DOMAIN Strata |->
        IF i = 1 THEN LesserOf(eligible[1], LesserOf(size, SumOf(eligible)) - Len(Strata) + 1)
        ELSE 1]
EqualAllocation(eligible, size) ==
    Waterfill([i \in DOMAIN Strata |-> 1], eligible,
              LesserOf(size, SumOf(eligible)) - Len(Strata))

Eligible(req) == [i \in DOMAIN Strata |-> Cardinality(InStratum(req, i))]
Type3Samples(req) ==
    LET allocation == EqualAllocation(Eligible(req), req.size)
    IN  {chosen \in SUBSET Frames(req, EligibleRows(req)) :
            \A i \in DOMAIN Strata :
                Cardinality(chosen \cap InStratum(req, i)) = allocation[i]}
Samples(req) ==
    LET frames == Frames(req, EligibleRows(req))
    IN  kSubset(LesserOf(req.size, Cardinality(frames)), frames)

\* A census takes every frame.
Draws(req) ==
    IF req.mode = "census" THEN {Frames(req, EligibleRows(req))}
    ELSE IF req.pairSet = "type3" THEN Type3Samples(req)
    ELSE Samples(req)

-----------------------------------------------------------------------------
(* A selection. *)

\* Fragments in ascending order, or as the row has them.
Direction(req, rows) ==
    LET p == CHOOSE q \in rows : TRUE
    IN  IF req.dedupe = "none" THEN <<p.first, p.second>>
        ELSE <<Min({p.first, p.second}), Max({p.first, p.second})>>

Reversed(p, direction) == p.first # p.second /\ <<p.first, p.second>> # direction

Frame(req, key) ==
    LET rows == FrameRows(req, key)
        direction == Direction(req, rows)
    IN  [key |-> key, direction |-> direction, rows |-> rows,
         reverse |-> {p \in rows : Reversed(p, direction)}]

\* The counts come from queries of their own.
CountAllRows(req, rows) == Cardinality(rows)  \* faulty, unused
CountFrames(req, rows) == IF req.dedupe = "unordered"
                          THEN Cardinality({UnorderedPair(p) : p \in rows})
                          ELSE Cardinality(rows)
ScalarCounts(req) ==
    [eligible |-> CountFrames(req, EligibleRows(req)),
     eligibleSource |-> SourceRows(EligibleRows(req)),
     conflict |-> CountFrames(req, ConflictRows(req)),
     conflictSource |-> SourceRows(ConflictRows(req)),
     unavailableSource |-> SourceRows(UnavailableRows(req))]

\* In a type-3 sample the frames that were not taken are counted, not listed.
Listed(req, chosen) ==
    IF req.mode = "sample" /\ req.pairSet # "type3"
    THEN Frames(req, EligibleRows(req)) \ chosen ELSE {}

Selection(req, chosen) ==
    [frames |-> {Frame(req, k) : k \in chosen},
     conflicts |-> Frames(req, ConflictRows(req)),
     passedOver |-> Listed(req, chosen),
     unavailable |-> UnavailableRows(req),
     counts |-> ScalarCounts(req),
     sampleExcluded |-> ScalarCounts(req).eligible - Cardinality(chosen)]

SelectFrames ==
    /\ stage = "compiled"
    /\ \E req \in Requests :
          /\ request' = req
          /\ IF req.mode = "sample" /\ req.pairSet = "type3" /\ ~Allocable(Eligible(req), req.size)
             THEN selection' = Missing /\ stage' = "compiled"
             ELSE /\ stage' = "selected"
                  /\ \E chosen \in Draws(req) : selection' = Selection(req, chosen)
    /\ caseTable' = {}
    /\ UNCHANGED <<exported, sources, catalog>>

-----------------------------------------------------------------------------
(* The cases.  The identity of a case is that of its generated input. *)

Case(frame) ==
    [id |-> frame.direction,
     moves |-> IF request.pairSet = "known-false-positive" THEN 0 ELSE 1,
     rows |-> frame.rows,
     stratum |-> IF request.pairSet = "type3" THEN Stratum(Strength(frame.rows)) ELSE Missing]

CaseIdsUnique == \A f, g \in selection.frames : f.direction = g.direction => f = g

WriteCases ==
    /\ stage = "selected"
    /\ IF CaseIdsUnique
       THEN caseTable' = {Case(f) : f \in selection.frames} /\ stage' = "published"
       ELSE stage' = "refused" /\ UNCHANGED caseTable
    /\ UNCHANGED <<exported, sources, catalog, request, selection>>

CatalogNext == CompileCatalog \/ SelectFrames \/ WriteCases

CatalogSpec == CatalogInit /\ [][CatalogNext]_catalogVars

-----------------------------------------------------------------------------
(* Properties. *)

\* The tables hold what their declarations admit, and an exported row has one
\* row of the catalog: the stages never write a record that the database of
\* the next would refuse.
RecordsAdmitted ==
    /\ stage \in {"exported", "compiled", "selected", "published", "refused"}
    /\ catalog \subseteq PairRows
    /\ \A p, q \in catalog : p.row = q.row => p = q
    /\ request \in Requests \cup {Missing}
    /\ caseTable \subseteq CaseRecords

\* Every exported row of the pair set is accounted for once: it is in one
\* selected frame, in one that was passed over, excluded for its label, or
\* unavailable.
RowsReconcile ==
    selection # Missing =>
        LET taken == {f.key : f \in selection.frames}
            eligible == Frames(request, EligibleRows(request))
            frameRows == UNION {f.rows : f \in selection.frames}
            conflictRows == UNION {FrameRows(request, k) : k \in selection.conflicts}
            passedRows == UNION {FrameRows(request, k) : k \in eligible \ taken}
            parts == <<frameRows, conflictRows, passedRows, selection.unavailable>>
        IN  /\ UNION {parts[i] : i \in 1..4} = RowsOf(request)
            /\ \A i, j \in 1..4 : i # j => parts[i] \cap parts[j] = {}
            /\ \A f, g \in selection.frames : f # g => f.rows \cap g.rows = {}

\* The counts, which come from queries of their own, agree with the rows.
CountsReconcile ==
    selection # Missing =>
        LET taken == {f.key : f \in selection.frames}
            eligible == Frames(request, EligibleRows(request))
            rows == {r \in ExportedRows : InPairSet(PairRow(r), request.pairSet)}
        IN  /\ selection.sampleExcluded = Cardinality(eligible \ taken)
            /\ selection.counts.conflict = Cardinality(selection.conflicts)
            /\ selection.counts.eligibleSource + selection.counts.conflictSource
                 + selection.counts.unavailableSource
               = SumOf([r \in rows |-> exported[r]])

\* No content is scored both as a move that must be found and as one that must
\* not: whatever the pair set, mode and deduplication, a selected frame has no
\* available row of the other label.
OneLabelPerInput ==
    selection # Missing =>
        \A f \in selection.frames : \A p \in f.rows, q \in catalog :
            Available(q) /\ UnorderedPair(q) = UnorderedPair(p) => q.row.kind = p.row.kind

\* Under the default deduplication the cases can always be published, and no
\* content is run twice, in either direction.
ContentRunsOnce ==
    request # Missing /\ request.dedupe = "unordered" =>
        /\ stage # "refused"
        /\ \A c, d \in caseTable : {c.id[1], c.id[2]} = {d.id[1], d.id[2]} => c = d

\* A content has one label and one run.
EachContentOnce == OneLabelPerInput /\ ContentRunsOnce

\* A type-3 sample has the size asked for, or all there is, and no stratum has
\* two frames more than another that has some left.
SampleIsEven ==
    (selection # Missing /\ request.pairSet = "type3" /\ request.mode = "sample") =>
        LET Taken(i) == {f.key : f \in selection.frames} \cap InStratum(request, i)
            taken == [i \in DOMAIN Strata |-> Cardinality(Taken(i))]
        IN  /\ SumOf(taken) = LesserOf(request.size, SumOf(Eligible(request)))
            /\ \A i, j \in DOMAIN Strata :
                  taken[i] + 1 < taken[j] => taken[i] = Eligible(request)[i]

\* The tables hold what they admit, nothing is lost between the catalog and the
\* sample, and the sample is even.
SelectionIsFair == RecordsAdmitted /\ RowsReconcile /\ CountsReconcile /\ SampleIsEven
=============================================================================
