----------------------------- MODULE PairListing -----------------------------
(***************************************************************************)
(* Somebody reads an analysis while runs write it: `status`, `report`,     *)
(* `show`, and `list` page after page, each a snapshot of its own that no  *)
(* lock protects (srcmove_history/queries.py, report.py, cli.py).  A page  *)
(* is asked for with the number of the last pair shown, which is its       *)
(* distance plus one.  The run itself shows its progress: counts it reads  *)
(* when it begins and adds to after every pair (progress.py), not when the *)
(* pair becomes durable but a moment later.                                *)
(***************************************************************************)
EXTENDS AnalysisRun

CONSTANTS
    Queries,      \* what is listed, records [filter, oldestFirst]
    Limit,        \* pairs to a page
    NoListing,
    Blank         \* nothing on the terminal; no pair yet to be shown

VARIABLES
    listing,   \* the listing under way
    display    \* the progress of the run under way

ASSUME QueryAssumption == Queries \subseteq [filter : {"any", "failed"}, oldestFirst : BOOLEAN]
\* queries.py refuses a limit below one.
ASSUME LimitAssumption == Limit \in Nat \ {0}
\* PairPublished, and the counts on the display with the pair on its way there;
\* nothing that is shown is Blank.
PublishedPairs == [covered : Nat, outcome : Outcomes]
Displays == [covered : Nat, failed : Nat, published : PublishedPairs \cup {Blank}]
ASSUME BlankAssumption == Blank \notin PublishedPairs \cup Displays

\* The distances of the pairs with an outcome that pass the filter.
Selected(filter) ==
    {r.distance : r \in {q \in SealedRows : filter = "failed" => q.outcome \in FailedOutcomes}}

\* What the readers count, by kind of outcome.
Failed(rows) == Cardinality({r \in rows : r.outcome \in FailedOutcomes})

\* status: what is committed, what only has an outcome, and a refusal when
\* the rows do not add up to the two or those of the pending batch have a hole.
Checkpointed == IF HasPending
                THEN Cardinality({s \in DOMAIN batches[Pending].rows : Row(Pending, s).outcome # Open})
                ELSE 0
StatusRefuses == \/ Cardinality(SealedRows) # completed + Checkpointed
                 \/ HasPending /\ ~PrefixContiguous(Pending)

\* report reads only what is committed, and sets it against the whole history.
CommittedRows == UNION {{Row(b, s) : s \in DOMAIN batches[b].rows} :
                           b \in (1..Latest) \ PendingBatches}
ReportRefuses == Cardinality(CommittedRows) # completed
Report ==
    [numbers  |-> {r.distance + 1 : r \in CommittedRows},
     compared |-> Cardinality({r \in CommittedRows : r.outcome \notin FailedOutcomes}),
     failed   |-> Failed(CommittedRows),
     covered  |-> completed, total |-> HistoryPairs, exhausted |-> exhausted]

\* show: the row a pair number stands for.
ShownFor(number) == {r \in SealedRows : r.distance = number - 1}

Before(oldestFirst, d, e) == IF oldestFirst THEN d > e ELSE d < e

BeyondCount(filter, oldestFirst, after, shown) ==  \* faulty, unused
    LET skipped == Cardinality(UNION {shown[i] : i \in DOMAIN shown})
    IN {d \in Selected(filter) :
           Cardinality({e \in Selected(filter) : Before(oldestFirst, e, d)}) >= skipped}

\* after is the number of a pair; 0 stands for the beginning.
Beyond(filter, oldestFirst, after, shown) ==
    {d \in Selected(filter) : after > 0 => Before(oldestFirst, after - 1, d)}

\* The page, and the number to go on after, 0 when there is no more.
Page(filter, oldestFirst, rows) ==
    {d \in rows : Cardinality({e \in rows : Before(oldestFirst, e, d)}) < Limit}
NextAfter(oldestFirst, rows, page) ==
    IF Cardinality(rows) <= Limit THEN 0
    ELSE 1 + CHOOSE d \in page : \A e \in page \ {d} : Before(oldestFirst, e, d)

-----------------------------------------------------------------------------
(* The progress of a run.                                                   *)

ProgressFromCommitted ==  \* faulty, unused
    [covered |-> completed, failed |-> Failed(SealedRows), published |-> Blank]

\* analysis_started: the counts of a status read under the lock.
ProgressStart ==
    [covered |-> completed + Checkpointed, failed |-> Failed(SealedRows),
     published |-> Blank]

\* The publisher hands on what it has just recorded: the pair's place in the
\* batch, counted from the coverage before the batch.
PairPublished(p) ==
    [covered |-> completed + position[p] + 1,
     outcome |-> batches'[Pending].rows[position[p]].outcome]

\* What a step of the run does to its display.
Displayed(p) ==
    IF pc[p] = "begin" /\ pc'[p] = "advance" THEN display' = ProgressStart
    ELSE IF pc[p] = "execute" /\ position'[p] = position[p] + 1
           THEN display' = [display EXCEPT !.published = PairPublished(p)]
    ELSE IF pc'[p] = "idle" THEN display' = Blank
    ELSE display' = display

\* pair_published, of the observer.
ShowPublished(p) ==
    /\ display # Blank /\ display.published # Blank
    /\ pc[p] = "execute"
    /\ display' = [covered |-> Most(display.covered, display.published.covered),
                   failed |-> display.failed +
                       (IF display.published.outcome \in FailedOutcomes THEN 1 ELSE 0),
                   published |-> Blank]
    /\ UNCHANGED <<vars, listing>>

\* The publisher returns before the run goes on; only an interrupt or the end
\* of the process comes between what it recorded and what it shows.
Returned(p) == IF display = Blank THEN TRUE
               ELSE display.published = Blank \/ pc[p] # "execute"

-----------------------------------------------------------------------------
(* Readers.                                                                 *)

\* A listing is one of the MaxRuns invocations.
BeginListing ==
    /\ created /\ listing = NoListing
    /\ runs < MaxRuns /\ runs' = runs + 1
    /\ \E q \in Queries :
          listing' = [filter |-> q.filter, oldestFirst |-> q.oldestFirst, after |-> 0,
                      pages |-> <<>>, more |-> TRUE, owed |-> Selected(q.filter)]
    /\ UNCHANGED <<tables, invocations, lock, pc, locals, failures, crashes, display>>

ListPairs ==
    /\ listing # NoListing /\ listing.more
    /\ LET rows == Beyond(listing.filter, listing.oldestFirst, listing.after, listing.pages)
           page == Page(listing.filter, listing.oldestFirst, rows)
           next == NextAfter(listing.oldestFirst, rows, page)
       IN listing' = [listing EXCEPT !.pages = Append(@, page), !.after = next, !.more = next > 0]
    /\ UNCHANGED <<vars, display>>

EndListing ==
    /\ listing # NoListing /\ ~listing.more
    /\ listing' = NoListing
    /\ UNCHANGED <<vars, display>>

ReadInit == Init /\ listing = NoListing /\ display = Blank

\* A step of a run with what it does to the display; with the process goes its
\* display.
ShownStep(p) ==
    /\ RunStep(p)
    /\ pc'[p] \notin {"interrupted", "idle"} => Returned(p)
    /\ Displayed(p)
    /\ UNCHANGED listing
ShownCrash(p) == Crash(p) /\ display' = Blank /\ UNCHANGED listing

ReadNext == \/ \E p \in Runners : ShownStep(p) \/ ShowPublished(p) \/ ShownCrash(p)
            \/ BeginListing \/ ListPairs \/ EndListing

\* A started run keeps going, through its display too; no reader has to.
ReadVars == <<vars, listing, display>>
ReadFairness == \A p \in Runners :
    WF_ReadVars(pc[p] # "idle" /\ (ShownStep(p) \/ ShowPublished(p)))

ReadSpec == ReadInit /\ [][ReadNext]_ReadVars /\ ReadFairness

-----------------------------------------------------------------------------
(* Properties. *)

\* A listing that ends has shown every pair that had an outcome when it began,
\* none of them twice, and its pages are in order, although pairs become durable
\* in another order than the one it shows them in; and the number it shows a
\* pair under finds that pair and no other.
ListingsAreWhole ==
    listing # NoListing =>
        /\ \A i, j \in DOMAIN listing.pages : i < j =>
              \A d \in listing.pages[i], e \in listing.pages[j] :
                  Before(listing.oldestFirst, d, e)
        /\ \A i \in DOMAIN listing.pages : \A d \in listing.pages[i] :
              Cardinality(ShownFor(d + 1)) = 1
        /\ ~listing.more => listing.owed \subseteq UNION {listing.pages[i] : i \in DOMAIN listing.pages}

\* A report covers the newest pairs without a gap, and says that the history
\* is exhausted exactly when it covers all of it.
ReportsAreWhole ==
    created =>
        LET report == Report
        IN /\ report.numbers = 1..report.covered
           /\ report.compared + report.failed = report.covered
           /\ report.exhausted <=> report.covered = report.total

\* The counts a run shows, which it adds up by itself over resumed and new
\* batches, are those of the durable rows, but for the one pair on its way to
\* the display: never a pair that a crash could take back.
ProgressIsDurable ==
    display # Blank =>
        LET late == IF display.published = Blank THEN 0 ELSE 1
            lateFailed == IF display.published # Blank /\ display.published.outcome \in FailedOutcomes
                            THEN 1 ELSE 0
        IN /\ display.covered + late = Cardinality(SealedRows)
           /\ display.failed + lateFailed = Failed(SealedRows)

\* Readers see one history while it grows, and none of them is ever refused
\* because the rows it finds do not add up.
ReadersSeeOneHistory ==
    /\ created => ~StatusRefuses /\ ~ReportRefuses
    /\ ListingsAreWhole /\ ReportsAreWhole /\ ProgressIsDurable

\* Every run comes to its end, whatever it was asked for and however far an
\* earlier one got: the loop over planned, resumed and committed batches stops.
RunEnds == \A p \in Runners : pc[p] # "idle" ~> pc[p] = "idle"
=============================================================================
