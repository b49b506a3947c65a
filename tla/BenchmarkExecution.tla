-------------------------- MODULE BenchmarkExecution -------------------------
(***************************************************************************)
(* The serial execution of benchmark cases                                 *)
(* (bigMoveBench/normalized_execution.py) over its SQLite journal: what a  *)
(* run directory holds while runs of it are interrupted, killed and        *)
(* resumed, with or without a retry of failures and with or without the    *)
(* development cache of srcDiff output.  One process at a time works on a  *)
(* run directory; nothing in the code enforces that.                       *)
(***************************************************************************)
EXTENDS ToolAttempts, Trouble, FiniteSets

CONSTANTS
    CaseCount,     \* cases 1, 2, ... of the benchmark-cases database
    Modes,         \* options of a launch: [retry, cache, refresh, capture]
    Scores,        \* outcomes of the scoring oracle that may come up
    NoOutcome,     \* no result
    MaxLaunches,   \* processes started on the run directory
    Unbuilt,       \* no build of the tools
    Mangled        \* a cache entry that is damaged

CaseNumbers == 1..CaseCount
ScoringOutcomes == {"srcmove_miss", "srcmove_false_positive", "wrong_classification",
                    "oracle_failure", "oracle_pass"}
Outcomes == {"upstream_failure", "srcdiff_semantic_ineligible", "srcmove_tool_failure"}
                \cup ScoringOutcomes
RetryableFailures == {"upstream_failure", "srcmove_tool_failure", "oracle_failure"}

\* What srcMove is asked for besides its results: nothing, diagnostics, or, for
\* a Type-3 review, diagnostics and the annotated XML.
Captures == {"plain", "diagnostics", "review"}
\* What becomes of the annotated XML: no file, an empty one, a whole one.
Annotations == {"none", "empty", "whole"}

ASSUME ExecutionAssumption ==
    /\ CaseCount \in Nat \ {0} /\ MaxLaunches \in Nat
    /\ Modes \subseteq {m \in [retry : BOOLEAN, cache : BOOLEAN, refresh : BOOLEAN,
                               capture : Captures] : m.refresh => m.cache}
    /\ Scores \subseteq ScoringOutcomes
    /\ NoOutcome \notin Outcomes
    /\ Unbuilt \notin Nat /\ Mangled \notin Nat

VARIABLES
    journal,    \* run_metadata of execution.sqlite
    attempts,   \* the rows of every case, in the order of their ordinals
    cache,      \* case -> build whose srcDiff output is in the cache
    csv,        \* outcomes in cases.csv
    summary,    \* summary.json
    runner,     \* the process
    installed,  \* the build of the tools that is installed
    launches

durable == <<journal, attempts, cache, csv, summary>>
vars == <<tools, troubles, durable, runner, installed, launches>>

\* What the tables of the journal admit.  A row is taken together with the
\* annotated XML beside the results of the srcMove attempt it names.
Journals == [made : {"none", "incomplete", "ready"}, status : {"running", "completed"},
             build : {Unbuilt, 0, 1}, cache : BOOLEAN, diagnostics : BOOLEAN]
AttemptRows ==
    {row \in [status : {"running", "interrupted", "terminal"},
              outcome : Outcomes \cup {NoOutcome},
              srcdiff : 0..Len(tools), srcmove : 0..Len(tools), hit : BOOLEAN,
              completed : {0, 1}, annotated : Annotations] :
        row.status = "terminal" => row.outcome # NoOutcome}

NoJournal == [made |-> "none", status |-> "running", build |-> Unbuilt, cache |-> FALSE,
              diagnostics |-> FALSE]
NoSummary == [outcome |-> [c \in CaseNumbers |-> NoOutcome], completed |-> 0,
              eligible |-> 0, interrupted |-> 0, hits |-> 0]
Idle == [retry |-> FALSE, cache |-> FALSE, refresh |-> FALSE, capture |-> "plain"]
Down(exit) == [at |-> "down", exit |-> exit, mode |-> Idle, build |-> Unbuilt, case |-> 0,
               dir |-> 0, pending |-> {}, record |-> NoOutcome]

Row == [status |-> "running", outcome |-> NoOutcome, srcdiff |-> 0, srcmove |-> 0,
        hit |-> FALSE, completed |-> 0, annotated |-> "none"]

Init ==
    /\ tools = << >> /\ troubles = 0 /\ launches = 0 /\ installed = 0
    /\ journal = NoJournal
    /\ attempts = [c \in CaseNumbers |-> << >>]
    /\ cache = [c \in CaseNumbers |-> Unbuilt]
    /\ csv = NoSummary.outcome
    /\ summary = NoSummary
    /\ runner = Down("none")

-----------------------------------------------------------------------------
(* The journal: SQLite transactions, each one step. *)

TerminalRows(c) == {i \in DOMAIN attempts[c] : attempts[c][i].status = "terminal"}
LatestTerminal(c) ==
    IF TerminalRows(c) = {} THEN 0
    ELSE CHOOSE i \in TerminalRows(c) : \A j \in TerminalRows(c) : i >= j
LatestRow(c) == attempts[c][LatestTerminal(c)]
LatestOutcome(c) == IF LatestTerminal(c) = 0 THEN NoOutcome ELSE LatestRow(c).outcome

Rows(c, status) == {i \in DOMAIN attempts[c] : attempts[c][i].status = status}
CountOver(Set(_)) == Cardinality(UNION {{c} \X Set(c) : c \in CaseNumbers})

JournalAcceptsAny(mode) == journal.made = "ready"  \* faulty, unused
\* A review implies diagnostics, and only those are in the configuration that
\* the journal keeps.
Diagnoses(mode) == mode.capture # "plain"
JournalAccepts(mode) ==
    /\ journal.made = "ready"
    /\ journal.build = installed
    /\ journal.cache = mode.cache
    /\ journal.diagnostics = Diagnoses(mode)

Goto(label) == runner' = [runner EXCEPT !.at = label]
Stays == NoStrike /\ UNCHANGED <<installed, launches>>

\* The executables are observed before the journal is opened.
Launch(mode) ==
    /\ runner.at = "down" /\ launches < MaxLaunches
    /\ launches' = launches + 1
    /\ runner' = [Down("none") EXCEPT
           !.at = IF journal.made = "none" THEN "create"
                  ELSE IF JournalAccepts(mode) THEN "recover" ELSE "down",
           !.exit = IF journal.made = "none" \/ JournalAccepts(mode) THEN "none"
                    ELSE "refused",
           !.mode = mode, !.build = installed,
           !.pending = {d \in Directories : Abandoned(d)}]
    /\ NoStrike
    /\ UNCHANGED <<tools, durable, installed>>

\* Connecting leaves an empty file at once.  The statements of the schema run
\* one by one and the metadata row follows in a transaction of its own: a file
\* left in between is never completed, and no later launch accepts it.
CreateJournal ==
    /\ runner.at = "create" /\ journal.made = "none"
    /\ journal' = [journal EXCEPT !.made = "incomplete"]
    /\ Stays
    /\ UNCHANGED <<tools, runner, attempts, cache, csv, summary>>

InsertMetadata ==
    /\ runner.at = "create" /\ journal.made = "incomplete"
    /\ journal' = [made |-> "ready", status |-> "running", build |-> runner.build,
                   cache |-> runner.mode.cache, diagnostics |-> Diagnoses(runner.mode)]
    /\ Goto("recover")
    /\ Stays
    /\ UNCHANGED <<tools, attempts, cache, csv, summary>>

\* The srcDiff directories come before the srcMove ones; within a stage the
\* order is that of their random names.
RecoverTools ==
    /\ runner.at = "recover"
    /\ \/ \E d \in runner.pending :
             /\ \A e \in runner.pending :
                    tools[e].stage = "srcdiff" => tools[d].stage = "srcdiff"
             /\ Recover(d)
             /\ runner' = [runner EXCEPT !.pending = @ \ {d}]
       \/ runner.pending = {} /\ Goto("rows") /\ UNCHANGED tools
    /\ Stays
    /\ UNCHANGED durable

InterruptRows(c) ==
    [i \in DOMAIN attempts[c] |->
        IF attempts[c][i].status = "running"
        THEN [attempts[c][i] EXCEPT !.status = "interrupted"] ELSE attempts[c][i]]

ForgetRunning ==  \* faulty, unused
    /\ runner.at = "rows" /\ Goto("reopen") /\ Stays
    /\ UNCHANGED <<tools, durable>>
RecoverRunning ==
    /\ runner.at = "rows"
    /\ attempts' = [c \in CaseNumbers |-> InterruptRows(c)]
    /\ Goto("reopen")
    /\ Stays
    /\ UNCHANGED <<tools, journal, cache, csv, summary>>

KeepStatus ==  \* faulty, unused
    /\ runner.at = "reopen"
    /\ runner' = [runner EXCEPT !.at = "case", !.case = 1]
    /\ Stays
    /\ UNCHANGED <<tools, durable>>
MarkRunning ==
    /\ runner.at = "reopen"
    /\ journal' = [journal EXCEPT !.status = "running"]
    /\ runner' = [runner EXCEPT !.at = "case", !.case = 1]
    /\ Stays
    /\ UNCHANGED <<tools, attempts, cache, csv, summary>>

-----------------------------------------------------------------------------
(* The cases, in their order. *)

ShouldRetryFailed(c) ==  \* faulty, unused
    runner.mode.retry /\ LatestOutcome(c) \notin {NoOutcome, "oracle_pass"}
ShouldRetry(c) == runner.mode.retry /\ LatestOutcome(c) \in RetryableFailures
Due(c) == LatestTerminal(c) = 0 \/ ShouldRetry(c)
NextCase == [runner EXCEPT !.at = "case", !.case = @ + 1, !.dir = 0, !.record = NoOutcome]

StayOnCase ==  \* faulty, unused
    /\ runner.at = "case" /\ runner.case <= CaseCount /\ ~Due(runner.case)
    /\ runner' = [runner EXCEPT !.dir = 0] /\ Stays
    /\ UNCHANGED <<tools, durable>>
Reuse ==
    /\ runner.at = "case" /\ runner.case <= CaseCount /\ ~Due(runner.case)
    /\ runner' = NextCase
    /\ Stays
    /\ UNCHANGED <<tools, durable>>

Begin ==
    /\ runner.at = "case" /\ runner.case <= CaseCount /\ Due(runner.case)
    /\ attempts' = [attempts EXCEPT ![runner.case] = Append(@, Row)]
    /\ runner' = [runner EXCEPT !.at = "srcdiff", !.dir = 0, !.record = Row]
    /\ Stays
    /\ UNCHANGED <<tools, journal, cache, csv, summary>>

Key == <<runner.case, Len(attempts[runner.case])>>
MayRestore == /\ runner.mode.cache /\ ~runner.mode.refresh
              /\ cache[runner.case] # Unbuilt

\* A hit is a directory with the restored output and, a step later, its
\* attempt.json; it never has a started.json.  A mangled entry is a miss, or
\* raises an error that the reading of the cache does not catch.
RestoreCached ==
    /\ runner.at = "srcdiff" /\ runner.dir = 0 /\ MayRestore
    /\ IF cache[runner.case] = Mangled
       THEN runner' = Down("failed") /\ UNCHANGED tools
       ELSE /\ MakeDirectory(Directory("srcdiff", Key, cache[runner.case]))
            /\ runner' = [runner EXCEPT !.at = "hit", !.dir = NextDirectory,
                                        !.record.srcdiff = NextDirectory, !.record.hit = TRUE]
    /\ Stays
    /\ UNCHANGED durable

SealHit ==
    /\ runner.at = "hit"
    /\ tools' = [tools EXCEPT ![runner.dir].seal = "admitted"]
    /\ Goto("semantic")
    /\ Stays
    /\ UNCHANGED durable

MakeAttempt(stage) ==
    /\ runner.at = stage /\ runner.dir = 0
    /\ stage = "srcdiff" /\ MayRestore => cache[runner.case] = Mangled
    /\ MakeDirectory(Directory(stage, Key, runner.build))
    /\ runner' = IF stage = "srcdiff"
                 THEN [runner EXCEPT !.dir = NextDirectory, !.record.srcdiff = NextDirectory]
                 ELSE [runner EXCEPT !.dir = NextDirectory, !.record.srcmove = NextDirectory]
    /\ Stays
    /\ UNCHANGED durable

Supervised == runner.at \in Stages /\ runner.dir # 0 /\ tools[runner.dir].seal = "open"

StartTool == Supervised /\ Spawn(runner.dir) /\ Stays /\ UNCHANGED <<durable, runner>>
NoteStarted == Supervised /\ RecordStarted(runner.dir) /\ Stays /\ UNCHANGED <<durable, runner>>

\* attempt.json is written.
Seal ==
    /\ Supervised
    /\ \/ tools[runner.dir].started
          /\ \E verdict \in {"admitted", "rejected"} : SealAttempt(runner.dir, verdict)
       \/ ~tools[runner.dir].started  \* the spawn failed
          /\ tools[runner.dir].process = "none" /\ SealAttempt(runner.dir, "rejected")
    /\ Stays
    /\ UNCHANGED <<durable, runner>>

UnlinkStarted ==
    /\ runner.at \in Stages /\ runner.dir # 0
    /\ ForgetStarted(runner.dir)
    /\ Stays
    /\ UNCHANGED <<durable, runner>>

AttemptOver(stage) ==
    /\ runner.at = stage /\ runner.dir # 0
    /\ tools[runner.dir].seal # "open" /\ ~tools[runner.dir].started
Admitted == tools[runner.dir].seal = "admitted"

ConcludedSilently(outcome, completed, xml) ==  \* faulty, unused
    [runner EXCEPT !.at = "finish", !.dir = 0]
Concluded(outcome, completed, xml) ==
    [runner EXCEPT !.at = "finish", !.dir = 0, !.record.outcome = outcome,
                   !.record.completed = completed, !.record.annotated = xml]

\* With the cache on, the output is stored once it is admitted; a store that
\* fails is tolerated.  attempt.json is written again with what the cache did.
AfterSrcdiff ==
    /\ AttemptOver("srcdiff")
    /\ \/ /\ runner.mode.cache /\ Admitted
          /\ cache' = [cache EXCEPT ![runner.case] = tools[runner.dir].build]
          /\ NoStrike
       \/ /\ runner.mode.cache /\ Admitted /\ UNCHANGED cache /\ Strike
       \/ /\ ~(runner.mode.cache /\ Admitted) /\ UNCHANGED cache /\ NoStrike
    /\ runner' = IF Admitted THEN [runner EXCEPT !.at = "semantic"]
                 ELSE Concluded("upstream_failure", 0, "none")
    /\ UNCHANGED <<tools, journal, attempts, csv, summary, installed, launches>>

CheckSemantics ==
    /\ runner.at = "semantic"
    /\ \/ runner' = Concluded("srcdiff_semantic_ineligible", 0, "none")
       \/ runner' = [runner EXCEPT !.at = "srcmove", !.dir = 0]
    /\ Stays
    /\ UNCHANGED <<tools, durable>>

\* Where a review asked for the annotated XML, srcMove may still fail to write
\* it: then an attempt that was admitted counts as a failure of the tool and as
\* not completed, and its attempt.json stays as it is.
Reviewing == runner.mode.capture = "review"
ScoreUnadmitted ==  \* faulty, unused
    /\ AttemptOver("srcmove")
    /\ \E score \in Scores : runner' = Concluded(score, 1, "none")
    /\ Stays
    /\ UNCHANGED <<tools, durable>>
ScoreStillCompleted ==  \* faulty, unused
    /\ AttemptOver("srcmove")
    /\ \E xml \in (IF Reviewing THEN Annotations ELSE {"none"}) :
          IF Admitted /\ (Reviewing => xml = "whole")
          THEN \E score \in Scores : runner' = Concluded(score, 1, xml)
          ELSE runner' = Concluded("srcmove_tool_failure", IF Admitted THEN 1 ELSE 0, xml)
    /\ Stays
    /\ UNCHANGED <<tools, durable>>
Score ==
    /\ AttemptOver("srcmove")
    /\ \E xml \in (IF Reviewing THEN Annotations ELSE {"none"}) :
          IF Admitted /\ (Reviewing => xml = "whole")
          THEN \E score \in Scores : runner' = Concluded(score, 1, xml)
          ELSE runner' = Concluded("srcmove_tool_failure", 0, xml)
    /\ Stays
    /\ UNCHANGED <<tools, durable>>

\* The outcome and what it rests on become durable together.
Finish ==
    LET c == runner.case IN
    /\ runner.at = "finish"
    /\ attempts[c][Len(attempts[c])].status = "running"
    /\ attempts' = [attempts EXCEPT
           ![c][Len(attempts[c])] = [runner.record EXCEPT !.status = "terminal"]]
    /\ runner' = NextCase
    /\ Stays
    /\ UNCHANGED <<tools, journal, cache, csv, summary>>

CompletedCaseCount == Cardinality({c \in CaseNumbers : TerminalRows(c) # {}})

MarkCompleted ==
    /\ runner.at = "case" /\ runner.case > CaseCount
    /\ IF CompletedCaseCount = CaseCount
       THEN journal' = [journal EXCEPT !.status = "completed"] /\ Goto("csv")
       ELSE runner' = Down("failed") /\ UNCHANGED journal
    /\ Stays
    /\ UNCHANGED <<tools, attempts, cache, csv, summary>>

-----------------------------------------------------------------------------
(* The reports, derived from the journal. *)

LatestOutcomes == [c \in CaseNumbers |-> LatestOutcome(c)]

\* cases.csv is written beside its place, synced and renamed.
WriteCsvOnce ==  \* faulty, unused
    /\ runner.at = "csv"
    /\ csv' = IF csv = NoSummary.outcome THEN LatestOutcomes ELSE csv
    /\ Goto("summary") /\ Stays
    /\ UNCHANGED <<tools, journal, attempts, cache, summary>>
WriteCsv ==
    /\ runner.at = "csv"
    /\ csv' = LatestOutcomes
    /\ Goto("summary")
    /\ Stays
    /\ UNCHANGED <<tools, journal, attempts, cache, summary>>

Having(outcomes) == {c \in CaseNumbers : LatestOutcome(c) \in outcomes}
SummaryNow ==
    [outcome |-> LatestOutcomes,
     completed |-> Cardinality(Having(Outcomes)),
     eligible |-> Cardinality(Having(Outcomes))
                    - Cardinality(Having({"upstream_failure"}))
                    - Cardinality(Having({"srcdiff_semantic_ineligible"})),
     interrupted |-> LET Stopped(c) == Rows(c, "interrupted") IN CountOver(Stopped),
     hits |-> Cardinality({c \in CaseNumbers : LatestTerminal(c) # 0 /\ LatestRow(c).hit})]

\* The bundle of a review has a copy of both XML files of every case, and is
\* refused when a file is missing, were it because the case never came to
\* srcMove; an empty file is copied like any other.
Bundled == \A c \in CaseNumbers : LatestRow(c).annotated # "none"

WriteSummary ==
    /\ runner.at = "summary"
    /\ IF Reviewing /\ ~Bundled
       THEN runner' = Down("failed") /\ UNCHANGED summary
       ELSE runner' = Down("returned") /\ summary' = SummaryNow
    /\ Stays
    /\ UNCHANGED <<tools, journal, attempts, cache, csv>>

-----------------------------------------------------------------------------
(* Surroundings. *)

\* A key press or a failing write: a tool under supervision is killed and its
\* attempt sealed, the journal is closed.  What interrupts the reading of a
\* finished tool's output leaves the attempt open.
Interrupt ==
    /\ runner.at # "down"
    /\ \/ /\ Supervised /\ tools[runner.dir].process # "none"
          /\ Interrupted(runner.dir)
       \/ /\ Supervised => tools[runner.dir].process # "alive"
          /\ UNCHANGED tools
    /\ runner' = Down("failed")
    /\ Strike
    /\ UNCHANGED <<durable, installed, launches>>

\* SIGKILL: a tool in its own session lives on.
Crash ==
    /\ runner.at # "down"
    /\ runner' = Down("failed")
    /\ Strike
    /\ UNCHANGED <<tools, durable, installed, launches>>

SomeToolEnds ==
    /\ \E d \in Directories : ToolEnds(d)
    /\ Stays
    /\ UNCHANGED <<durable, runner>>

\* Another build is installed between two processes.
Upgrade ==
    /\ runner.at = "down"
    /\ installed' = 1 - installed
    /\ Strike
    /\ UNCHANGED <<tools, durable, runner, launches>>

\* Power is lost while the entry, renamed but not synced, is in the cache.
MangleEntry ==
    /\ \E c \in CaseNumbers : /\ cache[c] \notin {Unbuilt, Mangled}
                              /\ cache' = [cache EXCEPT ![c] = Mangled]
    /\ Strike
    /\ UNCHANGED <<tools, journal, attempts, csv, summary, runner, installed, launches>>

RunnerStep ==
    \/ CreateJournal \/ InsertMetadata \/ RecoverTools \/ RecoverRunning \/ MarkRunning
    \/ Reuse \/ Begin \/ RestoreCached \/ SealHit
    \/ \E stage \in Stages : MakeAttempt(stage)
    \/ StartTool \/ NoteStarted \/ Seal \/ UnlinkStarted
    \/ AfterSrcdiff \/ CheckSemantics \/ Score \/ Finish
    \/ MarkCompleted \/ WriteCsv \/ WriteSummary

Next ==
    \/ \E mode \in Modes : Launch(mode)
    \/ RunnerStep
    \/ SomeToolEnds \/ Interrupt \/ Crash \/ Upgrade \/ MangleEntry

\* Every tool runs under a timeout, so the process is never held up for good.
Spec == Init /\ [][Next]_vars /\ WF_vars(RunnerStep) /\ WF_vars(SomeToolEnds)

-----------------------------------------------------------------------------
(* Properties. *)

\* The journal holds what its tables admit: a row that is marked terminal has
\* an outcome, and the attempts a row names have been made.
TypeOK ==
    /\ journal \in Journals
    /\ \A c \in CaseNumbers : \A i \in DOMAIN attempts[c] : attempts[c][i] \in AttemptRows
    /\ cache \in [CaseNumbers -> {Unbuilt, Mangled, 0, 1}]
    /\ csv \in [CaseNumbers -> Outcomes \cup {NoOutcome}]

\* A committed row tells what is on disk: the attempts it names are sealed,
\* belong to this row and no other, and were admitted as far as its outcome
\* says the case came.  A failure of srcMove is an attempt that was rejected, or
\* one that was admitted without the annotated XML its review asked for, which a
\* run without diagnostics never has; only what was scored counts as completed.
JournalTellsTheDisk ==
    \A c \in CaseNumbers : \A i \in TerminalRows(c) :
        LET row == attempts[c][i]
            Is(d, stage, verdicts) == /\ d \in Directories
                                      /\ tools[d].key = <<c, i>> /\ tools[d].stage = stage
                                      /\ tools[d].seal \in verdicts
        IN  CASE row.outcome = "upstream_failure" ->
                    /\ Is(row.srcdiff, "srcdiff", {"rejected"})
                    /\ row.srcmove = 0 /\ row.completed = 0
              [] row.outcome = "srcdiff_semantic_ineligible" ->
                    /\ Is(row.srcdiff, "srcdiff", {"admitted"})
                    /\ row.srcmove = 0 /\ row.completed = 0
              [] row.outcome = "srcmove_tool_failure" ->
                    /\ Is(row.srcdiff, "srcdiff", {"admitted"})
                    /\ Is(row.srcmove, "srcmove",
                          IF journal.diagnostics /\ row.annotated # "whole"
                          THEN {"rejected", "admitted"} ELSE {"rejected"})
                    /\ row.completed = 0
              [] OTHER -> /\ Is(row.srcdiff, "srcdiff", {"admitted"})
                          /\ Is(row.srcmove, "srcmove", {"admitted"})
                          /\ row.completed = 1

\* Once a process works on its cases, an open row is the one it works on: what
\* earlier processes left open has been closed, whatever way they ended.
OpenRowIsWorkedOn ==
    runner.at \notin {"down", "create", "recover", "rows"} =>
        \A c \in CaseNumbers : \A i \in Rows(c, "running") :
            /\ c = runner.case /\ i = Len(attempts[c])
            /\ runner.at \in {"srcdiff", "hit", "semantic", "srcmove", "finish"}

\* A journal that says completed has no case without a result and no open row.
CompletedIsWhole ==
    journal.status = "completed" =>
        \A c \in CaseNumbers : TerminalRows(c) # {} /\ Rows(c, "running") = {}

\* Results that do not come from the cache come from one build of the tools.
OneBuildPerRun ==
    \A c \in CaseNumbers : \A i \in TerminalRows(c) :
        LET row == attempts[c][i]
        IN  \A d \in {row.srcdiff, row.srcmove} \ {0} :
                (d = row.srcdiff /\ row.hit) \/ tools[d].build = journal.build

\* A run that returned has written two reports that agree with each other and
\* with the journal, and the cases it counts as eligible, found by subtracting
\* failures, are those srcMove was run on.
ReportsAddUp ==
    runner.exit = "returned" =>
        /\ csv = summary.outcome /\ summary.outcome = LatestOutcomes
        /\ summary.completed = CaseCount
        /\ summary.eligible = Cardinality({c \in CaseNumbers : LatestRow(c).srcmove # 0})

\* The journal is well formed and right about the disk, about the work under way and about the
\* tools, and the reports of a run that returned are right about the journal.
JournalIsTrue ==
    /\ TypeOK
    /\ JournalTellsTheDisk /\ OpenRowIsWorkedOn /\ CompletedIsWhole /\ OneBuildPerRun
    /\ ReportsAddUp

\* Retries and recoveries never touch evidence: a sealed verdict stays, only
\* the directory at work is admitted, and a closed row stays as it is.
EvidenceIsKept ==
    [][/\ \A d \in Directories : tools'[d].seal # tools[d].seal =>
              /\ tools[d].seal = "open"
              /\ tools'[d].seal = "admitted" => d = runner.dir
       /\ \A c \in CaseNumbers : \A i \in DOMAIN attempts[c] :
              attempts[c][i].status # "running" => attempts'[c][i] = attempts[c][i]]_vars

\* The journal, the reports and the processes on them implement CaseResults:
\* in particular a process that returned has reported the results there are.
Results == INSTANCE CaseResults WITH
    CaseSet <- CaseNumbers, NoResult <- NoOutcome,
    result <- LatestOutcomes,
    complete <- journal.status = "completed",
    reported <- summary.outcome
ImplementsCaseResults == Results!Spec

\* A process that is left alone ends.
RunEnds == (runner.at # "down") ~> (runner.at = "down")
=============================================================================
