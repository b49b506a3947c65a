# srcMove: a TLA+ verification development

srcMove finds moved code in a srcDiff document. The native detector (C++,
`src/`) reads one document and reports groups of deletions and insertions that
are moves. The history analyzer (Python, `srcmove_history/`) runs it over
adjacent commits of a Git history, in parallel, and keeps what it found in a
database that can be extended and resumed. The benchmark (Python,
`bigMoveBench/`) turns BigCloneBench into cases for the detector, executes them
over a journal that survives crashes, and scores them.

Paths below are relative to the repository. The TLA+ modules are translated
from the code; `PROJECT.json` (key `map`) names for each definition the lines
that it stands for.

Contents: 1 Inventory, 2 Modules, 3 Runs, 4 Fairness, 5 Proofs, 6 Findings and
known divergences, 7 Not modelled, 8 Plan.

## 1. Inventory

### The parts, what they keep and how they interact

    user -- cli.py -- analysis.py -- coordinator.py -- worker.py -- process.py -- srcdiff, srcMove
                |        |   |            |               |   |        |
                |        |   |       (queues, slots)      | git.py   process_supervision.py
                |        |   +-- database.py (SQLite) <-- publish_pair, in sequence order
                |        +------ locking.py (flock, activity.json), tools.py (owned executables)
                +-- queries.py, report.py (readers, no lock)
                +-- comparison.py, snapshot.py (under the lock)

    srcMove: main -- pipeline -- region_filter -- candidate_registry
                        |  -- content_group_builder -- movement_classifier
                        |        +-- selection_policy, group_selection
                        +-- move_sequences -- annotation_plan / annotation_writer, JSON results

    benchmark: suite.py -- compile.py, catalog.py -- selection.py -- benchmark_cases.py
                     |      (dataset)                (frames)        (cases, generated_objects.py)
                     +-- normalized_execution.py -- benchmarking/execution.py -- srcdiff, srcMove
                            (journal.sqlite)           (attempt directories)
                            +-- adapter.py, oracle.py, evaluate.py, label_corrections.py

| part | state | operations | what is hard | what makes it correct |
|---|---|---|---|---|
| Pair coordinator, `srcmove_history/coordinator.py` | work queue, result queue, semaphore of outcome slots, stop event, error queue, pending outcomes, publication counter | start workers, submit, take, execute, report, publish, acknowledge, stop, join, drain | threads in any order; workers, callbacks, the iterator and thread starts that raise; `KeyboardInterrupt` anywhere in the calling thread | outcomes are published in sequence order, each once; no slot is lost; the call ends; a normal return is complete |
| Analysis run, `analysis.py`, and database, `database.py` | singleton `analysis` row, `batches`, `pairs`, `invocations`; target and pending batch of a run | create or open, plan a batch, execute it, commit it, finish the invocation | crash or failure between any two transactions, then another process resumes | coverage grows outward without hole or overlap and stops exactly at the target; sealed outcomes are final; the code's own checks never fail on its own data |
| Readers, `queries.py`, `report.py`, `cli.py`, and the progress of a run, `progress.py` | a cursor; counts on the terminal | status, list page by page, show, report; start, add a pair, finish | they take no lock, and pairs become durable in another order than they are shown in | pages neither repeat nor skip; nobody is refused a good analysis; counts are those of durable rows |
| Operation lock, `locking.py`, and `status` of `cli.py` | an flock, `activity.json` | enter, publish activity, exit, probe | a refused writer, a failed publication, a dead owner, probes that take the very lock they ask about | at most one writer; the activity tells the truth about owner and predecessor |
| Files of an analysis: `database.py` (create, recover), `tools.py`, `git.py` (retain), `worker.py` | database file and its temporary link, owned executables, retained ref, scratch directories | create, recover, admit, retain, register, acknowledge, clear | a kill between any two steps; a tool that outlives its process; an upgraded tool; a rewritten branch | the database is whole when it is there; scratch goes after the row; rows come from the bytes of the definition |
| Pair worker, `worker.py`, `process.py`, and Git reader, `git.py` | session directory, table of owned pairs, pipe of `git cat-file --batch` | open, materialize, run srcDiff, run srcMove, compact, close | partial failures of stages; a pipe shared by successive pairs | a pair fails for a trouble of its own |
| Process supervision, `srcmove_runtime/process_supervision.py` | child process and its group, drain threads, bounded captures, signals sent | spawn, wait, time out, TERM, KILL, reap, join, report | descendants that fork during the scan of `/proc`, leave the group, keep the pipe; deadlines; interrupts | the call ends, nobody of the group is left, the report is truthful |
| Saved comparison and snapshot, `comparison.py`, `snapshot.py` | artifact files and an evidence record | compare again, save, export | several files replaced one by one; comparisons without evidence over the same directory | a snapshot never mixes comparisons |
| Region filter, candidate registry, `region_filter.cpp`, `candidate_registry.cpp` | candidates with span, role, keys | stream the document, register | nesting, eligibility | every eligible construct once |
| Match proposals, `content_group_builder.cpp` | proposals | exact, Type-2 and Type-3 grouping, weights, ranking | policies that disable proposals, ranking after identity weights | the ranking the selection relies on |
| Group selection, `group_selection.cpp`, `selection_policy.cpp` | selected groups, used endpoints | bundle pass, greedy pass, unmatched pass | nesting in both directions, a rule with thresholds | no code is reported twice; a proposal is dropped only for a better one |
| Repeated exact groups, `content_group_builder.cpp`; move sequences, `move_sequences.cpp` | inferred partners, suppressed wrappers; sequences | resolve repeated text from unique siblings, follow wrappers, join neighbouring moves | classes taken apart and put together again; wrappers that repeat their child; runs cut from a sorted list | partners on evidence only, no occurrence lost or used twice, every move reported once |
| Movement classifier, similarity | none | pure functions | thresholds and early exits | agreement with their definitions |
| Writers, pipeline, command line | output streams | annotate, print | none: sequential | format |
| Benchmark artifacts, `bigMoveBench/compile.py`, `catalog.py`, `selection.py`, `benchmark_cases.py`, `generated_objects.py`, `suite.py` | export cache, index, published directories, shared objects | export, compile, select, publish cases, reuse, verify | no lock orders the processes; upstream data changes | a publication is whole, named after what is in it, never replaced |
| Catalog and selection of frames, `catalog.py`, `selection.py`, `categories.py`, `benchmark_cases.py` | rows, frames, exclusions, cases | extract, group by content, find label conflicts, sample, deduplicate | counts from separate queries; strata that run out; content under two labels | every row accounted for once; one label and one run per content |
| Benchmark execution, `normalized_execution.py`, `benchmarking/execution.py`, `srcdiff_cache.py` | SQLite journal, attempt directories, cache, `cases.csv`, `summary.json` | recover, validate, begin, run tools, finish, retry, report | kills between directory, process, record, row and reports; retries; other builds | the journal tells what is on disk; evidence stays; reports agree with it |
| Case scoring, `adapter.py`, `oracle.py`, `evaluate.py`, `label_corrections.py`, scratch of `benchmark_cases.py` | scratch archive, registry of corrections | prepare, gate, match, score, correct, pass | all cases pass through the same files; the registry is edited between launches | a case is judged by its own output, a pass is earned |
| Studies, reviews, browsers, performance and scripts | none | | | |

The detector is one thread and deterministic: its difficulty is in rankings,
thresholds and nesting. The history analyzer is concurrent (threads within a
run), distributed over processes (runs, readers, supervised tools) and must
survive crashes. The benchmark is sequential within a process, but its
processes share a data root without a lock and resume each other's work.

The hazards of the code, each at its line and with the properties that would
notice it going wrong, are listed in `PROJECT.json` (`hazards`). Two have no
property, with the reason: the common-subsequence length, and the two errors
that no handler of the benchmark names.

### Interactions that the models keep

- `run_pairs` calls the database's `record_outcome` through `publish_pair` and
  the worker's `acknowledge` through `acknowledge_pair`, from the coordinating
  thread and in sequence order. `CoordinatorProofs` proves that order
  (`OrderedPublication`), and `AnalysisRun` and `HistoryFiles` assume exactly
  it: an outcome is sealed for the next pair in sequence, then acknowledged,
  and the operation may give up at any point.
- `analyze_repository` holds the operation lock around everything it writes.
  `OperationLock` shows who can hold it when; `AnalysisRun` has one lock
  variable with the same acquire, release and crash; in `HistoryFiles` the
  operation at work is the one that holds it.
- The invocation row and `activity.json` are written by different code at
  different moments. `OperationLock` has both, since `status` reads both.
- Readers share nothing with a run but committed transactions: `PairListing`
  adds them to `AnalysisRun` unchanged.
- `worker.py` uses the reader of `git.py` pair after pair, and `comparison.py`
  the executor of `worker.py`: `GitReader`, `PairWorker`, `SavedComparisons`
  and `HistoryFiles` extend each other in this order.
- The selection reads from proposals only their rank, confidence, endpoints,
  weights and flags. `MatchProposals` computes them, `GroupSelection` selects.
- `normalized_execution.py` owns the rows, `benchmarking/execution.py` the
  directories; neither transaction covers both. `BenchmarkExecution` extends
  `ToolAttempts` and has every step between them.

## 2. Modules

### The history analyzer

**`Coordinator`** is the scheduler: a coordinating thread with a program
counter `pc` and, for each worker, `wpc`. Each action is one interaction with a
shared object (queue, semaphore, event) together with the thread-local code
around it. Blocking calls with a timeout exist in the code only to look at the
stop event again; they are the disjuncts that read `stop`. A collaborator that
can raise (`Faults`) has an action for it. `Interrupt` may happen wherever the
calling thread is: within `except`/`finally` it leaves the call (`escaped`),
as in the code. `published`, `acknowledged`, `lost` are history variables.
Counters that only feed maxima for statistics are left out.

**`OrderedPublication`** is what a caller of `run_pairs` relies on: publication
in order, acknowledgement after publication and before the next one, normal
return only at the end. `Coordinator` implements it, with `verdict` read from
`pc`.

**`AnalysisRun`** has the four tables as variables and one action per write
transaction together with the reads and checks that precede it in the same
process. Commits are named by their position in the frozen history (0 the
newest), so the pair with distance `d` joins commits `d` and `d+1`. Targets
are those of the command line (`total_pairs`, `additional_pairs`, `through`,
`all`). `Raise` stands for any failure or interrupt, `FinishFails` for a
failing `finish_invocation`, `Crash` for a process that dies; what did not
commit is gone. Checks that raise in the code keep their action disabled, and
the invariant `ChecksPass` says that none of them ever would raise.

**`CoverageLedger`** is the promise of the tables: a frontier that moves outward
over whole sealed windows, sealed from the oldest pair to the newest, for ever.

**`PairListing`** EXTENDS `AnalysisRun` with those who look on. A listing is
asked for page by page with the number of the last pair shown; status, report
and show are operators on the tables, since each is one read transaction. The
progress of the run is a variable of its own: `ProgressStart` reads the counts
under the lock, `Publish` hands a pair to the observer, `ShowPublished` adds it
up, and an interrupt may come in between.

**`OperationLock`** models `AnalysisOperationLock`, its probe, and the parts of
a run and of `status` that meet at the lock: the flock, `activity.json`, the
rows of `invocations`. Operations are numbered in the order in which they take
the lock; the number stands for the operation identifier.

**`GitReader`** is the pipe of `git cat-file --batch` as a value: what Git has
answered and nobody has read. **`PairWorker`** is the executor: sessions with
their directories and readers, the table of owned pairs, the stages of a pair
and the tool it runs, each stage with its failure. **`SavedComparisons`** has
the artifacts of a pair, the evidence record and what a snapshot exports of
them; the content of an artifact is `same` as or `other` than what the run that
sealed the pair produced. **`HistoryFiles`** composes them into the operations
`run`, `compare` and `snapshot`, one at a time: clearing stale scratch, opening
or creating the database (temporary file, link, unlink, recovery), admitting
the tools, retaining the commit, working the pairs. Commits and tool binaries
have versions; a branch is rewritten, a tool upgraded, an orphaned tool writes
once more, a process is killed between any two steps. **`Trouble`** is the
bounded supply of what goes wrong, shared with the benchmark modules.

**`ProcessSupervision`** composes the supervisor, the supervised tool and its
descendants (fork, exit, leave the group, ignore SIGTERM, write), the drain
thread and the clock. The scan of `/proc` reads one entry per step while
processes go on. `newborn` remembers the processes forked into the group
during a scan. One pipe stands for stdout and stderr. **`BoundedCapture`**,
which it EXTENDS, is the head-and-tail buffer of a drain, over a stream whose
n-th byte is `n`.

### The detector

**`MatchProposals`** computes, for a given comparison, the groups, proposals,
weights and ranking of `content_group_builder.cpp` as operators. Texts are
named by their equality classes; sizes, the common lengths of two texts, and
what the movement classifier says of a pair, are inputs. `PlacesAssumption` and
`Registered` say what the scan of a document and the comparison of texts give:
no two candidates of a side start at one node, parts that lie apart have no
more units than the construct around them, and an edge reaches nine tenths.
`Comparison` is what the selection gets of a registry.

**`GroupSelection`** is the selection over the ranked proposals: the pass that
may replace a proposal by a bundle of its descendants, the greedy pass, and the
groups of what has no partner.

**`RepeatedGroups`** EXTENDS `MatchProposals` with the resolution of text that
occurs several times (`refine_repeated_exact_groups`): what the unique siblings
know (`Evidence`: seeds and corresponding parents), which pairs they nominate
and how well they support them, what remains of a class, and how the wrapper
of a single child follows it. What the parser and the classifier know of a
candidate is input: `steady` (the sibling context is reliable), `akin` (same
file, container and ancestors), `kind` (the movement kind of a pair).
**`SiblingMoves`** runs it: `Refine` and `Follow` are the two halves of that
function, `ChooseMoves` is any choice of separate proposals (`GroupSelection`
says which one is made), `Report` is `move_sequences.cpp`. The selection refuses
everything that the output policy surely refuses; evidence for the relocation
of an unresolved class is left to the choice.

### The benchmark

**`BenchmarkArtifacts`** has the export cache, the index, the published
datasets, selections and cases and the shared objects as variables, and the
steps of processes that reuse, export, compile, select and publish them, each
file replaced on its own. Upstream data changes, except while somebody
compiles. It implements **`Publications`**: what is published stays as it is and
names exactly the publication it was made from.

**`CatalogFrames`** computes what is in them: from a bag of labelled rows and
what is found in the source files to catalog pairs, frames, label conflicts,
samples, exclusions, counts and cases. Which frames a sample takes depends on
hashes and is left open. Names differ from those of `BenchmarkArtifacts`, which the
same proof module extends: `caseTable` are the published cases, `Missing` a
fragment that could not be extracted.

**`ToolAttempts`** has the attempt directories: made, their tool spawned,
`started.json`, `attempt.json` that seals them, and the recovery of what an
earlier process abandoned. **`BenchmarkExecution`** EXTENDS it with the journal,
the cache of srcDiff output, the reports and the process that works the cases,
and is killed, interrupted, resumed, asked to retry, to capture diagnostics or
to prepare a Type-3 review, or given other builds of the tools. A review adds
annotated XML to what srcMove writes (`annotated`: none, empty or whole): an
attempt that was admitted without it is scored as a failure of the tool and as
not completed while its `attempt.json` stays (`Score`), and the run is refused
its bundle, and with it `summary.json`, when the file of a case is missing
(`Bundled`). The journal is made in two steps, an empty file and its metadata row;
a file left in between is refused by every later launch (`CreateJournal`,
`InsertMetadata`). It implements **`CaseResults`**: a case gets a result once, only a
retry of a failure replaces it, and a run that ends well has reported the
results it then has.

**`CaseScoring`** follows a case through the scratch archive all cases share,
which is emptied and filled file by file (`ClearScratch`, `LinkObject`), srcDiff
or the cache that outlives the runs (`RunSrcdiff`, `RestoreDiff`), the lookup of
its correction, the gate on what srcDiff exposes, the oracle over the reported
moves, the reviewed labels and the verdict of a pair set. A correction counts
for a case when it was made for the label the case has (`Corrected`). One made
for another label stops a run over derived categories before the case gets a row
(`Conflict`, `LookUpCorrection`); over the categories of older rules
(`membership`), which carry no version of the rules, it is passed over and the
case is scored under the label it has (`test_label_corrections.py:85`). Its journal (`scores`) holds what scoring
needs of a row; `StartRunner` is a launch of the runner. Names differ from those
of `BenchmarkExecution` because one module proves theorems about both.

The `MC...` modules hold the values of the constants; the `...Proofs` modules
the theorems. Definitions marked "faulty, unused" are variants with a mistake
that the code avoids; no step uses them, they serve to see that each property
notices such a mistake (`PROJECT.json`, `mutants`).

## 3. Runs

Every run completes its state space; none is a simulation. A property of a run
is a conjunction of named parts, each with its comment in the module.

| run (module) | properties | bounds and why they are enough |
|---|---|---|
| `coordinator` (`MCCoordinator`) | `SlotsMakeRoom` (types, slots, room for results), `WorkIsAccounted`, `HeadOfLine`, `ReturnIsComplete`, `ImplementsOrderedPublication`, `CallEnds` | 2 workers, 3 pairs from sequence 1 (a resumed suffix), queue and slots of 2: the queue fills, the slots run out, an outcome overtakes another and waits for it; start, input, open, close, execute, publish and acknowledge raise any number of times; 2 interrupts (the second hits the cleanup of the first) |
| `analysis` (`MCPairListing`) | `TablesAgree` (`RowsTile`, `AccountsAgree`, `ChecksPass`), `TargetExact`, `ReadersSeeOneHistory` (`ListingsAreWhole`, `ReportsAreWhole`, `ProgressIsDurable`), `ImplementsLedger`, `RunEnds` | a history of 3 pairs in batches of 2 (several batches, the last at the root), targets of every kind within and beyond the root, 3 invocations, each a run or a listing with pages of one pair in either order, one failure and one crash anywhere: a run that crashes, one that resumes and a listing across both. One process: the lock admits one at a time and nothing of a process outlives its run, so a second would only be another name |
| `lock_writers` (`MCOperationLock`) | `ActivityNamesOwner`, `PreviousIsTrue`, `RunningRowIsNewest`, `LockIsReleased` | 2 writers, 3 operations (so that a predecessor has a predecessor), a failing publication, a crash, a status command |
| `history_files` (`MCHistoryFiles`) | `DatabaseIsWhole`, `OneTool`, `WhatIsKeptIsTrue` (`HistoryIsKept`, `ExportedFromOneMatch`), `FilesAreSettled` (`SealedBeforeRemoved`, `NothingLeftBehind`) | 2 pairs, one that runs the tools and one with nothing to analyze; 4 operations and 2 troubles of any kind, enough for a run that is killed, one that resumes, a comparison and a snapshot; 1 worker, since pairs share no file |
| `git_reader` (`MCHistoryFiles`) | finding 1 | 2 pairs for one reader, one trouble |
| `supervision_calls` (`MCProcessSupervision`) | `GroupIsEnded`, `ReportIsTrue`, `RetentionExact`, `CallEnds` | a leader and 2 descendants (enough to fork behind the scan, or to leave with the pipe), 3 bytes through a pipe of 2 into a capture of 1+1, a callback that may raise, an interrupt |
| `selection_groups` (`MCGroupSelection`) | `NothingTwice`, `RejectedForBetter`, `ReportIsSettled` | 8 candidates: a deleted and an inserted construct with two parts each, another insertion and the wrapper around it; 192 ways to give them equal, renamed, similar or different texts and 16 combinations of classifier verdicts (3,072 comparisons): nested exact moves, repeated parts, Type-2 and Type-3 partners, contradicted and tentative moves |
| `sibling_moves` (`MCSiblingMoves`) | `OccurrencesKept`, `ResolvedOnEvidence`, `ReportedOnceTogether` | on either side a region of four children and one of two, with a wrapper in each; all arrangements of two unique statements, a repeated one and another in the first region, six of the second, three contexts (6,156 comparisons): support by one neighbour, by two, by the region; two deletions that want one insertion; classes put together again; copies; remainders; wrappers without counterpart; sequences across resolved and original pairs |
| `benchmark_artifacts` (`MCBenchmarkArtifacts`) | `PublishedIsSound` (`IdentityNamesItsRows`, `PublishedIsRunnable`, `LosersFindADataset`), `AdoptedIsCurrent`, `ImplementsPublications` | 2 interchangeable processes, 3 launches, 2 troubles (a kill, or upstream data replaced): two compilers in the same cache, and a third process that meets what they left |
| `catalog_frames` (`MCCatalogFrames`) | `EachContentOnce` (`OneLabelPerInput`, `ContentRunsOnce`), `SelectionIsFair` (`RecordsAdmitted`, `RowsReconcile`, `CountsReconcile`, `SampleIsEven`) | every bag over nine rows of both labels, both directions, a content with itself, one row twice; six source trees with equal, swapped and missing fragments; two strata; samples of 1, 3 and 4 |
| `benchmark_execution` (`MCBenchmarkExecution`) | `JournalIsTrue` (with `TypeOK`), `EvidenceIsKept`, `ImplementsCaseResults`, `RunEnds` | 2 cases, 2 launches in three modes (retry with cache and diagnostics; refreshed cache and a review; nothing), so that each launch is accepted or refused by the journal of the other, 2 troubles: a run that is killed with a tool alive and another that finds what was left |
| `case_scoring` (`MCCaseScoring`) | `CasesJudgedApart` (`JudgedOnItsOwn`, `OneMoveDecides`), `VerdictIsEarned` (`ReviewOnlyRelabels`, `PassIsEarned`) | 2 cases with a common fragment through one scratch and one cache; 4 pair sets: derived ones whose label the registry corrects and contradicts, one of the older rules whose label it contradicts, and a known false positive; fragments with encoding damage and with a part that a move may report alone; a region on the payload, one that half overlaps it and one beside it; a registry with and one without entries, 2 launches |

Deadlock is not checked: in every one of these systems the end of a call, or of
the last of a bounded number of invocations, is a state without a successor.
After a failed start of a thread, for one, the call is over while the workers it
did start poll for ever (section 6). That what has begun does end is a property
of its own, under fairness (`CallEnds`, `RunEnds`, `LockIsReleased`).

What the runs show beyond "it holds":

- The order slot-before-item in a worker keeps the scheduler from starving
  behind outcomes that wait for an earlier pair (`HeadOfLine`), and together
  with the capacity of the result queue it is why a worker that never looks at
  the stop event while it puts a result can still always end (`SlotsMakeRoom`).
- Pairs are sealed oldest first inside a batch and listed newest first, or over
  batches oldest first. A cursor by pair number shows every pair that had an
  outcome when the listing began; one that counted rows would not.
- Files of a comparison may be of another comparison than the record beside
  them after a crash; a snapshot still exports only what repeated the sealed
  row, because it checks the digest of every file.
- Compilers that take each other's files out of the export cache fail, but none
  publishes rows of another database than the one in its identity, as long as
  upstream data is not replaced under a compiler (assumed).
- The descendant-bundle rule of the selection can never fire: one-to-one
  proposals have a confidence of at least 900 of 1000, and a bundle would have
  to exceed it by 250. `doc/backlog.md` calls the rule inactive; here it is a
  theorem, and a change of a weight or threshold would break it.

`MaxRuns`, `MaxFailures`, `MaxCrashes`, `MaxOperations`, `MaxFaults`,
`MaxStatuses`, `MaxInterrupts`, `MaxBytes`, `MaxLaunches`, `MaxTroubles` are
bounds of the models, not of the code; `WorkCapacity`, `OutcomeCapacity`,
`BatchLimit`, `Limit`, `PipeCapacity` and the strata are parameters of the code
or the system with small values.

## 4. Fairness

- `Coordinator`: weak fairness of the coordinating thread and of each started
  worker. Threads that can run do run, calls of the executor return since the
  tools they start have timeouts, and every blocking call on a queue or on the
  semaphore polls. Nothing makes an interrupt or a fault happen, and nothing
  stops it.
- `PairListing`: a run that has started goes on, with its display (unless it
  crashes). Nobody has to start one, and no reader has to go on.
- `OperationLock`: a process that holds the lock, or a probe that took it, goes
  on until it lets go or dies. Nobody has to start a command.
- `ProcessSupervision`: the supervisor's thread, its clock and the drain
  thread go on. The tool owes nothing: it may hang, ignore SIGTERM, or keep
  the pipe open from another group for ever.
- `BenchmarkExecution`: the process that works the cases goes on, and a tool
  ends, since its supervisor has a timeout.

The other modules have safety properties only.

## 5. Proofs

The theorems hold for every value of the constants that satisfies the named
assumptions, which TLC evaluates in the runs. tlapm checks every leaf. Each
proof module has an inductive invariant `IInv`, the lemmas
`Init => IInv` and `IInv /\ [Next]_vars => IInv'`, and the theorems that follow
from it. TLC checked the parts of each `IInv` on the instance of the run before
they were proved.

| module | theorems (property of a run) | assumptions |
|---|---|---|
| `CoordinatorProofs` | `TypeCorrect`, `SlotsConserved`, `SlotsAlwaysMakeRoom` (`SlotsMakeRoom`), `HeadOfLineHolds` (`HeadOfLine`), `AlwaysAccounted` (`WorkIsAccounted`), `PublicationOrder`, `ReturnComplete` (`ReturnIsComplete`), `Refinement` (`ImplementsOrderedPublication`) | `WorkersAssumption`, `CapacityAssumption` (at least as many slots as workers), `InputAssumption`, `FaultsAssumption` |
| `AnalysisRunProofs` | `TablesAlwaysAgree`, `AgreeWithReaders` (`TablesAgree`), `TargetAlwaysExact` (`TargetExact`), `LedgerImplemented`, `LedgerWithReaders` (`ImplementsLedger`), `ReadersAlwaysSeeOneHistory` (`ReadersSeeOneHistory`) | `HistoryAssumption`, `LockAssumption`, `OutcomeAssumption`, `TargetAssumption`, `BoundAssumption`, `QueryAssumption`, `LimitAssumption` (of a page), `BlankAssumption` |
| `OperationLockProofs` | `TypeCorrect`, `ActivityIsHonest`, `PreviousIsHonest`, `RunningRowIsHonest` | `ProcessAssumption`, `BoundAssumption` |
| `HistoryFilesProofs` | `DatabaseAlwaysWhole` (`DatabaseIsWhole`), `AlwaysOneTool` (`OneTool`), `KeptAlwaysTrue` (`WhatIsKeptIsTrue`), `FilesAlwaysSettled` (`FilesAreSettled`) | `PairAssumption`, `WorkerAssumption`, `NameAssumption`, `SequenceAssumption`, `OperationAssumption` |
| `ProcessSupervisionProofs` | `CaptureExact`, `CallCaptureExact` (`RetentionExact`), `GroupAlwaysEnded` (`GroupIsEnded`), `ReportAlwaysTrue` (`ReportIsTrue`) | `LimitAssumption`, `BytesAssumption`, `ProcsAssumption`, `InterruptAssumption` |
| `GroupSelectionProofs` | `BundleInactive`, `SelectionSeparate` (`NothingTwice`), `SelectionGreedy` (`RejectedForBetter`), `TypeCorrect`, `LooseAlwaysOnce`, `ReportAlwaysSettled` (`ReportIsSettled`), `ProposalsWellFormed`; of `SiblingMoves`: `OccurrencesAlwaysKept` (`OccurrencesKept`), `ResolvedAlwaysOnEvidence` (`ResolvedOnEvidence`), `ReportedAlwaysOnce` (`ReportedOnceTogether`) | `InputAssumption`, `RegistryAssumption`, `PlacesAssumption`, `SiblingAssumption`, `ComparisonAssumption` |
| `BenchmarkArtifactsProofs` | `PublishedAlwaysSound` (`PublishedIsSound`), `AdoptedAlwaysCurrent` (`AdoptedIsCurrent`), `PublicationsImplemented` (`ImplementsPublications`); of `CatalogFrames`: `EachContentAlwaysOnce` (`EachContentOnce`), `SelectionAlwaysFair` (`SelectionIsFair`) | `NoneAssumption`, `ExportsAssumption` (finite bags), `SourcesAssumption`, `StrataAssumption`, `SampleSizesAssumption` |
| `BenchmarkExecutionProofs` | `JournalAlwaysTrue` (`JournalIsTrue`), `EvidenceAlwaysKept` (`EvidenceIsKept`), `CaseResultsImplemented` (`ImplementsCaseResults`); of `CaseScoring`: `CasesAlwaysApart` (`CasesJudgedApart`), `VerdictAlwaysEarned` (`VerdictIsEarned`) | `ExecutionAssumption`, `ScoringAssumption` |

**`CoordinatorProofs`.** The properties are not inductive alone. That the
outcome in hand is the next to publish needs to know where every other
submitted pair is; the invariant `IInv` therefore has the parts
`QueueContiguous` (the work queue holds the sequences from the frontier on, in
order), `TakenBelowFrontier`, `TakenDistinct` and `HandDistinct` (all the rest
is below it, in one place each), `SlotConservation`, `PublicationFrontier`
(what is published and acknowledged is determined by the counter) and
`CompletionCounted` (a normal end has counted the whole input). There is one
step per action; actions that leave a part alone are grouped first. `SlotsAlwaysMakeRoom`
and `HeadOfLineHolds` follow from `IInv` by counting. `AlwaysAccounted` needs
the converse as well, on top of `IInv`: nothing in front of the next
publication is missing (`HeldAhead`, `NoneLost`), `completed` counts what the
workers handed over (`TakenCounted`), and who raises or returns has joined
(`JoinedBeforeEnd`); then the six places tile the submitted sequences.

**`AnalysisRunProofs`.** Only the owner of the lock writes (`Ownership`). Only
the last batch may be pending, batches lie apart (`Ordered`), `completed`,
`revision` and `exhausted` are functions of the last batch (`Coverage`), what is
sealed in a batch has no hole (`Sealing`), each outcome is credited to an
invocation and later ones to later ones (`Credit`), and a process that executes
stands exactly at the first open row (`Standing`). `TargetKept` relates the
target to where the run began: the window that a run plans never exceeds what
is left of it. From these follow that no check of the code ever refuses
(`ChecksPass`) and that the counts of the invocations add up to the rows. For
the ledger, `SealedMap` and `Window` say what an advance, a sealed row and a
commit do to the abstract map. Readers leave the tables alone, so the theorems
carry over to `ReadSpec`. What the readers find follows from counting:
distances are unique, so the rows with an outcome are as many as their
distances, those of the done batches are the distances below `completed`, and
those of the pending batch the first `Checkpointed` rows (`SealedCount`). The
display adds up by itself, one pair late at most, and is blank outside a
recorded invocation (`DisplayInv`). For a listing (`ListingInv`), while there is
more, everything shown lies up to the last number and everything owed and not
shown beyond it; that a page really ends at that number is `PageIs`, from the
first and the last element of a finite set in either order. A pair that gets its
outcome behind the cursor was not owed, which is why the listing may miss it.

**`OperationLockProofs`.** For any writers, readers, faults and
crashes. The invariant adds to the properties who owns the flock at which
program counter (`Ownership`), that the owner performs the newest operation
(`Numbering`), what has become of every operation (`FateOfOwner`), and that the
activity never runs ahead of the operations (`ActivityOrder`). Without
`Numbering` the previous operation could be the one that is still at work.

**`HistoryFilesProofs`.** Four arguments. Where an operation is tells what there
is of the database (`Whole`): the commit of a definition is retained before a
database names it, and there is no row without a database. Nothing works, and
nothing is left in memory, outside of the pairs (`Rests`). What works or has
returned is of the definition's tool (`OfOneTool`), because admission comes
before the first session and a second run refuses another tool. In a run the
pairs given out are those after the sealed ones, each once (`InSequence`), and
every directory belongs to a pair that is owned, given out and not settled
(`Accounted`, `Settled`), so a directory is taken away after its row and none is
left at the end. A comparison's record names what it made (`Recorded`), so a
snapshot that checks digests exports one comparison.

**`ProcessSupervisionProofs`.** `CaptureExact` says for every stream and every
way to cut it that the head has the first bytes and the tail the last; the
lemmas say what `Suffix` and concatenation return. The steps of a call either
leave the capture alone or are its steps, so `CallCaptureExact` carries it over.
`Placed` has what is done at each place of the call: a live member that a scan
has not read yet is still unread or was forked during it (`newborn`); after
SIGKILL to the group no member is alive and none can be born; a call that has
not timed out and was not interrupted has sent no signal. `Drained` says that
the stream ends only when nobody holds the pipe and all was read, so a stream
reported complete cannot grow.

**`GroupSelectionProofs`.** `InputAssumption` says that the proposals are ranked
and have the confidence, weights and endpoints that `build_match_proposals`
gives them, that groups without a partner are disjoint, and that a proposal
inside an exact pair of constructs explains no more units than the pair and
covers a smaller span. `ProposalsWellFormed`, below, derives all of it for the
proposals that `MatchProposals` computes. `BundleInactive` rests on `BundleInv` (the weighted confidence of
a bundle is at most 1000 times its matched units) and a lemma on the
arithmetic; `SelectionSeparate` and `SelectionGreedy` on `SelectInv` (each
proposal passed so far is selected, disabled, or touches a better selected one).
`InsideRanksBelow` compares the rank keys: a part is worth no more in any of
the first five components and has the smaller span, so `SelectInv` cannot have
left out a whole for its part. `EmitInv` says that the emitted groups are the
remains of those looked at, disjoint and complete. `ReportAlwaysSettled` puts
the four together.

The last part of the module is about `SiblingMoves`, where a step is a whole pass
and the work is in what the operators of `RepeatedGroups` return. A seed is a
landmark and nothing else (`SeedsAreLandmarks`), and a landmark is the only
partner of its ends, so a confirmed pair has the same landmark on the same side
(`ConfirmedBeside`): one that is supported is vouched for, and none is denied
(`AcceptedOnEvidence`). No two mutually best pairs share an end
(`AcceptedOnce`), and no two classes share a member (`OneClass`), so the
resolved pairs are a matching (`ResolvedMatch`) and the parts of all classes
house every occurrence once (`RefinedGroups`). A group is of children or of
wrappers, and only wrappers have aliases; no two wrappers wrap one child, so
their pairs are a matching too (`WrapperPairsMatch`), and what a group loses is
exactly what is suppressed (`FollowersHouse`). The invariant `SiblingInv` says
that `groups` is so at `Follow` and at the selection. `SiblingAssumption` has
that a region has one wrapper (`region_filter.cpp:870`); `ComparisonAssumption`
that a child with a reliable context is a structural one, and that the children
of one parent are numbered as they follow each other in the document, two with
one number being one element met in two regions (`region_filter.cpp:1257`).

`ReportedAlwaysOnce` is about the sequences. The module orders finite sets by
rank, an element's rank being the number of those before it, and proves of every
strict order that it has a first member (`FirstMember`), that ranks enumerate
(`FewerBefore`), that comparing keys by their first difference is such an order
(`AboveIsOrder`), and that there is one set that keeps exactly what no kept
element before it overlaps (`Kernel`), which is what the loop of
`non_overlapping_exact_endpoints` returns. A run is what follows its beginning
without a gap; every selected link has one beginning at or before it, and two
runs that share a link share all of it, so the runs tile the links and each move
is reported once.

A landmark must have an undisputed place: where two candidates claim one place
among the siblings, the code's `lookup` finds nobody, so such an original pair
neither supports nor contradicts.

`ProposalsWellFormed` closes the gap between the two halves of the detector: for
every registry, the list that `MatchProposals` computes is one that
`InputAssumption` allows, so the selection theorems hold of it. Its premise
`Registered` is what the scan of a document gives: every open region consumes
every node (`region_filter.cpp:1359`), so the tokens of a part are tokens of its
whole. Fragment granularity, where `candidate_units` falls back on lines or
characters for a text without tokens, is outside it. `ProposalIs` says what is
true of each proposal by itself: the numbers keep their bounds through the
divisions of the confidence, the penalty of an edited pair (`WorthIs`) and the
discount of a doubtful one. `OnePerPair` says that no two proposals match the
same deletion with the same insertion: an exact proposal takes candidates that
have an exact partner, a Type-2 proposal a pair of one form, a Type-3 proposal
a pair of two forms, the last two among what has no exact partner. So there are
finitely many, no two have the same key (`KeysDiffer`), and ranking by
`CHOOSE` enumerates them (`RanksAreTaken`, `ListIs`). Parts of a span that lie
apart have no more positions than it (`PartsSpan`: pairs of a candidate and an
offset are sent to the node they stand for, one to one), so what is inside a
construct spans less (`PartsAreLess`).

**`BenchmarkArtifactsProofs`.** No process holds a lock, so the invariant is what
all of them keep together. Upstream stays while somebody compiles, and whatever
anybody places in the cache or takes from it is of that data (`CurrentInv`); a
cache file disappears only once somebody has published (`FoundInv`: either there
is a dataset, or what each process placed is still there), which is why a
process that loses the export always finds a dataset; who holds a dataset or a
selection holds a published one (`HeldInv`); the wrapper of a case is sealed
before its fragment (`ObjectsInv`), so published cases can be run.

The last part of the module is about `CatalogFrames`. Whatever frames are drawn, by
hash, per stratum or all of them, they are eligible frames (`DrawnFromEligible`).
The rows of one frame have one content in either deduplication
(`FramesAreContents`), so all rows of an eligible frame are eligible
(`EligibleFrame`) and none is labelled otherwise elsewhere; without regard to
order the direction of a frame gives its content back
(`DirectionTellsContent`), so no two cases have one identity.
Every row of a pair set has exactly one place, and the rows of the frames and
the excluded ones add up: a sum is modelled as the number of units it counts
(`SumOf`), so sums over parts and bounds of sums are facts about disjoint finite
sets (`SumOverParts`, `SumOfAdditions`, `SumMonotone`). The sample is even
because of what each round keeps (`PourKeeps`): no stratum above its capacity,
the total as asked, no stratum more than one ahead of another that has room.
`SourcesAssumption` says that a function is a fragment or cannot be had.

**`BenchmarkExecutionProofs`.** A finished row is backed (`RowsBacked`, `Backed`):
its attempts are directories made for this row, sealed as its outcome says, and
of the build of the journal unless restored from the cache; a row that is not
finished names no attempt. Sealed directories never change (`ToolsKept`), so
what backs a row backs it for ever. The place of the process says what the
journal is (`Placed`); recovery seals only what is still open (`ToRecover`); at
work, the row under way is the last of its case, still open and due, and its
directory is its own (`AtWork`). The count of eligible cases, found by
subtraction, is compared with the set of cases whose row names an attempt of
srcMove by the cardinality lemmas of the library. What backs a failure of srcMove
is a rejected attempt, or an admitted one whose row has no whole annotated XML;
only a process that reviews writes such rows, and a journal takes processes with
diagnostics or processes without (`JournalAccepts`), so a run without them has
rejected attempts only. `CaseResultsImplemented` maps
`Finish` to `Settle`, `MarkCompleted` to `Complete`, `MarkRunning` to `Reopen`,
`WriteSummary` to `Report`, and every other step to a stutter.

The last part of the module is about `CaseScoring`. `ScoringAssumption` says what a
generated case is: two fragments, neither of them the text of an empty wrapper.
`AtHand` follows what is linked, file by file, shown and reported for the case
under way, `ShownIs` says that the four files show the two fragments, and
`CacheSound` that each entry of the cache is a comparison of the two fragments it
is named after. `OneDecides` is about the
oracle alone: it compares the outcome of a report with the outcomes of its
groups, one by one. `RowsPinned` says that each row is right about its case
(`RowSound`) under the registry the journal names, which is the one of the
process, and that no entry of it stops the case (`Opposed`), and `PassedRows` that the cases behind the runner have such rows; a
verdict is then the count of a set that can only be the whole of the cases.

Where an argument is an induction, the modules take the least counterexample
instead: a nonempty set of numbers has a least one (`LeastNumber`, from the
well-foundedness of the numbers in the library). So is shown that a rank is taken, that the rounds of a
sample exist as a function at all (`RoundsExist`) and what each of them keeps
(`RoundsAre`).

Only model-checked:

- every liveness property (`CallEnds`, `RunEnds` of both modules,
  `LockIsReleased`), since the prover handles neither fairness nor ENABLED.

TLC also evaluates `InputAssumption` and `Registered` for every comparison of
`selection_groups`.

## 6. Findings and known divergences

1. `git_reader`, a bug: `GitBatch.materialize` (`srcmove_history/git.py:515`)
   turns an `OSError` while it writes a target into an export failure of that
   pair and leaves the rest of the blob unread in the pipe. The reader is "one
   reusable `git cat-file --batch` process owned by a worker" and nobody
   replaces it, so the next request reads blob content as its header, and every
   later pair of that worker is sealed `export_failed` for no trouble of its
   own; a sealed pair is never tried again. A reader that died is not replaced
   either.

Differences between the code and its documents that were met while modelling,
without a run of their own:

- An interrupt while the threads are being started, a second one during the
  cleanup, or a thread that cannot be started (`coordinator.py:137`) ends the
  call, and with it the operation lock, while workers still execute pairs, in
  the last case for ever; `docs/runtime.md` (244) has the lock held for the
  operation's "entire lifetime, including worker execution" and an unexpected
  error exit with two (350). `NoWorkerOutlivesCall` and `EndedCallEndsWorkers`
  state it.
- Two status commands can find each other's probe and report a running writer
  where there is none (`locking.py:181`), where the docstring (138) says that
  the probe returns whether a writer owns the lock. `ProbeTruthful` states it.
- `status` reads the database and probes the lock afterwards (`cli.py:341`); a
  run that ends in between is reported as interrupted although it reached its
  target. `StatusTruthful` states it.
- `find_reusable_compiled_dataset` is asked not to verify upstream
  (`bigMoveBench/compile.py:369`), and without `--verify-source` nobody does; a
  dataset is reused after the database changed, where `bigMoveBench/README.md`
  (104) has later invocations reuse it "after checking the database and selected
  source-file metadata". `AdoptedIsCurrent` is therefore about verified reuse.
- `bigMoveBench/README.md` (70) has the "legacy output `type2` accepted" for
  Type-2c; the results schema refuses it before the oracle sees it.
- A cache entry with a damaged compressed stream raises `zlib.error` through
  `restore`, which is documented to "return false for a miss or damage"
  (`srcdiff_cache.py:49`, 69); a correction that contradicts a derived category
  raises outside every handler (`normalized_execution.py:1115`). Both end the
  run, and every resume at the same case.
- `bigMoveBench/README.md` (265) has a review run "generate" its JSONL data, a
  Markdown report and an evidence bundle with annotated XML per case.
  `_write_bundle` (`bigMoveBench/review.py:246`) raises for the first case
  without the file, and so for every run in which a case was stopped by srcDiff
  or by the gate; the journal then says completed and `cases.csv` is written,
  but `summary.json` is not (`WriteSummary`). A resume without a retry ends the
  same way.
- `doc/architecture.md` (327) has copies asserted when *all* original origins
  have independently continuing partners; the code
  (`content_group_builder.cpp:915`) asks that all origins have partners and
  *one* of them continues. `RepeatedGroups` follows the code (`Parts`), and
  `OccurrencesKept` says only that the origins of a copy have partners of their
  own.

Exceptions that the properties state, and that are in the code: a process forked into
the group while `/proc` is read may be overlooked (`newborn` in
`NobodyLeftBehind`); an interrupt before `Popen` has returned loses the process
it started (`known`); an interrupt within the except clause cuts the
escalation short; an interrupt at the wrong moment drops an outcome slot, which
matters to no one because the call is ending (`lost`); a pair that was recorded
when an interrupt came is durable and not shown.

## 7. Not modelled

- What is a pure function of one document: stream parsing, region filter,
  classifier, similarity, annotation and results output. The
  candidates, verdicts and common lengths are inputs of `MatchProposals`.
- The hash-bucket mode and the diagnostics of `content_group_builder.cpp`;
  identifiers and xpaths of moves and sequences (a candidate stands for its
  xpath).
- The resident-set sampler of the supervision and the refresh thread of the
  progress display: they observe and draw.
- Which paths of a commit pair are analyzable, encodings, digests, the rows of
  `moves` and the evidence columns: data that travels with an outcome.
- Git and SQLite: a transaction commits as a whole or not at all.
- Statistics and rendering of reports; configuration, schemas, argument
  parsing: formatting and validation of records.
- Extraction of a function from a source file (found or not is an input), the
  profiling and progress of benchmark runs, the order of pair sets in a suite.
- Studies, reviews, browsers, performance measurements and scripts: sequential,
  without state of their own.

## 8. Plan

Done, in this order: the coordinator with its abstract specification and
proofs; the analysis run over its tables with the ledger, its readers and its
display; the operation lock; process supervision; proposals and selection;
repeated text and move sequences; the files of an analysis with pair worker,
Git reader and saved comparisons; the benchmark's artifacts, frames, execution
and scoring; then the proofs of `AnalysisRun`, `HistoryFiles`,
`PairListing`, `ProcessSupervision`, `BenchmarkArtifacts` and
`BenchmarkExecution` and the rest of the safety invariants of `Coordinator`
and `GroupSelection`; then `CaseScoring` and the contents of a selection in
`CatalogFrames`, the resolution of repeated text and the sequences of moves in
`SiblingMoves`, and what `MatchProposals` promises the selection.

Left: the early exit of `type3_lcs_length` against a reference definition (the
common lengths are inputs today), and the proposals of groups that
`RepeatedGroups` has taken apart, which `InputAssumption` covers and
`ProposalsWellFormed` does not.
