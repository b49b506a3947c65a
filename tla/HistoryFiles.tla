---------------------------- MODULE HistoryFiles -----------------------------
(***************************************************************************)
(* The files of one history analysis and the operations over them: `run`,  *)
(* `compare` and `snapshot`, one at a time under the operation lock        *)
(* (OperationLock).  A run clears the scratch of earlier processes, opens  *)
(* the database or creates it (database.py) with the tools it admits       *)
(* (tools.py) and the commit it retains (git.py), and works the pairs with *)
(* the executor of PairWorker.  A process may be killed between any two    *)
(* steps; a tool it started may outlive it and write once more.            *)
(* Commits and tool binaries are versions 1 and 2.                         *)
(***************************************************************************)
EXTENDS SavedComparisons

CONSTANTS
    MaxOperations,   \* bound on run, compare and snapshot invocations
    Compared         \* the pairs somebody compares

ASSUME OperationAssumption == MaxOperations \in Nat /\ Compared \subseteq Pairs

VARIABLES
    op, pc,       \* the operation that holds the lock and where it is
    done,         \* names the comparison has copied
    unsettled,    \* the pair published and not yet acknowledged
    chosen,       \* tool and commit of the database being created
    temp,         \* the temporary database file
    dbLinks,      \* hard links of analysis.sqlite3, 0 when there is none
    definition,   \* the definition frozen in it
    rows,         \* the terminal outcomes published in it
    committed,    \* the batch is committed
    stale,        \* the scratch of processes that are gone
    orphan,       \* a tool of a killed process still runs
    installed, admitted,     \* the tool on the PATH; tools/
    tip, objects, retained,  \* the branch, the object store, srcMove's refs
    operations               \* history: how many there have been

fileVars == <<temp, dbLinks, definition, rows, committed, stale, orphan>>
toolVars == <<installed, admitted, tip, objects, retained>>
localVars == <<op, pc, done, unsettled, chosen>>
vars == <<troubles, workerVars, comparisonVars, localVars, fileVars, toolVars,
          operations>>

Nothing == [tool |-> 0, commit |-> 0]
Sealed == 1..Len(rows)
Complete == Sealed = Pairs
LeftDirectories == workerDirs # {} \/ \E p \in Pairs : pairDir[p].by # Nobody
Creating == {"select", "admit", "retain", "temp", "fill", "link", "unlink"}

Init ==
    /\ ExecutorInit /\ ComparisonInit
    /\ troubles = 0 /\ operations = 0
    /\ op = "none" /\ pc = "idle" /\ done = {} /\ unsettled = NoPair /\ chosen = Nothing
    /\ temp = "none" /\ dbLinks = 0 /\ definition = Nothing
    /\ rows = << >> /\ committed = FALSE
    /\ stale = "none" /\ orphan = FALSE
    /\ installed = 1 /\ admitted = {}
    /\ tip = 1 /\ objects = {1} /\ retained = {}

Goto(from, to) == pc = from /\ pc' = to
Locally == UNCHANGED <<op, done, unsettled>>
Begin(operation) ==
    /\ op = "none" /\ operations < MaxOperations
    /\ op' = operation /\ operations' = operations + 1

(***************************************************************************)
(* Leaving an operation.  What is left on disk becomes stale scratch.      *)
(***************************************************************************)
ForgetLocals ==
    /\ op' = "none" /\ pc' = "idle" /\ done' = {} /\ unsettled' = NoPair
    /\ chosen' = Nothing
    /\ worker' = AllClosed /\ owned' = {} /\ outcome' = NoOutcomes
    /\ pairDir' = NoDirectories /\ workerDirs' = {}
    /\ request' = NoRequest /\ made' = NothingSaved
Leave(removed) ==
    /\ ForgetLocals
    /\ stale' = IF LeftDirectories /\ ~removed THEN "files" ELSE stale
    /\ UNCHANGED <<saved, record, exported, matched, toolVars, operations>>

(***************************************************************************)
(* run: stale scratch, then the database.                                  *)
(***************************************************************************)
StartRun == /\ Begin("run") /\ pc' = "clean" /\ NoStrike
            /\ UNCHANGED <<workerVars, comparisonVars, done, unsettled, chosen,
                           fileVars, toolVars>>

RunStep == op = "run" /\ NoStrike /\ UNCHANGED <<workerVars, comparisonVars, operations>>

EmptyScratch ==
    /\ RunStep /\ Locally /\ pc = "clean"
    /\ IF stale = "none" THEN pc' = "open" /\ UNCHANGED stale
       ELSE pc' = "rmdir" /\ stale' = "empty"
    /\ UNCHANGED <<chosen, temp, dbLinks, definition, rows, committed, orphan, toolVars>>

RemoveScratch ==
    /\ RunStep /\ Locally /\ Goto("rmdir", "open") /\ stale = "empty"
    /\ stale' = "none"
    /\ UNCHANGED <<chosen, temp, dbLinks, definition, rows, committed, orphan, toolVars>>

\* The directory is not empty any more: rmdir raises and the run fails.
ScratchRefilled ==
    /\ op = "run" /\ pc = "rmdir" /\ stale = "files" /\ NoStrike
    /\ Leave(FALSE)
    /\ UNCHANGED <<temp, dbLinks, definition, rows, committed, orphan>>

OrphanWrites == /\ orphan /\ stale = "empty" /\ stale' = "files"
                /\ UNCHANGED <<troubles, workerVars, comparisonVars, localVars, temp,
                               dbLinks, definition, rows, committed, orphan, toolVars,
                               operations>>
OrphanEnds == /\ orphan /\ orphan' = FALSE
              /\ UNCHANGED <<troubles, workerVars, comparisonVars, localVars, temp,
                             dbLinks, definition, rows, committed, stale, toolVars,
                             operations>>

\* A second link is the temporary name an interrupted creation left.
OpenDatabase ==
    /\ RunStep /\ Locally /\ pc = "open"
    /\ \/ dbLinks = 0 /\ pc' = "select" /\ UNCHANGED <<dbLinks, temp>>
       \/ dbLinks = 1 /\ pc' = "verify" /\ UNCHANGED <<dbLinks, temp>>
       \/ dbLinks = 2 /\ temp = "filled" /\ pc' = "verify" /\ dbLinks' = 1 /\ temp' = "none"
    /\ UNCHANGED <<chosen, definition, rows, committed, stale, orphan, toolVars>>

SelectHistory ==
    /\ RunStep /\ Locally /\ Goto("select", "admit")
    /\ chosen' = [chosen EXCEPT !.commit = tip]
    /\ UNCHANGED <<fileVars, toolVars>>

AdmitTools ==
    /\ RunStep /\ Locally /\ Goto("admit", "retain")
    /\ chosen' = [chosen EXCEPT !.tool = installed]
    /\ admitted' = admitted \cup {installed}
    /\ UNCHANGED <<fileVars, installed, tip, objects, retained>>

RetainLater ==  \* faulty, unused
    /\ RunStep /\ Locally /\ Goto("retain", "temp")
    /\ UNCHANGED <<chosen, fileVars, toolVars>>
RetainHistory ==
    /\ RunStep /\ Locally /\ Goto("retain", "temp")
    /\ chosen.commit \in objects
    /\ retained' = retained \cup {chosen.commit}
    /\ UNCHANGED <<chosen, fileVars, installed, admitted, tip, objects>>

\* update-ref refuses a commit that was pruned since it was selected.
RetainFails ==
    /\ op = "run" /\ pc = "retain" /\ chosen.commit \notin objects /\ NoStrike
    /\ Leave(FALSE)
    /\ UNCHANGED <<temp, dbLinks, definition, rows, committed, orphan>>

MakeAndPublish ==  \* faulty, unused
    /\ RunStep /\ Locally /\ Goto("temp", "link") /\ temp' = "empty"
    /\ UNCHANGED <<chosen, dbLinks, definition, rows, committed, stale, orphan, toolVars>>
MakeTemporary ==
    /\ RunStep /\ Locally /\ Goto("temp", "fill") /\ temp' = "empty"
    /\ UNCHANGED <<chosen, dbLinks, definition, rows, committed, stale, orphan, toolVars>>

FillTemporary ==
    /\ RunStep /\ Locally /\ Goto("fill", "link") /\ temp' = "filled"
    /\ UNCHANGED <<chosen, dbLinks, definition, rows, committed, stale, orphan, toolVars>>

LinkDatabase ==
    /\ RunStep /\ Locally /\ Goto("link", "unlink") /\ dbLinks = 0
    /\ dbLinks' = 2
    /\ definition' = IF temp = "filled" THEN chosen ELSE Nothing
    /\ UNCHANGED <<chosen, temp, rows, committed, stale, orphan, toolVars>>

UnlinkTemporary ==
    /\ RunStep /\ Locally /\ Goto("unlink", "verify")
    /\ temp' = "none" /\ dbLinks' = 1
    /\ UNCHANGED <<chosen, definition, rows, committed, stale, orphan, toolVars>>

\* An exception or interrupt while the database is created: the temporary
\* name is removed on the way out.
CreationFails ==
    /\ op = "run" /\ pc \in Creating /\ Strike
    /\ Leave(FALSE)
    /\ temp' = "none" /\ dbLinks' = IF dbLinks = 2 THEN 1 ELSE dbLinks
    /\ UNCHANGED <<definition, rows, committed, orphan>>

\* The supplied tools, the admitted bytes and the retained commits are checked
\* before any pair.
InputsVerified(supplied) ==
    /\ supplied => installed = definition.tool
    /\ definition.tool \in admitted
    /\ definition.commit \in objects \cap retained
VerifyInputs ==
    /\ RunStep /\ Locally /\ pc = "verify"
    /\ \E supplied \in BOOLEAN : InputsVerified(supplied)
    /\ pc' = IF committed THEN "finish" ELSE "pairs"
    /\ UNCHANGED <<chosen, fileVars, toolVars>>
RefuseInputs ==
    /\ op = "run" /\ pc = "verify" /\ NoStrike
    /\ \E supplied \in BOOLEAN : ~InputsVerified(supplied)
    /\ Leave(FALSE)
    /\ UNCHANGED <<temp, dbLinks, definition, rows, committed, orphan>>

(***************************************************************************)
(* The pairs of a run or the one pair of a comparison.                     *)
(***************************************************************************)
InPairs == op # "none" /\ pc \in {"pairs", "stopping", "aborting"}
                       /\ UNCHANGED <<comparisonVars, localVars, fileVars, toolVars,
                                      operations>>
Busy == {worker[w].pair : w \in Workers}
Returned == {p \in Pairs : outcome[p].status # "none"}
Given == Sealed \cup Busy \cup Returned
NextItem == IF op = "compare" THEN request.pair ELSE Cardinality(Given \ {NoPair}) + 1
HasItem == IF op = "compare" THEN request.pair \notin Busy \cup Returned /\ done = {}
                             ELSE NextItem \in Pairs
Threads == IF op = "compare" THEN {CHOOSE w \in Workers : TRUE} ELSE Workers

StartThread(w) == InPairs /\ pc = "pairs" /\ w \in Threads /\ HasItem /\ OpenWorker(w)
GiveItemInstalled(w) ==  \* faulty, unused
    InPairs /\ pc = "pairs" /\ HasItem /\ Claim(w, NextItem, installed)
GiveItem(w) == InPairs /\ pc = "pairs" /\ HasItem /\ Claim(w, NextItem, definition.tool)
Work(w) == InPairs /\ WorkerStep(w)
StopThread(w) == InPairs /\ pc # "pairs" /\ CloseWorker(w)

\* The row is durable in a transaction of its own, in sequence order.
PublishRow ==
    LET p == Len(rows) + 1 IN
    /\ op = "run" /\ pc = "pairs" /\ unsettled = NoPair /\ NoStrike
    /\ p \in Returned
    /\ rows' = Append(rows, [status |-> outcome[p].status, tool |-> outcome[p].tool])
    /\ outcome' = [outcome EXCEPT ![p] = NoOutcome]
    /\ unsettled' = p
    /\ UNCHANGED <<worker, owned, pairDir, workerDirs, comparisonVars, op, pc, done,
                   chosen, temp, dbLinks, definition, committed, stale, orphan, toolVars,
                   operations>>
\* faulty, unused: what is returned is removed whether it is sealed or not
AcknowledgeReturned ==
    /\ op = "run" /\ pc = "pairs" /\ NoStrike
    /\ \E p \in Returned : Forgotten(p)
    /\ unsettled' = NoPair
    /\ UNCHANGED <<worker, workerDirs, outcome, comparisonVars, op, pc, done, chosen,
                   fileVars, toolVars, operations>>
Acknowledge ==
    /\ op = "run" /\ pc = "pairs" /\ unsettled # NoPair /\ NoStrike
    /\ Forgotten(unsettled)
    /\ unsettled' = NoPair
    /\ UNCHANGED <<worker, workerDirs, outcome, comparisonVars, op, pc, done, chosen,
                   fileVars, toolVars, operations>>

\* Every pair is settled and the threads are told to stop.
StopRun == /\ op = "run" /\ Complete /\ unsettled = NoPair /\ Goto("pairs", "stopping")
           /\ UNCHANGED <<troubles, workerVars, comparisonVars, op, done, unsettled, chosen,
                          fileVars, toolVars, operations>>
\* A failed removal, transaction or copy, or an interrupt, stops them early.
AbortPairs == /\ op # "none" /\ pc \in {"pairs", "copy", "record", "write"}
              /\ pc' = "aborting" /\ Strike
              /\ UNCHANGED <<workerVars, comparisonVars, op, done, unsettled, chosen,
                             fileVars, toolVars, operations>>

ThreadsGone == \A w \in Workers : worker[w].at = "closed"
CommitRun ==
    /\ RunStep /\ Locally /\ Goto("stopping", "finish") /\ ThreadsGone
    /\ committed' = TRUE
    /\ UNCHANGED <<chosen, temp, dbLinks, definition, rows, stale, orphan, toolVars>>
FinishRun ==
    /\ op = "run" /\ NoStrike
    /\ pc = "finish" \/ (pc = "aborting" /\ ThreadsGone)
    /\ Leave(FALSE)
    /\ UNCHANGED <<temp, dbLinks, definition, rows, committed, orphan>>

(***************************************************************************)
(* compare and snapshot.                                                   *)
(***************************************************************************)
StartComparison ==
    /\ Begin("compare") /\ pc' = "pairs" /\ NoStrike
    /\ dbLinks = 1 /\ definition.tool \in admitted
    /\ \E p \in Compared, numbered \in BOOLEAN, s \in Selections :
         /\ numbered => p \in Sealed
         /\ request' = [pair |-> p, byPair |-> numbered, select |-> s]
    /\ UNCHANGED <<workerVars, saved, record, exported, made, matched, done, unsettled,
                   chosen, fileVars, toolVars>>

\* The worker's outcome reaches publish.  Tools that repeat themselves produce
\* the same bytes; it takes a fault for others.
PublishComparison ==
    LET p == request.pair
        o == outcome[p]
        m == Made(o, [n \in Names |-> "same"])
        Accept(c) == /\ made' = c /\ pc' = "copy"
                     /\ matched' = IF request.byPair THEN [matched EXCEPT ![p] = @ \cup {c}]
                                   ELSE matched
        Judge(c) == IF request.byPair => MatchesRow(rows[p], o, c) THEN Accept(c)
                    ELSE pc' = "aborting" /\ UNCHANGED <<made, matched>>
    IN  /\ op = "compare" /\ pc = "pairs" /\ p \in Returned
        /\ \/ Judge(m) /\ NoStrike
           \/ \E n \in o.valid : Judge([m EXCEPT ![n] = "other"]) /\ Strike
        /\ outcome' = [outcome EXCEPT ![p] = NoOutcome]
        /\ UNCHANGED <<worker, owned, pairDir, workerDirs, saved, record, exported, request,
                       op, done, unsettled, chosen, fileVars, toolVars, operations>>

CompareStep == op = "compare" /\ NoStrike
               /\ UNCHANGED <<workerVars, exported, request, made, matched, op, unsettled,
                              chosen, fileVars, toolVars, operations>>
SaveArtifact ==
    /\ CompareStep /\ pc = "copy" /\ Unsaved(done) # {}
    /\ CopyArtifact(done) /\ done' = done \cup {NextName(done)}
    /\ UNCHANGED <<pc, record>>
EndSaving ==
    /\ CompareStep /\ Unsaved(done) = {}
    /\ Goto("copy", IF request.byPair /\ Selected # {} THEN "record" ELSE "stopping")
    /\ UNCHANGED <<saved, record, done>>
TruncateRecord == /\ CompareStep /\ Goto("record", "write") /\ EmptyRecord
                  /\ UNCHANGED <<saved, done>>
SaveRecord == /\ CompareStep /\ Goto("write", "stopping") /\ WriteRecord
              /\ UNCHANGED <<saved, done>>
FinishComparison ==
    /\ op = "compare" /\ pc \in {"stopping", "aborting"} /\ ThreadsGone /\ NoStrike
    /\ Leave(TRUE)
    /\ UNCHANGED <<temp, dbLinks, definition, rows, committed, orphan>>

\* One locked pass over the database and the saved files; refused while a
\* batch is pending or a recorded file has changed.
Snapshot ==
    /\ op = "none" /\ operations < MaxOperations /\ operations' = operations + 1
    /\ dbLinks = 1 /\ committed
    /\ ExportComparisons(Sealed)
    /\ UNCHANGED <<troubles, workerVars, saved, record, request, made, matched, localVars,
                   fileVars, toolVars>>

(***************************************************************************)
(* Around the program.                                                     *)
(***************************************************************************)
\* The process is killed.  A temporary name that is no link of the database
\* stays behind under a name nobody looks for again.
Crash ==
    /\ op # "none" /\ Strike
    /\ ForgetLocals
    /\ stale' = IF LeftDirectories THEN "files" ELSE stale
    /\ temp' = IF dbLinks = 2 THEN temp ELSE "none"
    /\ \/ orphan' = TRUE /\ \E w \in Workers : worker[w].at \in {"srcdiff", "srcmove"}
       \/ orphan' = orphan
    /\ UNCHANGED <<saved, record, exported, matched, dbLinks, definition, rows, committed,
                   toolVars, operations>>

Outside == UNCHANGED <<workerVars, comparisonVars, localVars, fileVars, operations>>
UpgradeTool == /\ Outside /\ Strike /\ installed = 1 /\ installed' = 2
               /\ UNCHANGED <<admitted, tip, objects, retained>>
RewriteBranch == /\ Outside /\ Strike /\ tip = 1 /\ tip' = 2
                 /\ objects' = objects \cup {2}
                 /\ UNCHANGED <<installed, admitted, retained>>
PruneObjects == /\ Outside /\ NoStrike
                /\ objects' = {tip} \cup (retained \cap objects) /\ objects' # objects
                /\ UNCHANGED <<installed, admitted, tip, retained>>

Next ==
    \/ StartRun \/ EmptyScratch \/ RemoveScratch \/ ScratchRefilled
    \/ OrphanWrites \/ OrphanEnds
    \/ OpenDatabase \/ SelectHistory \/ AdmitTools \/ RetainHistory \/ RetainFails
    \/ MakeTemporary \/ FillTemporary \/ LinkDatabase \/ UnlinkTemporary \/ CreationFails
    \/ VerifyInputs \/ RefuseInputs
    \/ \E w \in Workers : StartThread(w) \/ GiveItem(w) \/ Work(w) \/ StopThread(w)
    \/ PublishRow \/ Acknowledge \/ StopRun \/ AbortPairs \/ CommitRun \/ FinishRun
    \/ StartComparison \/ PublishComparison \/ SaveArtifact \/ EndSaving
    \/ TruncateRecord \/ SaveRecord \/ FinishComparison \/ Snapshot
    \/ Crash \/ UpgradeTool \/ RewriteBranch \/ PruneObjects

Spec == Init /\ [][Next]_vars

(***************************************************************************)
(* Correctness.                                                            *)
(***************************************************************************)
\* Whoever opens analysis.sqlite3 finds a frozen definition in it, and the
\* second link a killed creation leaves is one the next run can take away:
\* no run is refused for what a crash left (database.py, create and
\* _recover_interrupted_publication).
DatabaseIsWhole ==
    dbLinks > 0 => /\ definition # Nothing
                   /\ dbLinks = 2 => temp = "filled"

\* A run removes the directory of a pair only when the pair's outcome is
\* durable: "Durable results are already in SQLite before a worker's scratch
\* is acknowledged for deletion" (docs/runtime.md).
SealedBeforeRemoved ==
    [][\A p \in Pairs :
         /\ op = "run" /\ op' = "run"
         /\ pairDir[p].by # Nobody /\ pairDir'[p].by = Nobody
         => p \in Sealed]_vars

\* A run that reaches its target leaves no worker or pair directory, whatever
\* became of the pairs (worker.py, _register_pair and acknowledge).
NothingLeftBehind == pc = "finish" => ~LeftDirectories

\* Every row was produced by the tool bytes of the definition, also when the
\* tool on the PATH was upgraded between or during runs: "replacement of the
\* original executable cannot change a pending or later batch"
\* (docs/runtime.md; tools.py, admit_executable).
OneTool == \A p \in Sealed : rows[p].tool = definition.tool

\* The commit of a published definition is never pruned: its ref is there
\* before the database is (analysis.py, _create_database; git.py, retain_history).
HistoryIsKept == dbLinks > 0 => definition.commit \in objects

\* The files a snapshot holds for a pair all come from one comparison that
\* repeated the sealed row: "Comparisons are included only when regenerated
\* output matched stored detections" (snapshot.py:70).
ExportedFromOneMatch ==
    \A p \in Pairs : exported[p] = NoFiles \/
        \E m \in matched[p] : \A n \in DOMAIN exported[p] : exported[p][n] = m[n]

\* Directories end with their pairs, neither sooner nor later.
FilesAreSettled == SealedBeforeRemoved /\ []NothingLeftBehind

\* What the analysis keeps is what it says: its frozen history, and snapshots
\* that repeat its rows.
WhatIsKeptIsTrue == HistoryIsKept /\ ExportedFromOneMatch

\* A pair fails to export for a trouble of its own: the reader is "reusable",
\* "Workers own private scratch and reusable Git object readers"
\* (git.py:405, docs/runtime.md:334).
ExportFailsOnItsOwn ==
    \A p \in Pairs : outcome[p].status = "export_failed" => outcome[p].own
=============================================================================
