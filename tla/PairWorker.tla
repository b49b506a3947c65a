----------------------------- MODULE PairWorker ------------------------------
(***************************************************************************)
(* The executor of commit pairs (srcmove_history/worker.py): one private   *)
(* session per coordinator thread, with its directory and its Git reader,  *)
(* and the way of one pair through inventory, materialization, srcDiff,    *)
(* srcMove and the results file.  Who dispatches the pairs and what        *)
(* becomes of their outcomes belongs to the operation that uses the        *)
(* executor (HistoryFiles).                                                *)
(***************************************************************************)
EXTENDS GitReader, Trouble, FiniteSets

CONSTANTS
    Workers,    \* coordinator threads
    Pairs,      \* commit pairs of the history, 1 the first in sequence
    BlobsOf,    \* pair -> blobs to write, the old side before the new one
    Nobody,     \* no thread
    Names,      \* file names of the artifacts a comparison can save
    SrcdiffXml, ResultsJson

ASSUME PairAssumption == BlobsOf \in [Pairs -> Seq(Blobs)]
ASSUME WorkerAssumption == Workers # {} /\ Nobody \notin Workers
ASSUME NameAssumption == SrcdiffXml # ResultsJson /\ Names = {SrcdiffXml, ResultsJson}

VARIABLES
    worker,      \* the sessions of the threads
    owned,       \* PairExecutor._owned_pairs
    pairDir,     \* the pair directories on disk
    workerDirs,  \* the worker directories on disk
    outcome      \* outcomes returned and not yet published

workerVars == <<worker, owned, pairDir, workerDirs, outcome>>

Stages == {"closed", "idle", "inventory", "export", "srcdiff", "srcmove", "results"}
NoPair == 0
ASSUME SequenceAssumption == NoPair \notin Pairs
Closed == [at |-> "closed", pair |-> NoPair, own |-> FALSE, tool |-> 0,
           reader |-> NewReader]
NoDirectory == [by |-> Nobody, bytes |-> << >>]
NoOutcome == [status |-> "none", valid |-> {}, own |-> FALSE, tool |-> 0]

NoDirectories == [p \in Pairs |-> NoDirectory]
NoOutcomes == [p \in Pairs |-> NoOutcome]
AllClosed == [w \in Workers |-> Closed]

ExecutorInit ==
    /\ worker = AllClosed
    /\ owned = {}
    /\ pairDir = NoDirectories
    /\ workerDirs = {}
    /\ outcome = NoOutcomes

\* What a supervised tool can come to, and whether its outcome is admitted.
\* The artifact is validated whatever the exit was.
ToolOutcomes == [ended : {"exited", "signaled", "timed_out", "spawn_failed"},
                 code : {0, 1},
                 artifact : {"valid", "invalid", "missing"}]
Admitted(o) == o.ended = "exited" /\ o.code = 0 /\ o.artifact = "valid"
ValidFile(o, name) == IF o.artifact = "valid" THEN {name} ELSE {}

OpenWorker(w) ==
    /\ worker[w].at = "closed"
    /\ worker' = [worker EXCEPT ![w].at = "idle"]
    /\ workerDirs' = workerDirs \cup {w}
    /\ NoStrike
    /\ UNCHANGED <<owned, pairDir, outcome>>

Claim(w, p, tool) ==
    /\ worker[w].at = "idle"
    /\ worker' = [worker EXCEPT ![w].at = "inventory", ![w].pair = p,
                                ![w].own = FALSE, ![w].tool = tool]
    /\ NoStrike
    /\ UNCHANGED <<owned, pairDir, workerDirs, outcome>>

\* The session returns the pair's outcome and waits for the next item.
ReturnWith(w, reader, status, valid, own) ==
    /\ outcome' = [outcome EXCEPT ![worker[w].pair] =
                       [status |-> status, valid |-> valid, own |-> own,
                        tool |-> worker[w].tool]]
    /\ worker' = [worker EXCEPT ![w].at = "idle", ![w].pair = NoPair,
                                ![w].reader = reader]

Return(w, status, valid) ==
    /\ ReturnWith(w, worker[w].reader, status, valid, FALSE)
    /\ UNCHANGED <<owned, pairDir, workerDirs>>

NothingAnalyzable(w) ==
    /\ worker[w].at = "inventory"
    /\ BlobsOf[worker[w].pair] = << >>
    /\ Return(w, "no_analyzable_change", {})
    /\ NoStrike

\* git diff fails, or the pair directory cannot be made: nothing is registered.
InventoryFails(w) ==
    /\ worker[w].at = "inventory"
    /\ Return(w, "orchestration_failed", {})
    /\ Strike

MakePairDirectoryUnregistered(w) ==  \* faulty, unused
    LET p == worker[w].pair IN
    /\ worker[w].at = "inventory"
    /\ BlobsOf[p] # << >>
    /\ pairDir' = [pairDir EXCEPT ![p] = [by |-> w, bytes |-> << >>]]
    /\ worker' = [worker EXCEPT ![w].at = "export"]
    /\ NoStrike
    /\ UNCHANGED <<owned, workerDirs, outcome>>
\* The directory is registered before anything is written to it.
MakePairDirectory(w) ==
    LET p == worker[w].pair IN
    /\ worker[w].at = "inventory"
    /\ BlobsOf[p] # << >>
    /\ p \notin owned
    /\ pairDir' = [pairDir EXCEPT ![p] = [by |-> w, bytes |-> << >>]]
    /\ owned' = owned \cup {p}
    /\ worker' = [worker EXCEPT ![w].at = "export"]
    /\ NoStrike
    /\ UNCHANGED <<workerDirs, outcome>>

FailedStatus(end) == IF end \in {"parent", "pipe"} THEN "orchestration_failed"
                     ELSE "export_failed"

\* One blob of GitBatch.materialize, the reader that came of it kept for the
\* pairs that follow.
WriteBlob(w) ==
    LET p == worker[w].pair
        b == BlobsOf[p][Len(pairDir[p].bytes) + 1]
        Fail(r, own) == /\ ReturnWith(w, r.reader, FailedStatus(r.end), {}, own)
                        /\ UNCHANGED pairDir
    IN  /\ worker[w].at = "export"
        /\ \/ \E r \in Reads(worker[w].reader, b) :
                \/ /\ r.end = "written"
                   /\ pairDir' = [pairDir EXCEPT ![p].bytes = Append(@, r.bytes)]
                   /\ worker' = [worker EXCEPT ![w].reader = r.reader,
                        ![w].at = IF Len(pairDir'[p].bytes) = Len(BlobsOf[p])
                                  THEN "srcdiff" ELSE "export"]
                   /\ NoStrike /\ UNCHANGED outcome
                \/ r.end \in {"exited", "malformed"} /\ Fail(r, b \in LostBlobs) /\ NoStrike
                \/ r.end \in {"disk", "parent"} /\ Fail(r, TRUE) /\ Strike
           \/ \E r \in DyingReads(worker[w].reader, b) :
                worker[w].reader.alive /\ Fail(r, TRUE) /\ Strike
        /\ UNCHANGED <<owned, workerDirs>>

RunSrcdiff(w) ==
    /\ worker[w].at = "srcdiff"
    /\ \E o \in ToolOutcomes :
         IF Admitted(o)
         THEN /\ worker' = [worker EXCEPT ![w].at = "srcmove"]
              /\ UNCHANGED <<owned, pairDir, workerDirs, outcome>>
         ELSE Return(w, "srcdiff_failed", ValidFile(o, SrcdiffXml))
    /\ NoStrike

RunSrcmove(w) ==
    /\ worker[w].at = "srcmove"
    /\ \E o \in ToolOutcomes :
         IF Admitted(o)
         THEN /\ worker' = [worker EXCEPT ![w].at = "results"]
              /\ UNCHANGED <<owned, pairDir, workerDirs, outcome>>
         ELSE Return(w, "srcmove_failed", {SrcdiffXml})
    /\ NoStrike

AdmitResults(w) ==
    /\ worker[w].at = "results"
    /\ \/ Return(w, "completed", {SrcdiffXml, ResultsJson})
       \/ Return(w, "srcmove_failed", {SrcdiffXml})
    /\ NoStrike

\* The session's reader is closed and its directory removed if it is empty.
CloseWorker(w) ==
    /\ worker[w].at = "idle"
    /\ worker' = [worker EXCEPT ![w] = Closed]
    /\ workerDirs' = IF \E p \in Pairs : pairDir[p].by = w
                     THEN workerDirs ELSE workerDirs \ {w}
    /\ NoStrike
    /\ UNCHANGED <<owned, pairDir, outcome>>

WorkerStep(w) ==
    \/ NothingAnalyzable(w) \/ InventoryFails(w) \/ MakePairDirectory(w)
    \/ WriteBlob(w) \/ RunSrcdiff(w) \/ RunSrcmove(w) \/ AdmitResults(w)

\* acknowledge: the directory of a pair the executor owns is removed.
Forgotten(p) ==
    /\ pairDir' = [pairDir EXCEPT ![p] = IF p \in owned THEN NoDirectory ELSE @]
    /\ owned' = owned \ {p}
=============================================================================
