---------------------------- MODULE OperationLock ----------------------------
(***************************************************************************)
(* Single-writer ownership of an analysis root (srcmove_history/locking.py)*)
(* with its two kinds of witnesses: activity.json, which the lock itself   *)
(* publishes, and the newest row of invocations, which `run` writes inside *)
(* the lock.  Writers are run, compare, snapshot and init commands; readers*)
(* are `status` commands, which read the row and then probe the lock.      *)
(*                                                                         *)
(* An operation is named by the order in which it got the lock.  flock is  *)
(* external: exclusive, nonblocking, and dropped with its process.         *)
(***************************************************************************)
EXTENDS Naturals

CONSTANTS
    Writers,       \* processes that run mutating commands
    Readers,       \* processes that run `status`
    Nobody,        \* nobody holds .operation.lock
    MaxOperations, \* bound on operations that get the lock
    MaxFaults,     \* bound on failing publications and transactions
    MaxCrashes,    \* bound on writers that die
    MaxStatuses    \* bound on status commands

ASSUME ProcessAssumption ==
    /\ Writers \cap Readers = {} /\ Nobody \notin Writers \cup Readers
ASSUME BoundAssumption == {MaxOperations, MaxFaults, MaxCrashes, MaxStatuses} \subseteq Nat

VARIABLES
    lock,      \* who holds .operation.lock
    activity,  \* activity.json; op 0 while the file does not exist
    rows,      \* result of the invocation row of each operation
    newest,    \* operation of the newest invocation row, 0 if there is none
    pc,        \* where each writer is
    op,        \* the operation a writer performs
    fate,      \* history: how each operation left its `with` block
    rpc,       \* where each reader is
    seen,      \* operation of the row a reader read, 0 if none
    summary,   \* the result it read in that row
    answer,    \* the state it reports
    operations, faults, crashes, statuses  \* history: how many there have been

durable == <<activity, rows, newest>>
writerVars == <<pc, op, fate>>
readerVars == <<rpc, seen, summary, answer>>
counters == <<operations, faults, crashes, statuses>>
vars == <<lock, durable, writerVars, readerVars, counters>>

Operations == 1..MaxOperations
RowResults == {"none", "running", "target_reached", "failed", "interrupted"}
Fates == {"none", "started", "completed", "failed", "crashed"}
WriterStates == {"idle", "busy", "locked", "working", "invoked", "ending", "release"}
ReaderStates == {"idle", "read", "probe", "told"}
Answers == {"none", "running", "idle", "target_reached", "failed", "interrupted"}

NoActivity == [op |-> 0, running |-> FALSE, result |-> "none",
               previousOp |-> 0, previousResult |-> "none"]

\* The state `status` derives from the row when nobody writes (cli._state).
StateOf(result) == CASE result = "none" -> "idle"
                     [] result \in {"running", "interrupted"} -> "interrupted"
                     [] OTHER -> result

Goes(w, from, to) == pc[w] = from /\ pc' = [pc EXCEPT ![w] = to]
Fault == faults < MaxFaults /\ faults' = faults + 1

\* _previous_activity: an activity that never ended was interrupted.
StartActivity(o) ==
    [op |-> o, running |-> TRUE, result |-> "none", previousOp |-> activity.op,
     previousResult |-> IF activity.running THEN "interrupted" ELSE activity.result]
EndActivity(o) ==
    [op |-> o, running |-> FALSE, result |-> fate[o],
     previousOp |-> activity.previousOp, previousResult |-> activity.previousResult]

Init ==
    /\ lock = Nobody
    /\ activity = NoActivity
    /\ rows = [o \in Operations |-> "none"] /\ newest = 0
    /\ pc = [w \in Writers |-> "idle"] /\ op = [w \in Writers |-> 0]
    /\ fate = [o \in Operations |-> "none"]
    /\ rpc = [r \in Readers |-> "idle"] /\ seen = [r \in Readers |-> 0]
    /\ summary = [r \in Readers |-> "none"] /\ answer = [r \in Readers |-> "none"]
    /\ operations = 0 /\ faults = 0 /\ crashes = 0 /\ statuses = 0

-----------------------------------------------------------------------------
(* Faulty variants of the definitions below, each with a mistake the code   *)
(* avoids.  No step uses them; they show that the properties notice.        *)

\* Publishes before it tries the lock.
BusyPublishes(w) ==
    /\ Goes(w, "idle", "busy")
    /\ lock # Nobody /\ operations < MaxOperations
    /\ operations' = operations + 1
    /\ activity' = StartActivity(operations + 1)
    /\ UNCHANGED <<lock, rows, newest, op, fate, readerVars, faults, crashes, statuses>>

\* Gives the lock back before the end is published.
EndAfterRelease(w) ==
    /\ \/ Goes(w, "ending", "release") /\ lock' = Nobody
       \/ Goes(w, "release", "idle") /\ UNCHANGED lock
    /\ activity' = IF pc[w] = "release" THEN EndActivity(op[w]) ELSE activity
    /\ UNCHANGED <<rows, newest, op, fate, readerVars, counters>>

\* Leaves the row of a dead writer running.
BeginWithoutReconciling(w) ==
    /\ Goes(w, "working", "invoked")
    /\ rows' = [rows EXCEPT ![op[w]] = "running"]
    /\ newest' = op[w]
    /\ UNCHANGED <<lock, activity, op, fate, readerVars, counters>>

\* A lock holder that dies takes the lock with it.
CrashLocked(w) ==
    /\ pc[w] \notin {"idle", "busy"}
    /\ crashes < MaxCrashes /\ crashes' = crashes + 1
    /\ pc' = [pc EXCEPT ![w] = "idle"]
    /\ UNCHANGED <<lock, durable, op, fate, readerVars, operations, faults, statuses>>

-----------------------------------------------------------------------------
(* AnalysisOperationLock.__enter__                                          *)

Acquire(w) ==
    /\ Goes(w, "idle", "locked")
    /\ lock = Nobody /\ lock' = w
    /\ operations < MaxOperations /\ operations' = operations + 1
    /\ op' = [op EXCEPT ![w] = operations + 1]
    /\ fate' = [fate EXCEPT ![operations + 1] = "started"]
    /\ UNCHANGED <<durable, readerVars, faults, crashes, statuses>>

\* flock would block: AnalysisBusyError, at once.
RefuseBusy(w) ==
    /\ Goes(w, "idle", "busy")
    /\ lock # Nobody
    /\ UNCHANGED <<lock, durable, op, fate, readerVars, counters>>

LeaveBusy(w) ==
    /\ Goes(w, "busy", "idle")
    /\ UNCHANGED <<lock, durable, op, fate, readerVars, counters>>

PublishStart(w) ==
    /\ Goes(w, "locked", "working")
    /\ activity' = StartActivity(op[w])
    /\ UNCHANGED <<lock, rows, newest, op, fate, readerVars, counters>>

\* Loading or publishing raises, before the rename or after it (the directory
\* sync); the block is not entered and the lock is dropped.
StartFails(w) ==
    /\ Goes(w, "locked", "release")
    /\ Fault
    /\ activity' \in {activity, StartActivity(op[w])}
    /\ fate' = [fate EXCEPT ![op[w]] = "failed"]
    /\ UNCHANGED <<lock, rows, newest, op, readerVars, operations, crashes, statuses>>

-----------------------------------------------------------------------------
(* The block: init, compare and snapshot write no invocation, run does.     *)

LeaveBlock(w) ==
    /\ Goes(w, "working", "ending")
    /\ \E f \in {"completed", "failed"} : fate' = [fate EXCEPT ![op[w]] = f]
    /\ UNCHANGED <<lock, durable, op, readerVars, counters>>

\* begin_invocation reconciles a row that was never finalized.
BeginInvocation(w) ==
    /\ Goes(w, "working", "invoked")
    /\ rows' = [o \in Operations |->
                  IF o = op[w] THEN "running"
                  ELSE IF rows[o] = "running" THEN "interrupted" ELSE rows[o]]
    /\ newest' = op[w]
    /\ UNCHANGED <<lock, activity, op, fate, readerVars, counters>>

\* finish_invocation, or its failure, or a failure after it.
FinishRun(w) ==
    /\ Goes(w, "invoked", "ending")
    /\ \/ /\ rows' = [rows EXCEPT ![op[w]] = "target_reached"]
          /\ fate' = [fate EXCEPT ![op[w]] = "completed"]
          /\ UNCHANGED faults
       \/ /\ \E result \in {"failed", "interrupted"} :
                rows' = [rows EXCEPT ![op[w]] = result]
          /\ fate' = [fate EXCEPT ![op[w]] = "failed"]
          /\ UNCHANGED faults
       \/ /\ Fault
          /\ rows' \in {rows, [rows EXCEPT ![op[w]] = "target_reached"]}
          /\ fate' = [fate EXCEPT ![op[w]] = "failed"]
    /\ UNCHANGED <<lock, activity, newest, op, readerVars, operations, crashes, statuses>>

-----------------------------------------------------------------------------
(* AnalysisOperationLock.__exit__                                           *)

PublishEnd(w) ==
    /\ Goes(w, "ending", "release")
    /\ activity' = EndActivity(op[w])
    /\ UNCHANGED <<lock, rows, newest, op, fate, readerVars, counters>>

\* Publishing the end raises, before or after the rename; the finally clause
\* still drops the lock.
EndFails(w) ==
    /\ Goes(w, "ending", "release")
    /\ Fault
    /\ activity' \in {activity, EndActivity(op[w])}
    /\ UNCHANGED <<lock, rows, newest, op, fate, readerVars, operations, crashes, statuses>>

Release(w) ==
    /\ Goes(w, "release", "idle")
    /\ lock' = Nobody
    /\ op' = [op EXCEPT ![w] = 0]
    /\ UNCHANGED <<durable, fate, readerVars, counters>>

\* The process dies and the kernel drops its lock.
Crash(w) ==
    /\ pc[w] \notin {"idle", "busy"}
    /\ crashes < MaxCrashes /\ crashes' = crashes + 1
    /\ lock' = Nobody
    /\ pc' = [pc EXCEPT ![w] = "idle"] /\ op' = [op EXCEPT ![w] = 0]
    /\ fate' = [fate EXCEPT ![op[w]] = IF @ = "started" THEN "crashed" ELSE @]
    /\ UNCHANGED <<durable, readerVars, operations, faults, statuses>>

-----------------------------------------------------------------------------
(* cli._status: the database summary first, then the probe.                 *)

ReadSummary(r) ==
    /\ rpc[r] = "idle" /\ rpc' = [rpc EXCEPT ![r] = "read"]
    /\ statuses < MaxStatuses /\ statuses' = statuses + 1
    /\ seen' = [seen EXCEPT ![r] = newest]
    /\ summary' = [summary EXCEPT ![r] = IF newest = 0 THEN "none" ELSE rows[newest]]
    /\ answer' = [answer EXCEPT ![r] = "none"]
    /\ UNCHANGED <<lock, durable, writerVars, operations, faults, crashes>>

\* is_analysis_writer_locked takes the lock to see whether it can.
TakeProbe(r) ==
    /\ rpc[r] = "read" /\ rpc' = [rpc EXCEPT ![r] = "probe"]
    /\ lock = Nobody /\ lock' = r
    /\ UNCHANGED <<durable, writerVars, seen, summary, answer, counters>>

ProbeBusy(r) ==
    /\ rpc[r] = "read" /\ rpc' = [rpc EXCEPT ![r] = "told"]
    /\ lock # Nobody
    /\ answer' = [answer EXCEPT ![r] = "running"]
    /\ UNCHANGED <<lock, durable, writerVars, seen, summary, counters>>

ReleaseProbe(r) ==
    /\ rpc[r] = "probe" /\ rpc' = [rpc EXCEPT ![r] = "told"]
    /\ lock' = Nobody
    /\ answer' = [answer EXCEPT ![r] = StateOf(summary[r])]
    /\ UNCHANGED <<durable, writerVars, seen, summary, counters>>

Leave(r) ==
    /\ rpc[r] = "told" /\ rpc' = [rpc EXCEPT ![r] = "idle"]
    /\ seen' = [seen EXCEPT ![r] = 0]
    /\ summary' = [summary EXCEPT ![r] = "none"]
    /\ answer' = [answer EXCEPT ![r] = "none"]
    /\ UNCHANGED <<lock, durable, writerVars, counters>>

-----------------------------------------------------------------------------
\* What a writer does once it holds the lock, unless it dies.
HolderStep(w) ==
    \/ PublishStart(w) \/ StartFails(w) \/ LeaveBlock(w) \/ BeginInvocation(w)
    \/ FinishRun(w) \/ PublishEnd(w) \/ EndFails(w) \/ Release(w)
WriterStep(w) ==
    Acquire(w) \/ RefuseBusy(w) \/ LeaveBusy(w) \/ HolderStep(w) \/ Crash(w)
ReaderStep(r) ==
    ReadSummary(r) \/ TakeProbe(r) \/ ProbeBusy(r) \/ ReleaseProbe(r) \/ Leave(r)

Next == \/ \E w \in Writers : WriterStep(w)
        \/ \E r \in Readers : ReaderStep(r)

\* A process that holds the lock keeps executing, and so does a probe that has
\* taken it; nobody has to start a command.
Fairness == /\ \A w \in Writers : WF_vars(HolderStep(w))
            /\ \A r \in Readers : WF_vars(ReleaseProbe(r))

Spec == Init /\ [][Next]_vars /\ Fairness

-----------------------------------------------------------------------------
(* Correctness.                                                             *)

ActivityRecords ==
    [op : 0..MaxOperations, running : BOOLEAN, result : {"none", "completed", "failed"},
     previousOp : 0..MaxOperations,
     previousResult : {"none", "completed", "failed", "interrupted"}]

\* Every variable keeps its type.
TypeOK ==
    /\ lock \in Writers \cup Readers \cup {Nobody}
    /\ activity \in ActivityRecords
    /\ rows \in [Operations -> RowResults] /\ newest \in 0..MaxOperations
    /\ pc \in [Writers -> WriterStates] /\ op \in [Writers -> 0..MaxOperations]
    /\ fate \in [Operations -> Fates]
    /\ rpc \in [Readers -> ReaderStates] /\ seen \in [Readers -> 0..MaxOperations]
    /\ summary \in [Readers -> RowResults] /\ answer \in [Readers -> Answers]
    /\ operations \in 0..MaxOperations /\ faults \in 0..MaxFaults
    /\ crashes \in 0..MaxCrashes /\ statuses \in 0..MaxStatuses

InBlock == {"working", "invoked", "ending"}
Holding == {"locked", "release"} \cup InBlock

\* A writer that is in its block owns the lock alone, and activity.json names
\* it; as long as nothing died or failed, it says running of nobody else.
ActivityNamesOwner ==
    /\ \A w \in Writers : pc[w] \in InBlock =>
          /\ lock = w /\ activity.op = op[w] /\ activity.running
          /\ \A v \in Writers \ {w} : pc[v] \notin Holding
    /\ activity.running /\ faults = 0 /\ crashes = 0 =>
          \E w \in Writers : pc[w] \in InBlock /\ op[w] = activity.op

\* What an activity says of its predecessor is true: completed and failed are
\* how that operation left its block, and it is called interrupted only when
\* it is over without an end of its own; a finished activity is true of itself.
PreviousIsTrue ==
    /\ activity.previousOp < activity.op \/ activity.op = 0
    /\ activity.previousResult \in {"completed", "failed"} =>
          fate[activity.previousOp] = activity.previousResult
    /\ activity.previousResult = "interrupted" =>
          \A w \in Writers : op[w] # activity.previousOp
    /\ activity.op # 0 /\ ~activity.running => fate[activity.op] = activity.result

\* A running row is the newest one, and unless its writer is still in its
\* block, or finalizing it failed, that writer died.
RunningRowIsNewest ==
    \A o \in Operations : rows[o] = "running" =>
        /\ o = newest
        /\ \/ \E w \in Writers : op[w] = o /\ pc[w] = "invoked"
           \/ fate[o] = "crashed" \/ faults > 0

\* Whoever gets the lock gives it back, whatever fails and whoever dies.
LockIsReleased ==
    \A h \in Writers \cup Readers : (lock = h) ~> (lock # h)

\* The last two do not hold of the code and no run checks them (README, known
\* divergences): a probe takes the lock another probe asks for, and a status is
\* put together from two moments.

\* is_analysis_writer_locked returns True only while "a writer currently owns"
\* the lock (its docstring).
ProbeTruthful ==
    [][\A r \in Readers : rpc[r] = "read" /\ rpc'[r] = "told" => lock \in Writers]_vars

\* A status that reports an interrupted run speaks of a run that did not reach
\* its target: its row is not, at that moment, target_reached.
StatusTruthful ==
    \A r \in Readers : answer[r] = "interrupted" =>
        rows[seen[r]] # "target_reached"
=============================================================================
