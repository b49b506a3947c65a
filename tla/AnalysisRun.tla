----------------------------- MODULE AnalysisRun -----------------------------
(***************************************************************************)
(* The life of one analysis: `run` invocations of several processes        *)
(* (srcmove_history/analysis.py) over the durable tables of                *)
(* srcmove_history/database.py, with failures, interrupts and crashes      *)
(* between any two transactions.                                           *)
(*                                                                         *)
(* A commit is named by its position in the frozen first-parent history:   *)
(* 0 is the newest, HistoryPairs the root.  The pair with distance d is the*)
(* edge between commits d and d + 1.  One action is one database           *)
(* transaction with the reads and checks that precede it in the same       *)
(* process; the operation lock makes the process the only writer.  The     *)
(* worker threads of Coordinator appear as Publish: its outcomes come in   *)
(* sequence order (OrderedPublication) and it may give up at any point.    *)
(***************************************************************************)
EXTENDS Naturals, Sequences, FiniteSets

CONSTANTS
    Runners,        \* operating-system processes that invoke `run`
    Nobody,         \* nobody holds the operation lock
    HistoryPairs,   \* adjacent pairs of the first-parent history
    BatchLimit,     \* DEFAULT_BATCH_PAIR_LIMIT
    Targets,        \* the requested targets, records [kind, value]
    Outcomes,       \* terminal statuses a pair can be sealed with
    FailedOutcomes, \* those that count as failures
    Open,           \* status NULL
    MaxRuns,        \* bound on invocations
    MaxFailures,    \* bound on exceptions that are not target refusals
    MaxCrashes      \* bound on process crashes

ASSUME HistoryAssumption == HistoryPairs \in Nat \ {0} /\ BatchLimit \in Nat \ {0}
ASSUME LockAssumption == Nobody \notin Runners
ASSUME OutcomeAssumption == FailedOutcomes \subseteq Outcomes /\ Open \notin Outcomes
\* A count is positive (_validate_target), `through` names a commit of the
\* first-parent history by its distance, 0 for the newest, and `all` has no value.
ASSUME TargetAssumption ==
    /\ Targets # {}
    /\ Targets \subseteq
         [kind : {"total_pairs", "additional_pairs"}, value : Nat \ {0}]
         \cup [kind : {"through"}, value : 0..HistoryPairs]
         \cup [kind : {"all"}, value : {0}]
ASSUME BoundAssumption == MaxRuns \in Nat /\ MaxFailures \in Nat /\ MaxCrashes \in Nat

VARIABLES
    \* the durable state: analysis.sqlite3 and its tables
    created,      \* the database file has been published
    revision,     \* analysis.revision
    completed,    \* analysis.completed_pair_count
    boundary,     \* oldest_completed_commit, or newest_commit when NULL
    exhausted,    \* analysis.history_exhausted
    batches,      \* the rows of batches with their rows of pairs
    invocations,  \* the rows of invocations in created_order
    \* the processes
    lock,         \* who holds .operation.lock
    pc,           \* where each process is
    target,       \* the target a process was asked for
    desired,      \* total pairs it resolves to, or NoLimit
    position,     \* next_sequence of the process's publisher
    own,          \* the created_order of the process's invocation row
    startedAt,    \* history: completed_pair_count when the run began
    runs, failures, crashes  \* history: how many there have been

tables == <<created, revision, completed, boundary, exhausted, batches>>
locals == <<target, desired, position, own, startedAt>>
counters == <<runs, failures, crashes>>
vars == <<tables, invocations, lock, pc, locals, counters>>

NoLimit == HistoryPairs + BatchLimit   \* --all: more than any plan asks for
Results == {"running", "target_reached", "target_reached_with_failures",
            "failed", "interrupted"}
RunStates == {"idle", "open", "begin", "advance", "execute", "commit",
              "success", "failed", "interrupted", "unlock"}

Least(a, b) == IF a <= b THEN a ELSE b
Most(a, b) == IF a >= b THEN a ELSE b

Row(b, s) == batches[b].rows[s]
Latest == Len(batches)
\* pending_batch(): the batches rows whose status is 'pending'.
PendingBatches == {b \in 1..Latest : ~batches[b].done}
HasPending == PendingBatches # {}
Pending == CHOOSE b \in PendingBatches : TRUE
HasFailedPair == \E b \in 1..Latest : \E t \in 0..(batches[b].count - 1) :
                     Row(b, t).outcome \in FailedOutcomes

SealedRows == UNION {{Row(b, s) : s \in {t \in DOMAIN batches[b].rows :
                                             batches[b].rows[t].outcome # Open}} : b \in 1..Latest}

\* completed_prefix: rows sealed before the first open one, and whether the
\* sealed rows are exactly those.
Prefix(b) ==
    CHOOSE n \in 0..batches[b].count :
        /\ \A s \in 0..(n - 1) : Row(b, s).outcome # Open
        /\ n < batches[b].count => Row(b, n).outcome = Open
PrefixContiguous(b) ==
    \A s \in Prefix(b)..(batches[b].count - 1) : Row(b, s).outcome = Open

\* select_older_first_parent_history from commit c: how many pairs it yields
\* when n are asked for, and whether it saw the root.
SelectedPairs(c, n) == Least(n, HistoryPairs - c)
SelectionExhaustedLate(c, n) == HistoryPairs - c < n  \* faulty, unused
SelectionExhausted(c, n) == HistoryPairs - c <= n

\* The rows _insert_pending_batch writes for n pairs older than `boundary`.
NewBatch(n, reaches) ==
    [base |-> revision, newest |-> boundary, oldest |-> boundary + n,
     count |-> n, reaches |-> reaches, done |-> FALSE,
     rows |-> [s \in 0..(n - 1) |->
                 [distance |-> completed + n - 1 - s, outcome |-> Open, by |-> 0]]]

Go(p, from, to) == pc[p] = from /\ pc' = [pc EXCEPT ![p] = to]

\* A process that has ended keeps nothing.
AnyTarget == CHOOSE t \in Targets : TRUE
Forget(p) ==
    /\ target' = [target EXCEPT ![p] = AnyTarget]
    /\ desired' = [desired EXCEPT ![p] = 0]
    /\ position' = [position EXCEPT ![p] = 0]
    /\ own' = [own EXCEPT ![p] = 0]
    /\ startedAt' = [startedAt EXCEPT ![p] = 0]

PendingTotal == completed + batches[Pending].count

\* Faulty, unused: counts a relative target from the end of the frozen work.
DesiredFromPlan(t) ==
    CASE t.kind = "all" -> NoLimit
      [] t.kind = "additional_pairs" ->
            (IF HasPending THEN PendingTotal ELSE completed) + t.value
      [] OTHER -> t.value

\* The absolute pair count a target stands for (_effective_target and
\* _desired_total_pairs), read under the lock.
DesiredFor(t) == CASE t.kind = "all" -> NoLimit
                   [] t.kind = "additional_pairs" -> completed + t.value
                   [] OTHER -> t.value

TargetMetCount(p) == completed >= desired[p]  \* faulty, unused
TargetMet(p) == exhausted \/ completed >= desired[p]
Asked(p) == Least(desired[p] - completed, BatchLimit)

Init ==
    /\ created = FALSE /\ revision = 0 /\ completed = 0 /\ boundary = 0
    /\ exhausted = FALSE /\ batches = <<>> /\ invocations = <<>>
    /\ lock = Nobody
    /\ pc = [p \in Runners |-> "idle"]
    /\ target = [p \in Runners |-> AnyTarget]
    /\ desired = [p \in Runners |-> 0] /\ position = [p \in Runners |-> 0]
    /\ own = [p \in Runners |-> 0] /\ startedAt = [p \in Runners |-> 0]
    /\ runs = 0 /\ failures = 0 /\ crashes = 0

-----------------------------------------------------------------------------
(* A faulty variant of CommitBatch: no step uses it.                        *)

\* Commits whatever prefix of the batch is sealed.
CommitUnfinished(p) ==
    /\ \/ Go(p, "commit", "advance") \/ Go(p, "execute", "advance")
    /\ LET b == Pending
       IN /\ batches' = [batches EXCEPT ![b].done = TRUE]
          /\ revision' = revision + 1
          /\ boundary' = batches[b].oldest
          /\ completed' = completed + batches[b].count
          /\ exhausted' = batches[b].reaches
    /\ UNCHANGED <<created, invocations, lock, locals, counters>>

-----------------------------------------------------------------------------
(* analyze_repository: the lock, the database, the invocation row.          *)

StartRun(p) ==
    /\ Go(p, "idle", "open")
    /\ lock = Nobody /\ lock' = p
    /\ runs < MaxRuns /\ runs' = runs + 1
    /\ \E t \in Targets : target' = [target EXCEPT ![p] = t]
    /\ UNCHANGED <<tables, invocations, desired, position, own, startedAt,
                   failures, crashes>>

OpenDatabase(p) ==
    /\ Go(p, "open", "begin")
    /\ created
    /\ UNCHANGED <<tables, invocations, lock, locals, counters>>

\* _create_database: the singleton row and the first pending batch become
\* visible together when the finished file is linked into place.
CreateDatabase(p) ==
    /\ Go(p, "open", "begin")
    /\ ~created
    /\ target[p].kind = "all" \/ target[p].value > 0
    /\ LET asked == IF target[p].kind = "all" THEN BatchLimit
                    ELSE Least(target[p].value, BatchLimit)
       IN batches' = <<NewBatch(SelectedPairs(0, asked), SelectionExhausted(0, asked))>>
    /\ created' = TRUE /\ revision' = 1
    /\ UNCHANGED <<completed, boundary, exhausted, invocations, lock, locals,
                   counters>>

\* The request cannot create an analysis, or it contradicts the definition of
\* the existing one (drift): the error escapes before an invocation exists.
RefuseRequest(p) ==
    /\ \/ /\ Go(p, "open", "unlock")
          /\ ~created /\ target[p].kind # "all" /\ target[p].value = 0
          /\ UNCHANGED failures
       \/ /\ pc[p] \in {"open", "begin"} /\ Go(p, pc[p], "unlock")
          /\ failures < MaxFailures /\ failures' = failures + 1
    /\ UNCHANGED <<tables, invocations, lock, locals, runs, crashes>>

\* begin_invocation: older running rows are reconciled, the new one is last.
BeginInvocation(p) ==
    /\ Go(p, "begin", "advance")
    /\ invocations' = Append([i \in DOMAIN invocations |->
                                IF invocations[i] = "running" THEN "interrupted"
                                ELSE invocations[i]], "running")
    /\ own' = [own EXCEPT ![p] = Len(invocations) + 1]
    /\ desired' = [desired EXCEPT ![p] = DesiredFor(target[p])]
    /\ startedAt' = [startedAt EXCEPT ![p] = completed]
    /\ UNCHANGED <<tables, lock, target, position, counters>>

-----------------------------------------------------------------------------
(* _advance_analysis: one iteration after another until the target is met.  *)

\* Frozen pending work is never cut short.
RefuseTarget(p) ==
    /\ Go(p, "advance", "failed")
    /\ HasPending /\ desired[p] < PendingTotal
    /\ UNCHANGED <<tables, invocations, lock, locals, counters>>

\* The sealed prefix is verified, never executed again.
ResumeBatch(p) ==
    /\ Go(p, "advance", "execute")
    /\ HasPending /\ desired[p] >= PendingTotal
    /\ PrefixContiguous(Pending)
    /\ position' = [position EXCEPT ![p] = Prefix(Pending)]
    /\ UNCHANGED <<tables, invocations, lock, target, desired, own, startedAt,
                   counters>>

\* record_outcome: only for a running invocation, only where status is NULL.
Publish(p) ==
    /\ Go(p, "execute", "execute")
    /\ LET b == Pending  s == position[p]
       IN /\ s < batches[b].count
          /\ invocations[own[p]] = "running"
          /\ Row(b, s).outcome = Open
          /\ \E o \in Outcomes :
                batches' = [batches EXCEPT ![b].rows[s] =
                              [distance |-> @.distance, outcome |-> o, by |-> own[p]]]
    /\ position' = [position EXCEPT ![p] = @ + 1]
    /\ UNCHANGED <<created, revision, completed, boundary, exhausted,
                   invocations, lock, target, desired, own, startedAt, counters>>

BatchExecuted(p) ==
    /\ Go(p, "execute", "commit")
    /\ position[p] = batches[Pending].count
    /\ UNCHANGED <<tables, invocations, lock, locals, counters>>

\* commit_pending_batch: coverage advances by the whole batch at once.
CommitBatch(p) ==
    /\ Go(p, "commit", "advance")
    /\ LET b == Pending
       IN /\ revision = batches[b].base + 1
          /\ Prefix(b) = batches[b].count
          /\ batches' = [batches EXCEPT ![b].done = TRUE]
          /\ revision' = revision + 1
          /\ boundary' = batches[b].oldest
          /\ completed' = completed + batches[b].count
          /\ exhausted' = batches[b].reaches
    /\ UNCHANGED <<created, invocations, lock, locals, counters>>

\* _plan_next_batch and add_pending_batch.
AddBatch(p) ==
    /\ Go(p, "advance", "advance")
    /\ ~HasPending /\ ~TargetMet(p)
    /\ SelectedPairs(boundary, Asked(p)) > 0
    /\ batches' = Append(batches, NewBatch(SelectedPairs(boundary, Asked(p)),
                                           SelectionExhausted(boundary, Asked(p))))
    /\ revision' = revision + 1
    /\ UNCHANGED <<created, completed, boundary, exhausted, invocations, lock,
                   locals, counters>>

ReachTarget(p) ==
    /\ Go(p, "advance", "success")
    /\ ~HasPending /\ TargetMet(p)
    /\ UNCHANGED <<tables, invocations, lock, locals, counters>>

\* Anything else raises (a tool, Git, the disk, the coordinator), or the user
\* interrupts; transactions that did not commit leave nothing.
Raise(p) ==
    /\ pc[p] \in {"advance", "execute", "commit"}
    /\ failures < MaxFailures /\ failures' = failures + 1
    /\ Go(p, pc[p], "failed") \/ Go(p, pc[p], "interrupted")
    /\ UNCHANGED <<tables, invocations, lock, locals, runs, crashes>>

-----------------------------------------------------------------------------
(* The end of a run.                                                        *)

ResultOf(state) ==
    IF state = "success"
      THEN IF HasFailedPair THEN "target_reached_with_failures"
                               ELSE "target_reached"
      ELSE state

FinishInvocation(p) ==
    /\ pc[p] \in {"success", "failed", "interrupted"}
    /\ Go(p, pc[p], "unlock")
    /\ invocations[own[p]] = "running"
    /\ invocations' = [invocations EXCEPT ![own[p]] = ResultOf(pc[p])]
    /\ UNCHANGED <<tables, lock, locals, counters>>

\* finish_invocation itself raises: the row stays running.
FinishFails(p) ==
    /\ pc[p] \in {"success", "failed", "interrupted"}
    /\ Go(p, pc[p], "unlock")
    /\ failures < MaxFailures /\ failures' = failures + 1
    /\ UNCHANGED <<tables, invocations, lock, locals, runs, crashes>>

Unlock(p) ==
    /\ Go(p, "unlock", "idle")
    /\ lock' = Nobody /\ Forget(p)
    /\ UNCHANGED <<tables, invocations, counters>>

\* The process dies; the kernel releases its flock.
Crash(p) ==
    /\ pc[p] # "idle" /\ pc' = [pc EXCEPT ![p] = "idle"]
    /\ crashes < MaxCrashes /\ crashes' = crashes + 1
    /\ lock' = Nobody /\ Forget(p)
    /\ UNCHANGED <<tables, invocations, runs, failures>>

RunStep(p) ==
    \/ StartRun(p) \/ OpenDatabase(p) \/ CreateDatabase(p) \/ RefuseRequest(p)
    \/ BeginInvocation(p) \/ RefuseTarget(p) \/ ResumeBatch(p) \/ Publish(p)
    \/ BatchExecuted(p) \/ CommitBatch(p) \/ AddBatch(p) \/ ReachTarget(p)
    \/ Raise(p) \/ FinishInvocation(p) \/ FinishFails(p) \/ Unlock(p)

Next == \E p \in Runners : RunStep(p) \/ Crash(p)

\* A started run keeps going; nobody is forced to start one.
Fairness == \A p \in Runners : WF_vars(RunStep(p) /\ pc[p] # "idle")

Spec == Init /\ [][Next]_vars /\ Fairness

-----------------------------------------------------------------------------
(* Correctness.                                                             *)

\* A row of batches with the n rows of pairs that belong to it.
BatchRecords(n) ==
    [base : Nat, newest : 0..HistoryPairs, oldest : 0..HistoryPairs,
     count : {n}, reaches : BOOLEAN, done : BOOLEAN,
     rows : [0..(n - 1) -> [distance : 0..(HistoryPairs - 1),
                            outcome : Outcomes \cup {Open}, by : Nat]]]

\* Every column keeps its type.
TypeOK ==
    /\ created \in BOOLEAN /\ revision \in Nat
    /\ completed \in 0..HistoryPairs /\ boundary \in 0..HistoryPairs
    /\ exhausted \in BOOLEAN
    /\ DOMAIN batches = 1..Latest
    /\ \A b \in 1..Latest : \E n \in 1..BatchLimit : batches[b] \in BatchRecords(n)
    /\ invocations \in Seq(Results)
    /\ lock \in Runners \cup {Nobody} /\ pc \in [Runners -> RunStates]
    /\ target \in [Runners -> Targets] /\ desired \in [Runners -> Nat]
    /\ position \in [Runners -> Nat] /\ own \in [Runners -> Nat]
    /\ startedAt \in [Runners -> Nat]
    /\ runs \in 0..MaxRuns /\ failures \in 0..MaxFailures
    /\ crashes \in 0..MaxCrashes

\* The batches tile the history outward from the newest commit: each starts
\* where the previous one ended, the row with sequence s is the s-th edge from
\* the batch's oldest commit, and its stored distance is that edge's distance
\* from the newest commit (so distances are unique and have no gap).
RowsTile ==
    \A b \in 1..Latest :
        /\ batches[b].newest = (IF b = 1 THEN 0 ELSE batches[b - 1].oldest)
        /\ batches[b].oldest = batches[b].newest + batches[b].count
        /\ \A s \in 0..(batches[b].count - 1) :
              Row(b, s).distance = batches[b].oldest - 1 - s

\* The singleton row agrees with the batches: coverage, its boundary commit
\* and the exhausted flag are those of the completed batches, every plan and
\* every commit counted one revision, and only the last batch may be pending,
\* planned at the current revision.  Every outcome is credited to an invocation,
\* one sealed later to the same or a later one.
AccountsAgree ==
    /\ completed = boundary
    /\ exhausted <=> completed = HistoryPairs
    /\ created <=> Latest > 0
    /\ \A b \in 1..Latest : batches[b].done <=> batches[b].oldest <= completed
    /\ \A b \in 1..(Latest - 1) : batches[b].done
    /\ revision = IF HasPending THEN 2 * Latest - 1 ELSE 2 * Latest
    /\ HasPending => batches[Latest].base + 1 = revision
    /\ \A b \in 1..Latest : \A s \in 0..(batches[b].count - 1) :
         /\ Row(b, s).outcome # Open <=> Row(b, s).by \in 1..Len(invocations)
         /\ \A c \in b..Latest : \A t \in 0..(batches[c].count - 1) :
              (c > b \/ t > s) /\ Row(c, t).outcome # Open => Row(b, s).by <= Row(c, t).by

\* The checks that raise ("noncontiguous sealed prefix", "no older adjacent
\* commit pair", "no running invocation", "already sealed", "revision drift",
\* "is not complete", "missing or already finalized", "coverage drifts") never
\* find anything in an analysis that only these runs have written: an
\* interrupted history never makes it unusable.
ChecksPass ==
    /\ Cardinality(PendingBatches) <= 1
    /\ HasPending => PrefixContiguous(Pending)
    /\ \A p \in Runners :
         /\ pc[p] = "advance" /\ ~HasPending /\ ~TargetMet(p) =>
               SelectedPairs(boundary, Asked(p)) > 0
         /\ pc[p] = "execute" =>
               /\ HasPending /\ position[p] <= batches[Pending].count
               /\ position[p] < batches[Pending].count =>
                     /\ Row(Pending, position[p]).outcome = Open
                     /\ invocations[own[p]] = "running"
         /\ pc[p] = "commit" =>
               /\ HasPending /\ revision = batches[Pending].base + 1
               /\ Prefix(Pending) = batches[Pending].count
         /\ pc[p] \in {"success", "failed", "interrupted"} =>
               invocations[own[p]] = "running"

\* What the tables say is one history, well typed, and stays usable.
TablesAgree == TypeOK /\ RowsTile /\ AccountsAgree /\ ChecksPass

Goal(p) == CASE target[p].kind = "all" -> HistoryPairs
             [] target[p].kind = "additional_pairs" -> startedAt[p] + target[p].value
             [] OTHER -> target[p].value

\* A successful run has covered exactly what was asked, counted from the
\* coverage it found when it took the lock: no more than the target, less only
\* at the root, and nothing if the target was already met.
TargetExact ==
    \A p \in Runners :
        pc[p] = "success" =>
            completed = Most(startedAt[p], Least(Goal(p), HistoryPairs))

\* The tables implement the abstract coverage ledger.
Ledger == INSTANCE CoverageLedger WITH
    frontier <- completed,
    window <- IF HasPending THEN PendingTotal ELSE completed,
    sealed <- [d \in 0..(HistoryPairs - 1) |->
                 IF \E r \in SealedRows : r.distance = d
                   THEN (CHOOSE r \in SealedRows : r.distance = d).outcome ELSE Open]
ImplementsLedger == Ledger!Spec
=============================================================================
