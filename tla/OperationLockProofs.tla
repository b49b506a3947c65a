------------------------- MODULE OperationLockProofs -------------------------
(***************************************************************************)
(* Proofs that, for any processes and bounds, activity.json and the        *)
(* invocation rows tell the truth about the writers.  The argument: only   *)
(* the holder of the lock performs an operation, it is the newest one, and *)
(* whatever the files say of an older operation was decided when that one  *)
(* left its block.                                                         *)
(***************************************************************************)
EXTENDS OperationLock, TLAPS

\* A writer is past its lock acquisition exactly while it owns the lock, and a
\* reader that probes owns it too.
Ownership ==
    /\ \A w \in Writers : pc[w] \in Holding <=> lock = w
    /\ \A r \in Readers : rpc[r] = "probe" => lock = r

\* The operation that is performed is the newest.
Numbering ==
    \A w \in Writers :
        IF pc[w] \in Holding THEN op[w] = operations /\ operations >= 1
                             ELSE op[w] = 0

\* What has become of the operations.
FateOfOwner ==
    \A w \in Writers :
        /\ pc[w] \in {"locked", "working", "invoked"} => fate[op[w]] = "started"
        /\ pc[w] \in {"ending", "release"} => fate[op[w]] \in {"completed", "failed"}

\* How activity.json relates to the operations.
ActivityOrder ==
    /\ activity.op <= operations
    /\ activity.op = 0 => activity = NoActivity
    /\ activity.op # 0 => activity.previousOp < activity.op
    /\ activity.previousOp = 0 => activity.previousResult = "none"
    /\ activity.running => activity.op # 0
    /\ \A w \in Writers : pc[w] = "locked" => activity.op < op[w]
    /\ \A w \in Writers : pc[w] \in InBlock => activity.op = op[w] /\ activity.running
    /\ activity.op # 0 /\ ~activity.running => fate[activity.op] = activity.result
    /\ activity.previousResult \in {"completed", "failed"} =>
          fate[activity.previousOp] = activity.previousResult
    /\ activity.running /\ faults = 0 /\ crashes = 0 =>
          \E w \in Writers : pc[w] \in InBlock /\ op[w] = activity.op

\* The inductive invariant.
IInv == /\ TypeOK
        /\ Ownership /\ Numbering /\ FateOfOwner /\ ActivityOrder
        /\ newest <= operations
        /\ RunningRowIsNewest

LEMMA InitIInv == Init => IInv
  <1> SUFFICES ASSUME Init PROVE IInv OBVIOUS
  <1> USE ProcessAssumption, BoundAssumption
  <1>1. TypeOK
    BY DEF Init, TypeOK, ActivityRecords, NoActivity, Operations, RowResults,
           WriterStates, Fates, ReaderStates, Answers
  <1>2. Ownership /\ Numbering /\ FateOfOwner
    BY DEF Init, Ownership, Numbering, FateOfOwner, Holding, InBlock
  <1>3. ActivityOrder /\ newest <= operations /\ RunningRowIsNewest
    BY DEF Init, ActivityOrder, RunningRowIsNewest, NoActivity, InBlock
  <1> QED BY <1>1, <1>2, <1>3 DEF IInv

\* What the lock publishes is an activity.
LEMMA ActivityType ==
    ASSUME TypeOK, NEW o \in Operations
    PROVE  /\ StartActivity(o) \in ActivityRecords
           /\ fate[o] \in {"completed", "failed"} => EndActivity(o) \in ActivityRecords
  <1>1. o \in 0..MaxOperations
    BY BoundAssumption DEF Operations
  <1>2. /\ activity.op \in 0..MaxOperations /\ activity.running \in BOOLEAN
        /\ activity.result \in {"none", "completed", "failed"}
        /\ activity.previousOp \in 0..MaxOperations
        /\ activity.previousResult \in {"none", "completed", "failed", "interrupted"}
    BY DEF TypeOK, ActivityRecords
  <1>3. StartActivity(o) \in ActivityRecords
    BY <1>1, <1>2 DEF StartActivity, ActivityRecords
  <1>4. fate[o] \in {"completed", "failed"} => EndActivity(o) \in ActivityRecords
    BY <1>1, <1>2 DEF EndActivity, ActivityRecords
  <1> QED BY <1>3, <1>4

LEMMA TypeStep == IInv /\ [Next]_vars => TypeOK'
  <1> SUFFICES ASSUME IInv, [Next]_vars PROVE TypeOK' OBVIOUS
  <1> USE ProcessAssumption, BoundAssumption
  <1> USE DEF TypeOK, Goes, Fault, durable, writerVars, readerVars, counters
  <1>a. TypeOK BY DEF IInv
  <1>b. ASSUME NEW w \in Writers, pc[w] \in Holding
        PROVE op[w] \in Operations
    <2>1. Numbering /\ operations \in 0..MaxOperations BY <1>a DEF IInv
    <2> QED BY <2>1, <1>b DEF Numbering, Operations
  <1>c. /\ {"none", "running", "target_reached", "failed", "interrupted"} = RowResults
        /\ {"none", "started", "completed", "failed", "crashed"} = Fates
        /\ {"idle", "busy", "locked", "working", "invoked", "ending", "release"}
              = WriterStates
        /\ {"idle", "read", "probe", "told"} = ReaderStates
        /\ {"none", "running", "idle", "target_reached", "failed", "interrupted"} = Answers
    BY DEF RowResults, Fates, WriterStates, ReaderStates, Answers
  <1>d. \A w \in Writers : \A x \in WriterStates : [pc EXCEPT ![w] = x] \in [Writers -> WriterStates]
    BY <1>a
  <1>e. \A r \in Readers : \A x \in ReaderStates : [rpc EXCEPT ![r] = x] \in [Readers -> ReaderStates]
    BY <1>a
  <1>f. \A o \in Operations : \A f \in Fates : [fate EXCEPT ![o] = f] \in [Operations -> Fates]
    BY <1>a
  <1>g. /\ \A x \in Nat : x < MaxFaults => x + 1 \in 0..MaxFaults
        /\ \A x \in Nat : x < MaxCrashes => x + 1 \in 0..MaxCrashes
        /\ \A x \in Nat : x < MaxStatuses => x + 1 \in 0..MaxStatuses
        /\ \A x \in Nat : x < MaxOperations =>
              x + 1 \in 0..MaxOperations /\ x + 1 \in Operations
        /\ {operations, faults, crashes, statuses} \subseteq Nat
    BY <1>a DEF Operations
  <1>1. ASSUME NEW w \in Writers, Acquire(w) PROVE TypeOK'
    <2>1. /\ pc' \in [Writers -> WriterStates] /\ fate' \in [Operations -> Fates]
          /\ op' \in [Writers -> 0..MaxOperations] /\ operations' \in 0..MaxOperations
      BY <1>1, <1>a, <1>c, <1>d, <1>f, <1>g DEF Acquire
    <2> QED BY <2>1, <1>1, <1>a DEF Acquire
  <1>2. ASSUME NEW w \in Writers, RefuseBusy(w) \/ LeaveBusy(w) PROVE TypeOK'
    <2>1. pc' \in [Writers -> WriterStates]
      BY <1>2, <1>c, <1>d DEF RefuseBusy, LeaveBusy
    <2> QED BY <2>1, <1>2, <1>a DEF RefuseBusy, LeaveBusy
  <1>3. ASSUME NEW w \in Writers, PublishStart(w) PROVE TypeOK'
    <2>1. pc' \in [Writers -> WriterStates]
      BY <1>3, <1>c, <1>d DEF PublishStart
    <2>2. activity' \in ActivityRecords
      BY <1>3, <1>a, <1>b, ActivityType DEF PublishStart, Holding
    <2> QED BY <2>1, <2>2, <1>3, <1>a DEF PublishStart
  <1>4. ASSUME NEW w \in Writers, StartFails(w) PROVE TypeOK'
    <2>1. op[w] \in Operations
      BY <1>4, <1>b DEF StartFails, Holding
    <2>2. /\ pc' \in [Writers -> WriterStates] /\ fate' \in [Operations -> Fates]
          /\ faults' \in 0..MaxFaults
      BY <1>4, <2>1, <1>c, <1>d, <1>f, <1>g DEF StartFails
    <2>3. activity' \in ActivityRecords
      BY <1>4, <1>a, <2>1, ActivityType DEF StartFails
    <2> QED BY <2>2, <2>3, <1>4, <1>a DEF StartFails
  <1>5. ASSUME NEW w \in Writers, LeaveBlock(w) PROVE TypeOK'
    <2>1. op[w] \in Operations
      BY <1>5, <1>b DEF LeaveBlock, Holding, InBlock
    <2>2. pc' \in [Writers -> WriterStates] /\ fate' \in [Operations -> Fates]
      BY <1>5, <2>1, <1>c, <1>d, <1>f DEF LeaveBlock
    <2> QED BY <2>2, <1>5, <1>a DEF LeaveBlock
  <1>6. ASSUME NEW w \in Writers, BeginInvocation(w) PROVE TypeOK'
    <2>1. op[w] \in Operations
      BY <1>6, <1>b DEF BeginInvocation, Holding, InBlock
    <2>2. /\ pc' \in [Writers -> WriterStates] /\ rows' \in [Operations -> RowResults]
          /\ newest' \in 0..MaxOperations
      BY <1>6, <2>1, <1>a, <1>c, <1>d DEF BeginInvocation
    <2> QED BY <2>2, <1>6, <1>a DEF BeginInvocation
  <1>7. ASSUME NEW w \in Writers, FinishRun(w) PROVE TypeOK'
    <2>1. op[w] \in Operations
      BY <1>7, <1>b DEF FinishRun, Holding, InBlock
    <2>2. \A x \in RowResults : [rows EXCEPT ![op[w]] = x] \in [Operations -> RowResults]
      BY <1>a
    <2>3. rows' \in [Operations -> RowResults]
      BY <1>7, <2>2, <1>a, <1>c DEF FinishRun
    <2>4. fate' \in [Operations -> Fates]
      BY <1>7, <2>1, <1>c, <1>f DEF FinishRun
    <2>5. pc' \in [Writers -> WriterStates] /\ faults' \in 0..MaxFaults
      BY <1>7, <1>a, <1>c, <1>d, <1>g DEF FinishRun
    <2> QED BY <2>3, <2>4, <2>5, <1>7, <1>a DEF FinishRun
  <1>8. ASSUME NEW w \in Writers, PublishEnd(w) \/ EndFails(w) PROVE TypeOK'
    <2>1. pc[w] = "ending" BY <1>8 DEF PublishEnd, EndFails
    <2>2. op[w] \in Operations /\ fate[op[w]] \in {"completed", "failed"}
      BY <2>1, <1>b DEF Holding, InBlock, IInv, FateOfOwner
    <2>3. activity' \in ActivityRecords
      BY <1>8, <1>a, <2>2, ActivityType DEF PublishEnd, EndFails
    <2>4. pc' \in [Writers -> WriterStates] /\ faults' \in 0..MaxFaults
      BY <1>8, <1>a, <1>c, <1>d, <1>g DEF PublishEnd, EndFails
    <2> QED BY <2>3, <2>4, <1>8, <1>a DEF PublishEnd, EndFails
  <1>9. ASSUME NEW w \in Writers, Release(w) PROVE TypeOK'
    <2>1. pc' \in [Writers -> WriterStates] /\ op' \in [Writers -> 0..MaxOperations]
      BY <1>9, <1>a, <1>c, <1>d DEF Release
    <2> QED BY <2>1, <1>9, <1>a DEF Release
  <1>10. ASSUME NEW w \in Writers, Crash(w) PROVE TypeOK'
    <2>1. pc[w] \in Holding
      BY <1>10, <1>a, <1>c DEF Crash, Holding, InBlock
    <2>2. op[w] \in Operations BY <2>1, <1>b
    <2>3. fate' \in [Operations -> Fates]
      BY <1>10, <2>2, <1>a, <1>c DEF Crash
    <2>4. /\ pc' \in [Writers -> WriterStates] /\ op' \in [Writers -> 0..MaxOperations]
          /\ crashes' \in 0..MaxCrashes
      BY <1>10, <1>a, <1>c, <1>d, <1>g DEF Crash
    <2> QED BY <2>3, <2>4, <1>10, <1>a DEF Crash
  <1>11. ASSUME NEW r \in Readers, ReadSummary(r) PROVE TypeOK'
    <2>1. (IF newest = 0 THEN "none" ELSE rows[newest]) \in RowResults
      BY <1>a, <1>c DEF Operations
    <2>2. /\ rpc' \in [Readers -> ReaderStates] /\ statuses' \in 0..MaxStatuses
          /\ seen' \in [Readers -> 0..MaxOperations]
          /\ summary' \in [Readers -> RowResults] /\ answer' \in [Readers -> Answers]
      BY <1>11, <2>1, <1>a, <1>c, <1>e, <1>g DEF ReadSummary
    <2> QED BY <2>2, <1>11, <1>a DEF ReadSummary
  <1>12. ASSUME NEW r \in Readers,
                TakeProbe(r) \/ ProbeBusy(r) \/ ReleaseProbe(r) \/ Leave(r)
         PROVE TypeOK'
    <2>1. StateOf(summary[r]) \in Answers
      BY <1>a, <1>c DEF StateOf
    <2>2. /\ rpc' \in [Readers -> ReaderStates]
          /\ seen' \in [Readers -> 0..MaxOperations]
          /\ summary' \in [Readers -> RowResults] /\ answer' \in [Readers -> Answers]
      BY <1>12, <2>1, <1>a, <1>c, <1>e DEF TakeProbe, ProbeBusy, ReleaseProbe, Leave
    <2> QED BY <2>2, <1>12, <1>a DEF TakeProbe, ProbeBusy, ReleaseProbe, Leave
  <1>13. CASE UNCHANGED vars
    BY <1>13, <1>a DEF vars
  <1> QED
    BY <1>1, <1>2, <1>3, <1>4, <1>5, <1>6, <1>7, <1>8, <1>9, <1>10, <1>11, <1>12, <1>13
       DEF Next, WriterStep, HolderStep, ReaderStep

LEMMA OwnershipStep == IInv /\ [Next]_vars => Ownership' /\ Numbering'
  <1> SUFFICES ASSUME IInv, [Next]_vars PROVE Ownership' /\ Numbering' OBVIOUS
  <1> USE ProcessAssumption, BoundAssumption
  <1> USE DEF IInv, TypeOK, Ownership, Numbering, Holding, InBlock, Goes, Fault,
              WriterStates, ReaderStates, durable, writerVars, readerVars, counters
  <1>1. ASSUME NEW w \in Writers, Acquire(w) PROVE Ownership' /\ Numbering'
    BY <1>1 DEF Acquire
  <1>2. ASSUME NEW w \in Writers,
               RefuseBusy(w) \/ LeaveBusy(w) \/ PublishStart(w) \/ StartFails(w)
        PROVE Ownership' /\ Numbering'
    BY <1>2 DEF RefuseBusy, LeaveBusy, PublishStart, StartFails
  <1>3. ASSUME NEW w \in Writers,
               LeaveBlock(w) \/ BeginInvocation(w) \/ FinishRun(w)
                  \/ PublishEnd(w) \/ EndFails(w)
        PROVE Ownership' /\ Numbering'
    BY <1>3 DEF LeaveBlock, BeginInvocation, FinishRun, PublishEnd, EndFails
  <1>4. ASSUME NEW w \in Writers, Release(w) \/ Crash(w)
        PROVE Ownership' /\ Numbering'
    BY <1>4 DEF Release, Crash
  <1>5. ASSUME NEW r \in Readers, ReaderStep(r) PROVE Ownership' /\ Numbering'
    BY <1>5 DEF ReaderStep, ReadSummary, TakeProbe, ProbeBusy, ReleaseProbe, Leave
  <1>6. CASE UNCHANGED vars
    BY <1>6 DEF vars
  <1> QED
    BY <1>1, <1>2, <1>3, <1>4, <1>5, <1>6 DEF Next, WriterStep, HolderStep

LEMMA FateStep == IInv /\ [Next]_vars => FateOfOwner'
  <1> SUFFICES ASSUME IInv, [Next]_vars PROVE FateOfOwner' OBVIOUS
  <1> USE ProcessAssumption, BoundAssumption
  <1> USE DEF FateOfOwner, Goes, Fault, durable, writerVars, readerVars, counters
  <1>a. /\ TypeOK /\ TypeOK' BY TypeStep DEF IInv
  <1>b. \A w \in Writers : pc[w] \in Holding => op[w] \in Operations
    <2>1. Numbering /\ operations \in 0..MaxOperations BY <1>a DEF IInv, TypeOK
    <2> QED BY <2>1 DEF Numbering, Operations
  <1>c. FateOfOwner BY DEF IInv
  \* Another writer's operation is not this one's: only one holds the lock.
  <1>d. \A v, w \in Writers : pc[v] \in Holding /\ pc[w] \in Holding => v = w
    BY DEF IInv, Ownership
  <1>1. ASSUME NEW w \in Writers, Acquire(w) PROVE FateOfOwner'
    <2>1. \A v \in Writers : pc[v] \notin Holding
      BY <1>1 DEF Acquire, IInv, Ownership
    <2>2. operations + 1 \in Operations
      BY <1>1, <1>a DEF Acquire, TypeOK, Operations
    <2> QED BY <1>1, <1>a, <2>1, <2>2 DEF Acquire, TypeOK, Holding, InBlock
  <1>2. ASSUME NEW w \in Writers,
               RefuseBusy(w) \/ LeaveBusy(w) \/ PublishStart(w) \/ BeginInvocation(w)
                 \/ PublishEnd(w) \/ EndFails(w) \/ Release(w)
        PROVE FateOfOwner'
    BY <1>2, <1>a, <1>c
       DEF RefuseBusy, LeaveBusy, PublishStart, BeginInvocation, PublishEnd, EndFails,
           Release, TypeOK
  <1>3. ASSUME NEW w \in Writers, StartFails(w) \/ LeaveBlock(w) \/ FinishRun(w) \/ Crash(w)
        PROVE FateOfOwner'
    <2>1. pc[w] \in Holding
      BY <1>3, <1>a DEF StartFails, LeaveBlock, FinishRun, Crash, Holding, InBlock,
                        TypeOK, WriterStates
    <2>2. \A v \in Writers \ {w} : pc'[v] \notin Holding
      BY <1>3, <1>a, <1>d, <2>1 DEF StartFails, LeaveBlock, FinishRun, Crash, TypeOK
    <2>3. /\ pc'[w] \in {"ending", "release"} => fate'[op'[w]] \in {"completed", "failed"}
          /\ pc'[w] \notin {"locked", "working", "invoked"}
      BY <1>3, <1>a, <1>b, <2>1 DEF StartFails, LeaveBlock, FinishRun, Crash, TypeOK
    <2> QED BY <2>2, <2>3 DEF Holding, InBlock
  <1>4. ASSUME NEW r \in Readers, ReaderStep(r) PROVE FateOfOwner'
    BY <1>4, <1>c DEF ReaderStep, ReadSummary, TakeProbe, ProbeBusy, ReleaseProbe, Leave
  <1>5. CASE UNCHANGED vars
    BY <1>5, <1>c DEF vars
  <1> QED
    BY <1>1, <1>2, <1>3, <1>4, <1>5 DEF Next, WriterStep, HolderStep

LEMMA ActivityStep == IInv /\ [Next]_vars => ActivityOrder'
  <1> SUFFICES ASSUME IInv, [Next]_vars PROVE ActivityOrder' OBVIOUS
  <1> USE ProcessAssumption, BoundAssumption
  <1> USE DEF Goes, Fault, durable, writerVars, readerVars, counters
  <1>a. /\ TypeOK /\ TypeOK' BY TypeStep DEF IInv
  <1>b. \A w \in Writers : pc[w] \in Holding =>
           op[w] \in Operations /\ op[w] = operations /\ op[w] # 0
    <2>1. Numbering /\ operations \in 0..MaxOperations BY <1>a DEF IInv, TypeOK
    <2> QED BY <2>1 DEF Numbering, Operations
  <1>c. ActivityOrder BY DEF IInv
  <1>d. \A v, w \in Writers : pc[v] \in Holding /\ pc[w] \in Holding => v = w
    BY DEF IInv, Ownership
  <1>e. /\ activity.op \in Nat /\ activity.previousOp \in Nat /\ operations \in Nat
        /\ activity.op \in 0..MaxOperations /\ activity.previousOp \in 0..MaxOperations
        /\ activity.running \in BOOLEAN
        /\ activity.result \in {"none", "completed", "failed"}
        /\ activity.previousResult \in {"none", "completed", "failed", "interrupted"}
        /\ crashes \in Nat /\ faults \in Nat
    BY <1>a DEF TypeOK, ActivityRecords
  <1>f. fate \in [Operations -> Fates] /\ pc \in [Writers -> WriterStates]
        /\ op \in [Writers -> 0..MaxOperations]
    BY <1>a DEF TypeOK
  <1>1. ASSUME NEW w \in Writers, Acquire(w) PROVE ActivityOrder'
    <2>1. \A v \in Writers : pc[v] \notin Holding
      BY <1>1 DEF Acquire, IInv, Ownership
    <2>2. /\ operations' = operations + 1 /\ operations + 1 \in Operations
          /\ UNCHANGED <<activity, faults, crashes>>
      BY <1>1, <1>e DEF Acquire, Operations
    <2>3. /\ \A v \in Writers : pc'[v] \in Holding => v = w /\ pc'[v] = "locked" /\ op'[v] = operations + 1
      BY <1>1, <1>f, <2>1 DEF Acquire, Holding
    <2>4. \A o \in Operations : o # operations + 1 => fate'[o] = fate[o]
      BY <1>1, <1>f DEF Acquire
    <2>5. activity.op # operations + 1 /\ activity.previousOp # operations + 1
      BY <1>c, <1>e DEF ActivityOrder, NoActivity
    <2>6. ~(activity.running /\ faults = 0 /\ crashes = 0)
      BY <2>1, <1>c DEF ActivityOrder, Holding, InBlock
    <2>7. \A v \in Writers : pc'[v] \notin InBlock
      BY <2>3 DEF InBlock, Holding
    <2>8. \A v \in Writers : pc'[v] = "locked" => activity.op < op'[v]
      BY <2>3, <1>c, <1>e DEF ActivityOrder, Holding
    <2>9. /\ activity.op # 0 /\ ~activity.running => fate'[activity.op] = activity.result
          /\ activity.previousResult \in {"completed", "failed"} =>
               fate'[activity.previousOp] = activity.previousResult
      BY <2>4, <2>5, <1>c, <1>e DEF ActivityOrder, Operations
    <2> QED BY <2>2, <2>6, <2>7, <2>8, <2>9, <1>c, <1>e DEF ActivityOrder
  <1>2. ASSUME NEW w \in Writers, RefuseBusy(w) \/ LeaveBusy(w) PROVE ActivityOrder'
    BY <1>2, <1>c, <1>f DEF RefuseBusy, LeaveBusy, ActivityOrder, InBlock
  <1>3. ASSUME NEW w \in Writers, PublishStart(w) PROVE ActivityOrder'
    <2>1. /\ pc[w] = "locked" /\ activity' = StartActivity(op[w])
          /\ UNCHANGED <<op, fate, faults, crashes, operations>>
          /\ pc' = [pc EXCEPT ![w] = "working"]
      BY <1>3 DEF PublishStart
    <2>2. op[w] \in Operations /\ op[w] = operations /\ op[w] # 0 /\ activity.op < op[w]
      BY <2>1, <1>b, <1>c DEF Holding, ActivityOrder
    <2>3. \A v \in Writers : pc'[v] \in Holding => v = w /\ pc'[v] = "working"
      BY <2>1, <1>d, <1>f DEF Holding
    <2>4. /\ activity'.op = op[w] /\ activity'.running /\ activity'.previousOp = activity.op
          /\ activity'.previousResult =
               (IF activity.running THEN "interrupted" ELSE activity.result)
      BY <2>1 DEF StartActivity
    <2>5. /\ activity.op = 0 => activity'.previousResult = "none"
          /\ activity'.previousResult \in {"completed", "failed"} =>
                fate'[activity'.previousOp] = activity'.previousResult
      BY <2>1, <2>4, <1>c, <1>e DEF ActivityOrder, NoActivity
    <2>6. w \in Writers /\ pc'[w] \in InBlock /\ op'[w] = activity'.op
      BY <2>1, <2>4, <1>f DEF InBlock
    <2> QED BY <2>1, <2>2, <2>3, <2>4, <2>5, <2>6, <1>e DEF ActivityOrder, Holding, InBlock
  <1>4. ASSUME NEW w \in Writers, StartFails(w) PROVE ActivityOrder'
    <2>1. /\ pc[w] = "locked" /\ UNCHANGED <<op, crashes, operations>>
          /\ activity' = activity \/ activity' = StartActivity(op[w])
          /\ pc' = [pc EXCEPT ![w] = "release"] /\ faults' = faults + 1
          /\ fate' = [fate EXCEPT ![op[w]] = "failed"]
      BY <1>4 DEF StartFails
    <2>2. op[w] \in Operations /\ op[w] = operations /\ op[w] # 0 /\ activity.op < op[w]
      BY <2>1, <1>b, <1>c DEF Holding, ActivityOrder
    <2>3. \A v \in Writers : pc'[v] \in Holding => v = w /\ pc'[v] = "release"
      BY <2>1, <1>d, <1>f DEF Holding
    <2>4. \A o \in Operations : o # op[w] => fate'[o] = fate[o]
      BY <2>1, <1>f
    <2>5. activity.previousOp # op[w] /\ activity.op # op[w]
      BY <2>2, <1>c, <1>e DEF ActivityOrder, NoActivity
    <2>6. CASE activity' = activity
      <3>1. /\ activity.op # 0 /\ ~activity.running => fate'[activity.op] = activity.result
            /\ activity.previousResult \in {"completed", "failed"} =>
               fate'[activity.previousOp] = activity.previousResult
        BY <2>4, <2>5, <1>c, <1>e DEF ActivityOrder, Operations
      <3> QED BY <2>1, <2>2, <2>3, <2>6, <3>1, <1>c, <1>e DEF ActivityOrder, Holding, InBlock
    <2>7. CASE activity' = StartActivity(op[w])
      <3>1. /\ activity'.op = op[w] /\ activity'.running /\ activity'.previousOp = activity.op
            /\ activity'.previousResult =
                 (IF activity.running THEN "interrupted" ELSE activity.result)
        BY <2>7 DEF StartActivity
      <3>2. activity.op # 0 /\ ~activity.running => fate'[activity.op] = activity.result
        BY <2>4, <2>5, <1>c, <1>e DEF ActivityOrder, Operations
      <3>3. /\ activity.op = 0 => activity'.previousResult = "none"
            /\ activity'.previousResult \in {"completed", "failed"} =>
                  fate'[activity'.previousOp] = activity'.previousResult
        BY <3>1, <3>2, <1>c, <1>e DEF ActivityOrder, NoActivity
      <3> QED BY <2>1, <2>2, <2>3, <3>1, <3>3, <1>e DEF ActivityOrder, Holding, InBlock
    <2> QED BY <2>1, <2>6, <2>7
  <1>5. ASSUME NEW w \in Writers, LeaveBlock(w) \/ BeginInvocation(w) \/ FinishRun(w)
        PROVE ActivityOrder'
    <2>1. /\ pc[w] \in InBlock /\ pc'[w] \in InBlock
          /\ UNCHANGED <<op, crashes, operations, activity>>
          /\ \A v \in Writers \ {w} : pc'[v] = pc[v]
          /\ faults' \in {faults, faults + 1}
          /\ \A o \in Operations : o # op[w] => fate'[o] = fate[o]
      BY <1>5, <1>f DEF LeaveBlock, BeginInvocation, FinishRun, InBlock
    <2>2. /\ op[w] \in Operations /\ op[w] = operations /\ op[w] # 0
          /\ activity.op = op[w] /\ activity.running
      BY <2>1, <1>b, <1>c DEF Holding, ActivityOrder
    <2>3. activity.previousOp # op[w]
      BY <2>2, <1>c, <1>e DEF ActivityOrder
    <2>4. activity.previousResult \in {"completed", "failed"} =>
               fate'[activity.previousOp] = activity.previousResult
      BY <2>1, <2>3, <1>c, <1>e DEF ActivityOrder, Operations
    <2>5. \A v \in Writers : pc'[v] # "locked"
      BY <2>1, <1>d DEF Holding, InBlock
    <2> QED BY <2>1, <2>2, <2>4, <2>5, <1>c, <1>e DEF ActivityOrder
  <1>6. ASSUME NEW w \in Writers, PublishEnd(w) \/ EndFails(w) PROVE ActivityOrder'
    <2>1. /\ pc[w] = "ending" /\ UNCHANGED <<op, crashes, operations, fate>>
          /\ pc' = [pc EXCEPT ![w] = "release"]
          /\ \/ activity' = EndActivity(op[w]) /\ faults' \in {faults, faults + 1}
             \/ activity' = activity /\ faults' = faults + 1
      BY <1>6 DEF PublishEnd, EndFails
    <2>2. /\ op[w] \in Operations /\ op[w] = operations /\ op[w] # 0
          /\ activity.op = op[w] /\ activity.running
      BY <2>1, <1>b, <1>c DEF Holding, InBlock, ActivityOrder
    <2>3. \A v \in Writers : pc'[v] \in Holding => v = w /\ pc'[v] = "release"
      BY <2>1, <1>d, <1>f DEF Holding, InBlock
    <2>4. CASE activity' = activity
      BY <2>1, <2>2, <2>3, <2>4, <1>c, <1>e DEF ActivityOrder, Holding, InBlock, EndActivity
    <2>5. CASE activity' = EndActivity(op[w])
      <3>1. /\ activity'.op = op[w] /\ ~activity'.running /\ activity'.result = fate[op[w]]
            /\ activity'.previousOp = activity.previousOp
            /\ activity'.previousResult = activity.previousResult
        BY <2>5 DEF EndActivity
      <3> QED BY <2>1, <2>2, <2>3, <3>1, <1>c, <1>e DEF ActivityOrder, Holding, InBlock
    <2> QED BY <2>1, <2>4, <2>5
  <1>7. ASSUME NEW w \in Writers, Release(w) PROVE ActivityOrder'
    <2>1. /\ pc[w] = "release" /\ UNCHANGED <<fate, crashes, faults, operations, activity>>
          /\ pc'[w] = "idle"
          /\ \A v \in Writers \ {w} : pc'[v] = pc[v] /\ op'[v] = op[v]
      BY <1>7, <1>f DEF Release
    <2> QED BY <2>1, <1>c, <1>e DEF ActivityOrder, InBlock
  <1>8. ASSUME NEW w \in Writers, Crash(w) PROVE ActivityOrder'
    <2>1. pc[w] \in Holding
      BY <1>8, <1>f DEF Crash, Holding, InBlock, WriterStates
    <2>2. /\ UNCHANGED <<faults, operations, activity>> /\ crashes' = crashes + 1
          /\ pc'[w] = "idle"
          /\ \A v \in Writers \ {w} : pc'[v] = pc[v] /\ op'[v] = op[v]
          /\ \A o \in Operations :
               fate'[o] = fate[o] \/ (o = op[w] /\ fate[o] = "started")
      BY <1>8, <1>f DEF Crash
    <2>3. \A v \in Writers : pc'[v] \notin Holding
      BY <2>1, <2>2, <1>d DEF Holding, InBlock
    <2>4. /\ activity.op # 0 /\ ~activity.running => fate'[activity.op] = activity.result
          /\ activity.previousResult \in {"completed", "failed"} =>
               fate'[activity.previousOp] = activity.previousResult
      BY <2>2, <1>c, <1>e DEF ActivityOrder, Operations, NoActivity
    <2> QED BY <2>2, <2>3, <2>4, <1>c, <1>e DEF ActivityOrder, Holding, InBlock
  <1>9. ASSUME NEW r \in Readers, ReaderStep(r) PROVE ActivityOrder'
    BY <1>9, <1>c
       DEF ActivityOrder, ReaderStep, ReadSummary, TakeProbe, ProbeBusy, ReleaseProbe, Leave
  <1>10. CASE UNCHANGED vars
    BY <1>10, <1>c DEF vars, ActivityOrder
  <1> QED
    BY <1>1, <1>2, <1>3, <1>4, <1>5, <1>6, <1>7, <1>8, <1>9, <1>10
       DEF Next, WriterStep, HolderStep

LEMMA RowStep == IInv /\ [Next]_vars => (newest <= operations)' /\ RunningRowIsNewest'
  <1> SUFFICES ASSUME IInv, [Next]_vars
               PROVE (newest <= operations)' /\ RunningRowIsNewest'
    OBVIOUS
  <1> USE ProcessAssumption, BoundAssumption
  <1> USE DEF Goes, Fault, durable, writerVars, readerVars, counters, RunningRowIsNewest
  <1>a. /\ fate \in [Operations -> Fates] /\ pc \in [Writers -> WriterStates]
        /\ op \in [Writers -> 0..MaxOperations] /\ rows \in [Operations -> RowResults]
        /\ newest \in Nat /\ operations \in Nat /\ faults \in Nat
    BY DEF IInv, TypeOK
  <1>b. \A w \in Writers : pc[w] \in Holding =>
           op[w] \in Operations /\ op[w] = operations
    <2>1. Numbering /\ operations \in 0..MaxOperations BY DEF IInv, TypeOK
    <2> QED BY <2>1 DEF Numbering, Operations
  <1>c. newest <= operations /\ RunningRowIsNewest BY DEF IInv
  <1>d. \A v, w \in Writers : pc[v] \in Holding /\ pc[w] \in Holding => v = w
    BY DEF IInv, Ownership
  <1>e. \A w \in Writers : pc[w] \in {"locked", "working", "invoked"} => fate[op[w]] = "started"
    BY DEF IInv, FateOfOwner
  <1>1. ASSUME NEW w \in Writers, Acquire(w)
        PROVE (newest <= operations)' /\ RunningRowIsNewest'
    <2>1. /\ UNCHANGED <<rows, newest, faults>> /\ operations' = operations + 1
          /\ \A o \in Operations : o # operations + 1 => fate'[o] = fate[o]
          /\ \A v \in Writers \ {w} : pc'[v] = pc[v] /\ op'[v] = op[v]
          /\ pc[w] = "idle"
      BY <1>1, <1>a DEF Acquire
    <2>2. newest # operations + 1 BY <1>a, <1>c
    <2> QED BY <2>1, <2>2, <1>a, <1>c
  <1>2. ASSUME NEW w \in Writers,
               RefuseBusy(w) \/ LeaveBusy(w) \/ PublishStart(w) \/ PublishEnd(w)
                 \/ EndFails(w) \/ Release(w)
        PROVE (newest <= operations)' /\ RunningRowIsNewest'
    <2>1. /\ UNCHANGED <<rows, newest, fate, operations>> /\ faults' \in {faults, faults + 1}
          /\ \A v \in Writers \ {w} : pc'[v] = pc[v] /\ op'[v] = op[v]
          /\ pc[w] # "invoked"
      BY <1>2, <1>a DEF RefuseBusy, LeaveBusy, PublishStart, PublishEnd, EndFails, Release
    <2> QED BY <2>1, <1>a, <1>c
  <1>3. ASSUME NEW w \in Writers, StartFails(w) \/ LeaveBlock(w)
        PROVE (newest <= operations)' /\ RunningRowIsNewest'
    <2>1. /\ UNCHANGED <<rows, newest, op, operations>> /\ faults' \in {faults, faults + 1}
          /\ \A v \in Writers \ {w} : pc'[v] = pc[v]
          /\ pc[w] \in {"locked", "working"}
          /\ \A o \in Operations : o # op[w] => fate'[o] = fate[o]
      BY <1>3, <1>a DEF StartFails, LeaveBlock
    <2>2. fate[op[w]] = "started" BY <2>1, <1>e
    <2> QED BY <2>1, <2>2, <1>a, <1>c
  <1>4. ASSUME NEW w \in Writers, BeginInvocation(w)
        PROVE (newest <= operations)' /\ RunningRowIsNewest'
    <2>1. /\ newest' = op[w] /\ op' = op /\ operations' = operations
          /\ pc'[w] = "invoked" /\ pc[w] = "working"
          /\ \A o \in Operations : o # op[w] => rows'[o] # "running"
      BY <1>4, <1>a DEF BeginInvocation
    <2>2. op[w] \in Operations /\ op[w] = operations
      BY <2>1, <1>b DEF Holding, InBlock
    <2> QED BY <2>1, <2>2, <1>a
  <1>5. ASSUME NEW w \in Writers, FinishRun(w)
        PROVE (newest <= operations)' /\ RunningRowIsNewest'
    <2>1. /\ UNCHANGED <<newest, op, operations>>
          /\ \/ faults' = faults /\ rows'[op[w]] # "running"
             \/ faults' = faults + 1
          /\ \A v \in Writers \ {w} : pc'[v] = pc[v]
          /\ pc[w] = "invoked"
          /\ \A o \in Operations : o # op[w] => fate'[o] = fate[o] /\ rows'[o] = rows[o]
      <3>1. op[w] \in Operations BY <1>5, <1>b DEF FinishRun, Holding, InBlock
      <3> QED BY <3>1, <1>5, <1>a DEF FinishRun
    <2>2. ASSUME NEW o \in Operations, rows'[o] = "running"
          PROVE o = newest /\ (fate'[o] = "crashed" \/ faults' > 0)
      <3>1. \A v \in Writers : pc[v] = "invoked" => v = w
        BY <2>1, <1>d DEF Holding, InBlock
      <3>2. CASE o = op[w]
        <4>1. rows[o] = "running" => o = newest BY <1>c
        <4>2. faults' = faults + 1 /\ (rows' = rows \/ rows'[o] = "target_reached")
          BY <1>5, <2>1, <2>2, <3>2, <1>a DEF FinishRun
        <4> QED BY <4>1, <4>2, <2>2, <1>a
      <3>3. CASE o # op[w]
        BY <2>1, <2>2, <3>1, <3>3, <1>a, <1>c
      <3> QED BY <3>2, <3>3
    <2> QED BY <2>1, <2>2, <1>a, <1>c
  <1>6. ASSUME NEW w \in Writers, Crash(w)
        PROVE (newest <= operations)' /\ RunningRowIsNewest'
    <2>1. pc[w] \in Holding
      BY <1>6, <1>a DEF Crash, Holding, InBlock, WriterStates
    <2>2. op[w] \in Operations BY <2>1, <1>b
    <2>3. /\ UNCHANGED <<rows, newest, operations, faults>>
          /\ \A v \in Writers \ {w} : pc'[v] = pc[v] /\ op'[v] = op[v]
          /\ \A o \in Operations : fate[o] = "crashed" => fate'[o] = "crashed"
          /\ fate[op[w]] = "started" => fate'[op[w]] = "crashed"
      BY <1>6, <2>2, <1>a DEF Crash
    <2> QED BY <2>3, <1>a, <1>c, <1>e
  <1>7. ASSUME NEW r \in Readers, ReaderStep(r)
        PROVE (newest <= operations)' /\ RunningRowIsNewest'
    BY <1>7, <1>c
       DEF ReaderStep, ReadSummary, TakeProbe, ProbeBusy, ReleaseProbe, Leave
  <1>8. CASE UNCHANGED vars
    BY <1>8, <1>c DEF vars
  <1> QED
    BY <1>1, <1>2, <1>3, <1>4, <1>5, <1>6, <1>7, <1>8 DEF Next, WriterStep, HolderStep

LEMMA Invariance == Spec => []IInv
  <1>1. IInv /\ [Next]_vars => IInv'
    BY TypeStep, OwnershipStep, FateStep, ActivityStep, RowStep DEF IInv
  <1> QED BY InitIInv, <1>1, PTL DEF Spec

\* Every variable of locking.py, database.py's rows and the status command
\* keeps its type.
THEOREM TypeCorrect == Spec => []TypeOK
  <1>1. IInv => TypeOK BY DEF IInv
  <1> QED BY Invariance, <1>1, PTL

\* The operation inside an AnalysisOperationLock block owns the lock alone and
\* is the one that activity.json names as running.
THEOREM ActivityIsHonest == Spec => []ActivityNamesOwner
  <1>1. IInv => ActivityNamesOwner
    BY DEF IInv, ActivityNamesOwner, ActivityOrder, Ownership, Holding
  <1> QED BY Invariance, <1>1, PTL

\* What activity.json says of an operation that is over, its own or the
\* previous one, is how that operation ended.
THEOREM PreviousIsHonest == Spec => []PreviousIsTrue
  <1>1. ASSUME IInv PROVE PreviousIsTrue
    <2>1. /\ activity.op \in Nat /\ activity.previousOp \in Nat
          /\ activity.op <= operations /\ operations \in Nat
      BY <1>1 DEF IInv, TypeOK, ActivityRecords, ActivityOrder
    <2>2. activity.previousResult = "interrupted" =>
             activity.previousOp # 0 /\ activity.previousOp < operations
      BY <1>1, <2>1 DEF IInv, ActivityOrder, NoActivity
    <2>3. \A w \in Writers : op[w] = 0 \/ op[w] = operations
      BY <1>1 DEF IInv, Numbering
    <2> QED BY <1>1, <2>1, <2>2, <2>3 DEF IInv, ActivityOrder, PreviousIsTrue
  <1> QED BY Invariance, <1>1, PTL

\* A row that says running is the newest and belongs to a live run, to one that
\* died, or to one that could not be finalized.
THEOREM RunningRowIsHonest == Spec => []RunningRowIsNewest
  <1>1. IInv => RunningRowIsNewest BY DEF IInv
  <1> QED BY Invariance, <1>1, PTL
=============================================================================
