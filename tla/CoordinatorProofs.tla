------------------------- MODULE CoordinatorProofs -------------------------
(* Theorems about Coordinator, for any set of workers, any capacities the   *)
(* code accepts, any input sequence and any faults and interrupts.          *)
EXTENDS Coordinator, FiniteSetTheorems, TLAPS

\* Nothing is a well-typed value of hand.
LEMMA NothingType == Nothing \in Result
  BY DEF Nothing, Result

\* The initial state is well typed.
LEMMA TypeInit == Init => TypeOK
<1> SUFFICES ASSUME Init PROVE TypeOK
  OBVIOUS
<1>1. workQueue \in Seq(Nat) /\ resultQueue \in Seq(Result)
  BY DEF Init
<1>2. Len(workQueue) <= WorkCapacity /\ Len(resultQueue) <= OutcomeCapacity
  BY CapacityAssumption DEF Init
<1> QED
  BY NothingType, <1>1, <1>2, CapacityAssumption, InputAssumption, FS_EmptySet
  DEF Init, TypeOK, WorkerStates, CoordinatorStates, Failures

\* Every step of the scheduler, its workers and the interrupts keeps the types.
LEMMA TypeStep == TypeOK /\ [Next]_vars => TypeOK'
<1> SUFFICES ASSUME TypeOK, [Next]_vars PROVE TypeOK'
  OBVIOUS
<1> USE DEF TypeOK, WorkerStates, CoordinatorStates, Failures,
            workerVars, queueVars, inputVars, outputVars
<1>1. CASE CheckFirst
  BY <1>1 DEF CheckFirst
<1>2. CASE \E w \in Workers : StartWorker(w)
  BY <1>2 DEF StartWorker
<1>3. CASE StartFails
  BY <1>3 DEF StartFails
<1>4. CASE AllStarted
  BY <1>4 DEF AllStarted
<1>5. CASE PollErrors
  BY <1>5 DEF PollErrors, Raise
<1>6. CASE InputEnds
  BY <1>6 DEF InputEnds
<1>7. CASE OutOfOrder
  BY <1>7 DEF OutOfOrder, Raise
<1>8. CASE Submit
  <2>1. Input[submitted + 1] \in Nat
    BY <1>8, InputAssumption DEF Submit
  <2> QED
    BY SMTT(30), <1>8, <2>1, CapacityAssumption DEF Submit, Filling
<1>9. CASE StopFilling
  BY <1>9 DEF StopFilling
<1>10. CASE Finish
  BY <1>10 DEF Finish
<1>11. CASE TakeResult
  <2>1. /\ hand' \in Result /\ resultQueue' \in Seq(Result)
        /\ Len(resultQueue') <= OutcomeCapacity
    BY <1>11, CapacityAssumption DEF TakeResult
  <2> QED
    BY <1>11, <2>1 DEF TakeResult
<1>12. CASE AwaitTimeout
  BY <1>12 DEF AwaitTimeout
<1>13. CASE HandleResult
  <2>1. pending' \subseteq Nat /\ IsFiniteSet(pending')
    <3>1. hand.seq \in Nat /\ IsFiniteSet(pending \cup {hand.seq})
      BY FS_AddElement DEF Result
    <3> QED
      BY <1>13, <3>1 DEF HandleResult
  <2> QED
    BY NothingType, <1>13, <2>1 DEF HandleResult, Raise
<1>14. CASE BeginPublication
  BY <1>14, FS_RemoveElement DEF BeginPublication, Result
<1>15. CASE NothingToPublish
  BY <1>15 DEF NothingToPublish
<1>16. CASE PublishPair
  BY <1>16 DEF PublishPair, Result
<1>17. CASE AcknowledgePair
  <2>1. acknowledged' \subseteq Nat
    BY <1>17 DEF AcknowledgePair, Result
  <2>2. hand' \in Result /\ slots' \in Nat /\ nextPublication' \in Nat
    BY NothingType, <1>17 DEF AcknowledgePair
  <2> QED
    BY <1>17, <2>1, <2>2 DEF AcknowledgePair
<1>18. CASE PublicationFails
  BY NothingType, <1>18 DEF PublicationFails, Raise
<1>19. CASE HandleFailure
  BY <1>19 DEF HandleFailure
<1>20. CASE Cleanup
  BY <1>20, FS_EmptySet, FS_CardinalityType DEF Cleanup
<1>21. CASE DrainResult
  BY <1>21, CapacityAssumption DEF DrainResult
<1>22. CASE EndRun
  BY <1>22 DEF EndRun
<1>23. CASE Interrupt
  <2>1. CASE InterruptLoop
    BY NothingType, <1>23, <2>1 DEF Interrupt, InterruptLoop, Raise
  <2>2. CASE InterruptHandler
    BY <1>23, <2>2 DEF Interrupt, InterruptHandler
  <2> QED
    BY <1>23, <2>1, <2>2 DEF Interrupt
<1>24. ASSUME NEW w \in Workers, WorkerStep(w) PROVE TypeOK'
  <2> USE <1>24 DEF Move
  <2> UNCHANGED <<inputVars, outputVars, pc, hand, failure, interrupts, lost>>
    BY DEF WorkerStep
  <2>1. CASE OpenWorker(w) BY SMTT(30), <2>1 DEF OpenWorker
  <2>2. CASE AcquireSlot(w) BY <2>2 DEF AcquireSlot
  <2>3. CASE LeaveWithoutSlot(w) BY <2>3 DEF LeaveWithoutSlot
  <2>4. CASE TakeItem(w) BY SMTT(30), <2>4, CapacityAssumption DEF TakeItem
  <2>5. CASE LeaveWithoutItem(w) BY <2>5 DEF LeaveWithoutItem
  <2>6. CASE ExecutePair(w) BY <2>6 DEF ExecutePair
  <2>7. CASE PutResult(w) BY <2>7, CapacityAssumption DEF PutResult, Result
  <2>8. CASE CloseWorker(w) BY SMTT(30), <2>8 DEF CloseWorker
  <2>9. CASE SignalFailure(w) BY <2>9 DEF SignalFailure
  <2>10. CASE ReportFailure(w) BY <2>10 DEF ReportFailure
  <2> QED
    BY <2>1, <2>2, <2>3, <2>4, <2>5, <2>6, <2>7, <2>8, <2>9, <2>10
    DEF WorkerStep
<1>25. CASE UNCHANGED vars
  BY <1>25 DEF vars
<1> QED
  BY <1>1, <1>2, <1>3, <1>4, <1>5, <1>6, <1>7, <1>8, <1>9, <1>10, <1>11,
     <1>12, <1>13, <1>14, <1>15, <1>16, <1>17, <1>18, <1>19, <1>20, <1>21,
     <1>22, <1>23, <1>24, <1>25
  DEF Next, CoordinatorStep, Terminated

\* Type correctness of the scheduler: every variable keeps its type and the
\* two queues keep their bounds (put_nowait on the work queue, put on the
\* result queue).
THEOREM TypeCorrect == Spec => []TypeOK
  BY TypeInit, TypeStep, PTL DEF Spec

-----------------------------------------------------------------------------
(* Which steps touch what.  A worker's step leaves the coordinator alone.   *)

LEMMA WorkerFrame ==
  ASSUME NEW w \in Workers, WorkerStep(w)
  PROVE  UNCHANGED <<exhausted, submitted, completed, pending, nextPublication,
                     published, acknowledged, pc, hand, failure, interrupts,
                     lost>>
  BY DEF WorkerStep, inputVars, outputVars

\* Only a submission and a worker's get change the work queue or the counter
\* of submissions.
LEMMA QueueFrame ==
  ASSUME [Next]_vars
  PROVE  \/ Submit
         \/ \E w \in Workers : TakeItem(w) /\ WorkerStep(w)
         \/ UNCHANGED <<workQueue, submitted>>
<1> USE DEF workerVars, queueVars, inputVars, outputVars
<1>1. CASE CoordinatorStep
  BY <1>1
  DEF CoordinatorStep, CheckFirst, StartWorker, StartFails, AllStarted,
      PollErrors, InputEnds, OutOfOrder, StopFilling, Finish, TakeResult,
      AwaitTimeout, HandleResult, BeginPublication, NothingToPublish,
      PublishPair, AcknowledgePair, PublicationFails, HandleFailure, Cleanup,
      DrainResult, EndRun
<1>2. CASE Interrupt
  BY <1>2 DEF Interrupt
<1>3. ASSUME NEW w \in Workers, WorkerStep(w)
      PROVE  TakeItem(w) \/ UNCHANGED <<workQueue, submitted>>
  BY <1>3
  DEF WorkerStep, OpenWorker, AcquireSlot, LeaveWithoutSlot, LeaveWithoutItem,
      ExecutePair, PutResult, CloseWorker, SignalFailure, ReportFailure
<1> QED
  BY <1>1, <1>2, <1>3 DEF Next, Terminated, vars

\* The work queue always holds a contiguous run of sequences in order.
LEMMA QueueStep ==
  ASSUME TypeOK, QueueContiguous, [Next]_vars
  PROVE  QueueContiguous'
<1> USE DEF QueueContiguous, Frontier, Expected
<1>1. CASE Submit
  <2>1. /\ workQueue' = Append(workQueue, First + submitted)
        /\ submitted' = submitted + 1
    BY <1>1 DEF Submit
  <2>2. /\ workQueue \in Seq(Nat) /\ submitted \in Nat /\ First \in Nat
        /\ Len(workQueue') = Len(workQueue) + 1
    BY <2>1, InputAssumption DEF TypeOK
  <2>3. ASSUME NEW i \in 1..Len(workQueue')
        PROVE  workQueue'[i] = First + submitted' - Len(workQueue') + i - 1
    <3>1. CASE i = Len(workQueue')
      BY <2>1, <2>2, <3>1
    <3>2. CASE i # Len(workQueue')
      BY <2>1, <2>2, <3>2
    <3> QED
      BY <3>1, <3>2
  <2> QED
    BY <2>1, <2>2, <2>3
<1>2. ASSUME NEW w \in Workers, TakeItem(w), WorkerStep(w)
      PROVE  QueueContiguous'
  <2>1. /\ workQueue \in Seq(Nat) /\ submitted \in Nat /\ First \in Nat
        /\ workQueue # <<>> /\ workQueue' = Tail(workQueue)
        /\ submitted' = submitted
    BY <1>2, WorkerFrame, InputAssumption DEF TypeOK, TakeItem
  <2>2. /\ Len(workQueue') = Len(workQueue) - 1 /\ Len(workQueue) \in Nat
        /\ \A i \in 1..Len(workQueue') : workQueue'[i] = workQueue[i + 1]
    BY <2>1
  <2> QED
    BY <2>1, <2>2
<1>3. CASE UNCHANGED <<workQueue, submitted>>
  BY <1>3
<1> QED
  BY <1>1, <1>2, <1>3, QueueFrame

\* Nothing that distinctness speaks of moves, or it only moves out of hand.
LEMMA QuietDistinct ==
  ASSUME TakenBelowFrontier, TakenDistinct, HandDistinct,
         UNCHANGED <<resultQueue, pending, hand, item>>,
         Frontier' = Frontier, BusyWorkers' = BusyWorkers,
         HandHoldsSlot' => HandHoldsSlot
  PROVE  TakenBelowFrontier' /\ TakenDistinct' /\ HandDistinct'
  BY DEF TakenBelowFrontier, TakenDistinct, HandDistinct

\* A worker's step that neither takes an item nor puts a result.
LEMMA QuietWorker ==
  ASSUME TypeOK, NEW w \in Workers, WorkerStep(w), ~TakeItem(w), ~PutResult(w)
  PROVE  /\ UNCHANGED <<resultQueue, pending, hand, item>>
         /\ Frontier' = Frontier /\ BusyWorkers' = BusyWorkers
         /\ HandHoldsSlot' <=> HandHoldsSlot
<1> USE DEF TypeOK, Frontier, Expected, BusyWorkers, HandHoldsSlot, queueVars,
            Move
<1>0. /\ UNCHANGED <<submitted, pending, hand, pc>>
      /\ HandHoldsSlot' <=> HandHoldsSlot
  BY WorkerFrame
<1>1. CASE OpenWorker(w)
  BY <1>0, <1>1 DEF OpenWorker
<1>2. CASE AcquireSlot(w)
  BY <1>0, <1>2 DEF AcquireSlot
<1>3. CASE LeaveWithoutSlot(w)
  BY <1>0, <1>3 DEF LeaveWithoutSlot
<1>4. CASE LeaveWithoutItem(w)
  BY <1>0, <1>4 DEF LeaveWithoutItem
<1>5. CASE ExecutePair(w)
  BY <1>0, <1>5 DEF ExecutePair
<1>6. CASE CloseWorker(w)
  BY <1>0, <1>6 DEF CloseWorker
<1>7. CASE SignalFailure(w)
  BY <1>0, <1>7 DEF SignalFailure
<1>8. CASE ReportFailure(w)
  BY <1>0, <1>8 DEF ReportFailure
<1> QED
  BY <1>1, <1>2, <1>3, <1>4, <1>5, <1>6, <1>7, <1>8 DEF WorkerStep

\* A coordinator step that touches neither results nor outcomes.
CoordinatorQuiet ==
  \/ CheckFirst \/ (\E w \in Workers : StartWorker(w)) \/ StartFails
  \/ AllStarted \/ PollErrors \/ InputEnds \/ OutOfOrder \/ Submit
  \/ StopFilling \/ Finish \/ AwaitTimeout \/ NothingToPublish \/ HandleFailure
  \/ EndRun \/ (Interrupt /\ InterruptHandler)

LEMMA QuietCoordinator ==
  ASSUME TypeOK, CoordinatorQuiet
  PROVE  /\ UNCHANGED <<resultQueue, slots, pending, hand, item, lost,
                        nextPublication, published, acknowledged>>
         /\ Frontier' = Frontier /\ BusyWorkers' = BusyWorkers
         /\ SlotHolders' = SlotHolders
         /\ ~HandHoldsSlot /\ ~HandHoldsSlot'
<1> USE DEF TypeOK, Frontier, Expected, BusyWorkers, HandHoldsSlot, queueVars,
            workerVars, inputVars, outputVars, SlotHolders, Raise
<1>1. CASE CheckFirst
  BY <1>1 DEF CheckFirst
<1>2. CASE \E w \in Workers : StartWorker(w)
  BY <1>2 DEF StartWorker
<1>3. CASE StartFails \/ AllStarted \/ Finish \/ AwaitTimeout
  BY <1>3 DEF StartFails, AllStarted, Finish, AwaitTimeout
<1>4. CASE PollErrors \/ InputEnds \/ OutOfOrder \/ StopFilling
  BY <1>4 DEF PollErrors, InputEnds, OutOfOrder, StopFilling, Filling
<1>5. CASE Submit
  <2>1. /\ Len(workQueue') = Len(workQueue) + 1 /\ submitted' = submitted + 1
        /\ Len(workQueue) \in Nat /\ First \in Nat
    BY <1>5, InputAssumption DEF Submit
  <2> QED
    BY <1>5, <2>1 DEF Submit, Filling
<1>6. CASE NothingToPublish \/ HandleFailure \/ EndRun
  BY <1>6 DEF NothingToPublish, HandleFailure, EndRun
<1>7. CASE Interrupt /\ InterruptHandler
  BY <1>7 DEF Interrupt, InterruptHandler
<1> QED
  BY <1>1, <1>2, <1>3, <1>4, <1>5, <1>6, <1>7 DEF CoordinatorQuiet

\* A pair that left the work queue stays below the frontier and in one place.
LEMMA DistinctStep ==
  ASSUME TypeOK, QueueContiguous, TakenBelowFrontier, TakenDistinct,
         HandDistinct, [Next]_vars
  PROVE  TakenBelowFrontier' /\ TakenDistinct' /\ HandDistinct'
<1> USE DEF queueVars, workerVars, inputVars, outputVars
<1> DEFINE Goal == TakenBelowFrontier' /\ TakenDistinct' /\ HandDistinct'
<1>1. CASE CoordinatorQuiet
  BY <1>1, QuietCoordinator, QuietDistinct
<1>2. CASE TakeResult
  <2>1. /\ resultQueue \in Seq(Result) /\ resultQueue # <<>>
        /\ hand' = resultQueue[1] /\ resultQueue' = Tail(resultQueue)
        /\ ~HandHoldsSlot /\ HandHoldsSlot'
        /\ UNCHANGED <<workQueue, submitted, item, wpc, pending>>
    BY <1>2 DEF TakeResult, TypeOK, HandHoldsSlot
  <2>2. /\ Len(resultQueue) \in Nat /\ Len(resultQueue) >= 1
        /\ Len(resultQueue') = Len(resultQueue) - 1
        /\ \A i \in 1..Len(resultQueue') : /\ resultQueue'[i] = resultQueue[i + 1]
                                           /\ i + 1 \in 1..Len(resultQueue)
    BY <2>1
  <2>3. Frontier' = Frontier /\ BusyWorkers' = BusyWorkers
    BY <2>1 DEF Frontier, Expected, BusyWorkers
  <2>4. TakenBelowFrontier'
    BY <2>1, <2>2, <2>3 DEF TakenBelowFrontier
  <2>5. TakenDistinct'
    BY <2>1, <2>2, <2>3 DEF TakenDistinct
  <2>6. HandDistinct'
    BY <2>1, <2>2, <2>3 DEF TakenDistinct, HandDistinct
  <2> QED
    BY <2>4, <2>5, <2>6
<1>3. CASE HandleResult
  <2>1. /\ UNCHANGED <<workQueue, submitted, item, wpc, resultQueue>>
        /\ HandHoldsSlot /\ ~HandHoldsSlot'
        /\ pending' = pending \/ pending' = pending \cup {hand.seq}
    BY <1>3 DEF HandleResult, HandHoldsSlot, Raise
  <2>2. Frontier' = Frontier /\ BusyWorkers' = BusyWorkers
    BY <2>1 DEF Frontier, Expected, BusyWorkers
  <2> QED
    BY <2>1, <2>2 DEF TakenBelowFrontier, TakenDistinct, HandDistinct
<1>4. CASE BeginPublication
  <2>1. /\ UNCHANGED <<workQueue, submitted, item, wpc, resultQueue>>
        /\ ~HandHoldsSlot
        /\ hand'.seq \in pending /\ pending' = pending \ {hand'.seq}
    BY <1>4 DEF BeginPublication, HandHoldsSlot
  <2>2. Frontier' = Frontier /\ BusyWorkers' = BusyWorkers
    BY <2>1 DEF Frontier, Expected, BusyWorkers
  <2> QED
    BY <2>1, <2>2 DEF TakenBelowFrontier, TakenDistinct, HandDistinct
<1>5. CASE PublishPair
  <2>1. /\ UNCHANGED <<workQueue, submitted, item, wpc, resultQueue, pending, hand>>
        /\ HandHoldsSlot
    BY <1>5 DEF PublishPair, HandHoldsSlot
  <2>2. Frontier' = Frontier /\ BusyWorkers' = BusyWorkers
    BY <2>1 DEF Frontier, Expected, BusyWorkers
  <2> QED
    BY <2>1, <2>2, QuietDistinct
<1>6. CASE \/ AcknowledgePair \/ PublicationFails \/ Cleanup \/ DrainResult
           \/ (Interrupt /\ InterruptLoop)
  <2>1. /\ UNCHANGED <<workQueue, submitted, item, wpc>>
        /\ ~HandHoldsSlot'
        /\ pending' \subseteq pending
        /\ resultQueue' = resultQueue \/ /\ resultQueue # <<>>
                                         /\ resultQueue' = Tail(resultQueue)
    BY <1>6 DEF AcknowledgePair, PublicationFails, Cleanup, DrainResult,
                Interrupt, InterruptLoop, HandHoldsSlot, Raise
  <2>2. Frontier' = Frontier /\ BusyWorkers' = BusyWorkers
    BY <2>1 DEF Frontier, Expected, BusyWorkers
  <2>3. CASE resultQueue' = resultQueue
    BY <2>1, <2>2, <2>3 DEF TakenBelowFrontier, TakenDistinct, HandDistinct
  <2>4. CASE resultQueue # <<>> /\ resultQueue' = Tail(resultQueue)
    <3>1. /\ Len(resultQueue) \in Nat
          /\ Len(resultQueue') = Len(resultQueue) - 1
          /\ \A i \in 1..Len(resultQueue') :
                /\ resultQueue'[i] = resultQueue[i + 1]
                /\ i + 1 \in 1..Len(resultQueue)
      BY <2>4 DEF TypeOK
    <3>2. TakenBelowFrontier' /\ HandDistinct'
      BY <2>1, <2>2, <3>1 DEF TakenBelowFrontier, HandDistinct
    <3>3. /\ \A v, w \in BusyWorkers' : v # w => item'[v] # item'[w]
          /\ \A w \in BusyWorkers' : item'[w] \notin pending'
      BY <2>1, <2>2 DEF TakenDistinct
    <3>4. ASSUME NEW i \in 1..Len(resultQueue')
          PROVE  /\ \A w \in BusyWorkers' : item'[w] # resultQueue'[i].seq
                 /\ resultQueue'[i].seq \notin pending'
      <4>1. resultQueue'[i] = resultQueue[i + 1] /\ i + 1 \in 1..Len(resultQueue)
        BY <3>1
      <4>2. /\ \A w \in BusyWorkers : item[w] # resultQueue[i + 1].seq
            /\ resultQueue[i + 1].seq \notin pending
        BY <4>1 DEF TakenDistinct
      <4> QED
        BY <2>1, <2>2, <4>1, <4>2
    <3>5. \A i, j \in 1..Len(resultQueue') :
             i # j => resultQueue'[i].seq # resultQueue'[j].seq
      BY <3>1 DEF TakenDistinct
    <3> QED
      BY <3>2, <3>3, <3>4, <3>5 DEF TakenDistinct
  <2> QED
    BY <2>1, <2>3, <2>4
<1>7. ASSUME NEW w \in Workers, WorkerStep(w), TakeItem(w)
      PROVE  Goal
  <2>1. /\ workQueue \in Seq(Nat) /\ workQueue # <<>>
        /\ workQueue' = Tail(workQueue)
        /\ item' = [item EXCEPT ![w] = workQueue[1]]
        /\ item \in [Workers -> Nat]
        /\ UNCHANGED <<submitted, resultQueue, pending, hand, pc>>
    BY <1>7, WorkerFrame DEF TakeItem, TypeOK
  <2>2. Frontier' = Frontier + 1 /\ workQueue[1] = Frontier /\ Frontier \in Int
    BY <2>1, InputAssumption DEF Frontier, Expected, QueueContiguous, TypeOK
  <2>3. BusyWorkers' = BusyWorkers \cup {w} /\ w \notin BusyWorkers
    BY <1>7 DEF BusyWorkers, TakeItem, Move, TypeOK
  <2>4. /\ item'[w] = Frontier
        /\ \A v \in BusyWorkers : item'[v] = item[v] /\ item[v] \in Nat
    BY <2>1, <2>2, <2>3 DEF BusyWorkers
  <2>5. /\ \A i \in 1..Len(resultQueue) : resultQueue[i].seq \in Nat
        /\ pending \subseteq Nat /\ hand.seq \in Nat
    <3>1. \A i \in 1..Len(resultQueue) : resultQueue[i] \in Result
      BY DEF TypeOK
    <3> QED
      BY <3>1 DEF TypeOK, Result
  <2>6. TakenBelowFrontier'
    BY <2>1, <2>2, <2>3, <2>4, <2>5 DEF TakenBelowFrontier, HandHoldsSlot
  <2>7. TakenDistinct'
    BY <2>1, <2>2, <2>3, <2>4, <2>5 DEF TakenBelowFrontier, TakenDistinct
  <2>8. HandDistinct'
    BY <2>1, <2>2, <2>3, <2>4, <2>5
    DEF TakenBelowFrontier, HandDistinct, HandHoldsSlot
  <2> QED
    BY <2>6, <2>7, <2>8
<1>8. ASSUME NEW w \in Workers, WorkerStep(w), PutResult(w)
      PROVE  Goal
  <2>1. /\ resultQueue \in Seq(Result)
        /\ resultQueue' = Append(resultQueue, [seq |-> item[w], ok |-> sound[w]])
        /\ UNCHANGED <<submitted, workQueue, item, pending, hand, pc>>
    BY <1>8, WorkerFrame DEF PutResult, TypeOK
  <2>2. /\ Frontier' = Frontier
        /\ BusyWorkers' = BusyWorkers \ {w} /\ w \in BusyWorkers
        /\ HandHoldsSlot' <=> HandHoldsSlot
    BY <1>8, <2>1
    DEF Frontier, Expected, BusyWorkers, HandHoldsSlot, PutResult, Move, TypeOK
  <2>3. /\ Len(resultQueue) \in Nat /\ Len(resultQueue') = Len(resultQueue) + 1
        /\ \A i \in 1..Len(resultQueue) : resultQueue'[i] = resultQueue[i]
        /\ resultQueue'[Len(resultQueue')].seq = item[w]
    BY <2>1
  <2>4. \A i \in 1..Len(resultQueue') :
           i \in 1..Len(resultQueue) \/ i = Len(resultQueue')
    BY <2>3
  <2>5. TakenBelowFrontier'
    BY <2>1, <2>2, <2>3, <2>4 DEF TakenBelowFrontier
  <2>6. TakenDistinct'
    BY <2>1, <2>2, <2>3, <2>4 DEF TakenDistinct
  <2>7. HandDistinct'
    BY <2>1, <2>2, <2>3, <2>4 DEF HandDistinct
  <2> QED
    BY <2>5, <2>6, <2>7
<1>9. ASSUME NEW w \in Workers, WorkerStep(w), ~TakeItem(w), ~PutResult(w)
      PROVE  Goal
  BY <1>9, QuietWorker, QuietDistinct
<1>10. CASE UNCHANGED vars
  BY <1>10, QuietDistinct
  DEF vars, Frontier, Expected, BusyWorkers, HandHoldsSlot
<1> QED
  BY <1>1, <1>2, <1>3, <1>4, <1>5, <1>6, <1>7, <1>8, <1>9, <1>10
  DEF Next, CoordinatorStep, CoordinatorQuiet, Interrupt, Terminated

-----------------------------------------------------------------------------
(* Counting the slots.                                                      *)

\* The slot holders are finitely many, and so is everything in the sum.
LEMMA SlotTypes ==
  ASSUME TypeOK
  PROVE  /\ IsFiniteSet(SlotHolders) /\ Cardinality(SlotHolders) \in Nat
         /\ Cardinality(pending) \in Nat
         /\ slots \in Nat /\ lost \in Nat /\ Len(resultQueue) \in Nat
<1>1. IsFiniteSet(SlotHolders)
  BY WorkersAssumption, FS_Subset DEF SlotHolders
<1> QED
  BY <1>1, FS_CardinalityType DEF TypeOK

\* How a worker's step changes the set of slot holders.
LEMMA HoldersStep ==
  ASSUME TypeOK, NEW w \in Workers, WorkerStep(w)
  PROVE  \/ /\ AcquireSlot(w)
            /\ w \notin SlotHolders /\ SlotHolders' = SlotHolders \cup {w}
            /\ slots > 0 /\ slots' = slots - 1 /\ resultQueue' = resultQueue
         \/ /\ w \in SlotHolders /\ SlotHolders' = SlotHolders \ {w}
            /\ \/ slots' = slots + 1 /\ resultQueue' = resultQueue
               \/ /\ slots' = slots
                  /\ Len(resultQueue') = Len(resultQueue) + 1
         \/ /\ SlotHolders' = SlotHolders
            /\ slots' = slots /\ resultQueue' = resultQueue
<1> USE DEF TypeOK, SlotHolders, Move, queueVars
<1>1. CASE OpenWorker(w)
  BY <1>1 DEF OpenWorker
<1>2. CASE AcquireSlot(w)
  BY <1>2 DEF AcquireSlot
<1>3. CASE LeaveWithoutSlot(w)
  BY <1>3 DEF LeaveWithoutSlot
<1>4. CASE LeaveWithoutItem(w)
  BY <1>4 DEF LeaveWithoutItem
<1>5. CASE ExecutePair(w)
  BY <1>5 DEF ExecutePair
<1>6. CASE CloseWorker(w)
  BY <1>6 DEF CloseWorker
<1>7. CASE SignalFailure(w)
  BY <1>7 DEF SignalFailure
<1>8. CASE ReportFailure(w)
  BY <1>8 DEF ReportFailure
<1>9. CASE TakeItem(w)
  BY <1>9 DEF TakeItem
<1>10. CASE PutResult(w)
  <2>1. Len(resultQueue') = Len(resultQueue) + 1
    BY <1>10 DEF PutResult
  <2> QED
    BY <1>10, <2>1 DEF PutResult
<1> QED
  BY <1>1, <1>2, <1>3, <1>4, <1>5, <1>6, <1>7, <1>8, <1>9, <1>10 DEF WorkerStep

\* Every acquire, release and hand-over keeps the number of slots.
LEMMA SlotStep ==
  ASSUME TypeOK, TypeOK', HandDistinct, SlotConservation, [Next]_vars
  PROVE  SlotConservation'
<1> USE SlotTypes, CapacityAssumption DEF SlotConservation
<1>1. CASE CoordinatorQuiet
  BY <1>1, QuietCoordinator
<1>2. CASE TakeResult
  <2>1. Len(resultQueue') = Len(resultQueue) - 1
    BY <1>2 DEF TakeResult, TypeOK
  <2> QED
    BY <1>2, <2>1 DEF TakeResult, HandHoldsSlot, SlotHolders, workerVars
<1>3. CASE HandleResult
  <2>1. /\ HandHoldsSlot /\ ~HandHoldsSlot'
        /\ UNCHANGED <<resultQueue, lost>> /\ SlotHolders' = SlotHolders
    BY <1>3 DEF HandleResult, HandHoldsSlot, SlotHolders, workerVars, Raise
  <2>2. CASE hand.ok
    <3>1. hand.seq \notin pending
      BY <2>1 DEF HandDistinct
    <3>2. Cardinality(pending \cup {hand.seq}) = Cardinality(pending) + 1
      BY <3>1, FS_AddElement DEF TypeOK
    <3>3. Cardinality(pending') = Cardinality(pending) + 1 /\ slots' = slots
      BY <1>3, <2>2, <3>2 DEF HandleResult
    <3> QED
      BY <2>1, <3>3
  <2>3. CASE ~hand.ok
    BY <1>3, <2>1, <2>3 DEF HandleResult
  <2> QED
    BY <2>2, <2>3
<1>4. CASE BeginPublication
  <2>1. Cardinality(pending') = Cardinality(pending) - 1
    BY <1>4, FS_RemoveElement DEF BeginPublication, TypeOK
  <2> QED
    BY <1>4, <2>1
    DEF BeginPublication, HandHoldsSlot, SlotHolders, workerVars, queueVars
<1>5. CASE PublishPair
  BY <1>5 DEF PublishPair, HandHoldsSlot, SlotHolders, workerVars, queueVars
<1>6. CASE AcknowledgePair
  BY SMTT(30), <1>6 DEF AcknowledgePair, HandHoldsSlot, SlotHolders, workerVars
<1>7. CASE PublicationFails
  <2>1. /\ HandHoldsSlot /\ ~HandHoldsSlot' /\ slots' = slots + 1
        /\ UNCHANGED <<resultQueue, pending, lost>>
        /\ SlotHolders' = SlotHolders
    BY <1>7 DEF PublicationFails, HandHoldsSlot, SlotHolders, workerVars,
                outputVars, Raise
  <2> QED
    BY <2>1
<1>8. CASE Cleanup
  BY <1>8, FS_EmptySet DEF Cleanup, HandHoldsSlot, SlotHolders, workerVars
<1>9. CASE DrainResult
  <2>1. Len(resultQueue') = Len(resultQueue) - 1
    BY <1>9 DEF DrainResult, TypeOK
  <2> QED
    BY <1>9, <2>1
    DEF DrainResult, HandHoldsSlot, SlotHolders, workerVars, outputVars
<1>10. CASE Interrupt /\ InterruptLoop
  BY SMTT(30), <1>10 DEF Interrupt, InterruptLoop, HandHoldsSlot, SlotHolders, workerVars,
               outputVars, Raise
<1>11. ASSUME NEW w \in Workers, WorkerStep(w)
       PROVE  SlotConservation'
  <2>1. /\ UNCHANGED <<pending, lost>>
        /\ HandHoldsSlot' <=> HandHoldsSlot
    BY <1>11, WorkerFrame DEF HandHoldsSlot
  <2>2. /\ w \notin SlotHolders =>
              Cardinality(SlotHolders \cup {w}) = Cardinality(SlotHolders) + 1
        /\ w \in SlotHolders =>
              Cardinality(SlotHolders \ {w}) = Cardinality(SlotHolders) - 1
    BY FS_AddElement, FS_RemoveElement
  <2>3. \/ /\ Cardinality(SlotHolders') = Cardinality(SlotHolders) + 1
           /\ slots' = slots - 1 /\ Len(resultQueue') = Len(resultQueue)
        \/ /\ Cardinality(SlotHolders') = Cardinality(SlotHolders) - 1
           /\ \/ slots' = slots + 1 /\ Len(resultQueue') = Len(resultQueue)
              \/ slots' = slots /\ Len(resultQueue') = Len(resultQueue) + 1
        \/ /\ Cardinality(SlotHolders') = Cardinality(SlotHolders)
           /\ slots' = slots /\ Len(resultQueue') = Len(resultQueue)
    BY <1>11, <2>2, HoldersStep
  <2>4. Cardinality(pending') = Cardinality(pending) /\ lost' = lost
    BY <2>1
  <2> QED
    BY SMTT(30), <2>1, <2>3, <2>4
<1>12. CASE UNCHANGED vars
  BY <1>12 DEF vars, HandHoldsSlot, SlotHolders, workerVars, queueVars, outputVars
<1> QED
  BY <1>1, <1>2, <1>3, <1>4, <1>5, <1>6, <1>7, <1>8, <1>9, <1>10, <1>11, <1>12
  DEF Next, CoordinatorStep, CoordinatorQuiet, Interrupt, Terminated

-----------------------------------------------------------------------------
(* The publication frontier.                                                *)

Running == {"check", "start"} \cup LoopStates

\* No quiet step enters the loop from outside or begins a publication.
LEMMA QuietControl ==
  ASSUME TypeOK, CoordinatorQuiet
  PROVE  /\ pc' \in Running => pc \in Running
         /\ pc' \notin {"check", "taken", "publishing", "acknowledging"}
         /\ pc # "acknowledging"
  BY DEF CoordinatorQuiet, CheckFirst, StartWorker, StartFails, AllStarted,
         PollErrors, InputEnds, OutOfOrder, Submit, Filling, StopFilling, Finish,
         AwaitTimeout, NothingToPublish, HandleFailure, EndRun, Interrupt,
         InterruptHandler, Raise, Running, LoopStates

\* next_publication separates what is published and acknowledged from the rest.
LEMMA FrontierStep ==
  ASSUME TypeOK, PublicationFrontier, [Next]_vars
  PROVE  PublicationFrontier'
<1> USE InputAssumption DEF PublicationFrontier
<1>1. CASE CoordinatorQuiet
  BY <1>1, QuietCoordinator, QuietControl DEF Running, LoopStates
<1>2. CASE TakeResult \/ HandleResult \/ PublicationFails \/ Cleanup \/ DrainResult
  BY <1>2 DEF TakeResult, HandleResult, PublicationFails, Cleanup, DrainResult,
              LoopStates, outputVars, Raise
<1>3. CASE BeginPublication
  BY <1>3 DEF BeginPublication, LoopStates
<1>4. CASE PublishPair
  BY <1>4 DEF PublishPair, LoopStates
<1>5. CASE AcknowledgePair
  <2>1. /\ nextPublication' = nextPublication + 1 /\ nextPublication \in Nat
        /\ hand.seq = nextPublication /\ pc' = "publish"
        /\ published' = published
        /\ acknowledged' = acknowledged \cup {nextPublication}
        /\ published = acknowledged \cup {nextPublication}
    BY <1>5 DEF AcknowledgePair, TypeOK
  <2>2. acknowledged \cup {nextPublication} = First..nextPublication
    BY <2>1
  <2> QED
    BY <2>1, <2>2
<1>6. CASE Interrupt /\ InterruptLoop
  BY <1>6 DEF Interrupt, InterruptLoop, LoopStates, outputVars, Raise
<1>7. ASSUME NEW w \in Workers, WorkerStep(w)
      PROVE  PublicationFrontier'
  BY <1>7, WorkerFrame
<1>8. CASE UNCHANGED vars
  BY <1>8 DEF vars, outputVars
<1> QED
  BY <1>1, <1>2, <1>3, <1>4, <1>5, <1>6, <1>7, <1>8
  DEF Next, CoordinatorStep, CoordinatorQuiet, Interrupt, Terminated

\* completed_count is what is published, in hand or pending, so that the loop's
\* exit condition means that everything was published.
LEMMA CompletionStep ==
  ASSUME TypeOK, HandDistinct, PublicationFrontier, CompletionCounted,
         [Next]_vars
  PROVE  CompletionCounted'
<1> USE InputAssumption, SlotTypes DEF CompletionCounted, LoopStates
<1>1. CASE CheckFirst \/ StartFails \/ AllStarted \/ StopFilling \/ AwaitTimeout
           \/ NothingToPublish \/ HandleFailure
  <2> USE DEF HandHoldsSlot, workerVars, queueVars, inputVars, outputVars
  <2>1. CASE CheckFirst
    BY <2>1 DEF CheckFirst, PublicationFrontier
  <2>2. CASE StartFails
    BY <2>2 DEF StartFails, PublicationFrontier
  <2>3. CASE AllStarted
    BY <2>3 DEF AllStarted, PublicationFrontier
  <2>4. CASE StopFilling
    BY <2>4 DEF StopFilling, PublicationFrontier
  <2>5. CASE AwaitTimeout
    BY <2>5 DEF AwaitTimeout, PublicationFrontier
  <2>6. CASE NothingToPublish
    BY <2>6 DEF NothingToPublish, PublicationFrontier
  <2>7. CASE HandleFailure
    BY <2>7 DEF HandleFailure, PublicationFrontier
  <2> QED
    BY <1>1, <2>1, <2>2, <2>3, <2>4, <2>5, <2>6, <2>7
<1>2. CASE \E w \in Workers : StartWorker(w)
  BY <1>2
  DEF StartWorker, HandHoldsSlot, queueVars, inputVars, outputVars
<1>3. CASE PollErrors \/ InputEnds \/ OutOfOrder
  BY <1>3
  DEF PollErrors, InputEnds, OutOfOrder, Filling, Raise, HandHoldsSlot,
      workerVars, queueVars, inputVars, outputVars
<1>4. CASE Submit
  BY <1>4
  DEF Submit, Filling, HandHoldsSlot, workerVars, queueVars, outputVars, TypeOK
<1>5. CASE Finish
  <2>1. /\ completed = Len(Input) /\ pending = {} /\ pc = "await"
    BY <1>5 DEF Finish, AllComplete
  <2>2. completed = nextPublication - First
    <3>1. Cardinality(pending) = 0
      BY <2>1, FS_EmptySet
    <3>2. ~HandHoldsSlot
      BY <2>1 DEF HandHoldsSlot
    <3>3. completed = (nextPublication - First) + Cardinality(pending)
                        + (IF HandHoldsSlot THEN 1 ELSE 0)
      BY <2>1
    <3> QED
      BY <3>1, <3>2, <3>3 DEF TypeOK
  <2>3. nextPublication = First + Len(Input) /\ published = acknowledged
    BY <2>1, <2>2 DEF PublicationFrontier, TypeOK
  <2> QED
    BY <1>5, <2>3
    DEF Finish, PublicationFrontier, workerVars, queueVars, inputVars, outputVars
<1>6. CASE TakeResult
  BY SMTT(30), <1>6 DEF TakeResult, HandHoldsSlot, inputVars, TypeOK
<1>7. CASE HandleResult
  <2>1. HandHoldsSlot /\ pc = "taken"
    BY <1>7 DEF HandleResult, HandHoldsSlot
  <2>2. hand.ok => Cardinality(pending') = Cardinality(pending) + 1
    <3>1. hand.seq \notin pending
      BY <2>1 DEF HandDistinct
    <3>2. Cardinality(pending \cup {hand.seq}) = Cardinality(pending) + 1
      BY <3>1, FS_AddElement DEF TypeOK
    <3> QED
      BY <1>7, <3>2 DEF HandleResult
  <2>3. /\ completed = (nextPublication - First) + Cardinality(pending) + 1
        /\ failure = "none"
    BY <2>1
  <2>4. UNCHANGED <<submitted, exhausted, completed, nextPublication>>
    BY <1>7 DEF HandleResult, inputVars
  <2>5. CASE hand.ok
    BY SMTT(30), <1>7, <2>2, <2>3, <2>4, <2>5 DEF HandleResult, HandHoldsSlot, TypeOK
  <2>6. CASE ~hand.ok
    BY <1>7, <2>4, <2>6 DEF HandleResult, Raise
  <2> QED
    BY <2>5, <2>6
<1>8. CASE BeginPublication
  <2>1. Cardinality(pending') = Cardinality(pending) - 1
    BY <1>8, FS_RemoveElement DEF BeginPublication, TypeOK
  <2> QED
    BY SMTT(30), <1>8, <2>1
    DEF BeginPublication, HandHoldsSlot, inputVars, queueVars, TypeOK
<1>9. CASE PublishPair
  BY <1>9 DEF PublishPair, HandHoldsSlot, inputVars, queueVars
<1>10. CASE AcknowledgePair
  BY <1>10 DEF AcknowledgePair, HandHoldsSlot, inputVars, TypeOK
<1>11. CASE PublicationFails \/ Cleanup \/ DrainResult \/ EndRun
  BY <1>11
  DEF PublicationFails, Cleanup, DrainResult, EndRun, Raise, inputVars, outputVars
<1>12. CASE Interrupt
  BY <1>12 DEF Interrupt, InterruptLoop, InterruptHandler, Raise, inputVars,
               outputVars
<1>13. ASSUME NEW w \in Workers, WorkerStep(w)
       PROVE  CompletionCounted'
  <2>1. pc # "check"
    BY <1>13
    DEF WorkerStep, OpenWorker, AcquireSlot, LeaveWithoutSlot, TakeItem,
        LeaveWithoutItem, ExecutePair, PutResult, CloseWorker, SignalFailure,
        ReportFailure, Move
  <2> QED
    BY <1>13, <2>1, WorkerFrame DEF HandHoldsSlot
<1>14. CASE UNCHANGED vars
  BY <1>14 DEF vars, HandHoldsSlot, inputVars, outputVars, workerVars, queueVars
<1> QED
  BY <1>1, <1>2, <1>3, <1>4, <1>5, <1>6, <1>7, <1>8, <1>9, <1>10, <1>11, <1>12,
     <1>13, <1>14
  DEF Next, CoordinatorStep, Terminated

\* A call that returned has ended for good: no thread of it takes a step.
LEMMA ReturnStep ==
  ASSUME TypeOK, PublicationFrontier, CompletionCounted, ReturnIsComplete,
         [Next]_vars
  PROVE  ReturnIsComplete'
<1> USE DEF ReturnIsComplete
<1>1. CASE CheckFirst
  <2> SUFFICES ASSUME pc' = "returned" PROVE ReturnIsComplete'
    OBVIOUS
  <2>1. /\ Input = <<>> /\ pc = "check"
        /\ UNCHANGED <<wpc, errors, acknowledged>>
    BY <1>1 DEF CheckFirst, workerVars, queueVars, outputVars
  <2>2. acknowledged = First..(First - 1) /\ Len(Input) = 0
    BY <2>1 DEF CompletionCounted, PublicationFrontier
  <2> QED
    BY <2>1, <2>2, InputAssumption DEF CompletionCounted
<1>2. CASE EndRun
  BY <1>2 DEF EndRun, CompletionCounted, workerVars, outputVars, TypeOK
<1>3. ASSUME NEW w \in Workers, WorkerStep(w)
      PROVE  ReturnIsComplete'
  <2>1. wpc[w] \notin {"new", "done"}
    BY <1>3
    DEF WorkerStep, OpenWorker, AcquireSlot, LeaveWithoutSlot, TakeItem,
        LeaveWithoutItem, ExecutePair, PutResult, CloseWorker, SignalFailure,
        ReportFailure, Move
  <2> QED
    BY <1>3, <2>1, WorkerFrame
<1>4. CASE Interrupt
  BY <1>4 DEF Interrupt, InterruptLoop, InterruptHandler, Raise
<1>5. CASE UNCHANGED vars
  BY <1>5 DEF vars, workerVars, queueVars, outputVars
<1>6. CASE CoordinatorStep /\ ~CheckFirst /\ ~EndRun
  <2>1. pc' # "returned"
    BY <1>6
    DEF CoordinatorStep, StartWorker, StartFails, AllStarted, PollErrors,
        InputEnds, OutOfOrder, Submit, Filling, StopFilling, Finish, TakeResult,
        AwaitTimeout, HandleResult, BeginPublication, NothingToPublish,
        PublishPair, AcknowledgePair, PublicationFails, HandleFailure, Cleanup,
        DrainResult, Raise
  <2> QED
    BY <2>1
<1> QED
  BY <1>1, <1>2, <1>3, <1>4, <1>5, <1>6 DEF Next, Terminated

\* The inductive invariant holds in every reachable state.
LEMMA Invariant == Spec => []IInv
<1>1. Init => IInv
  <2> SUFFICES ASSUME Init PROVE IInv
    OBVIOUS
  <2>1. TypeOK
    BY TypeInit
  <2>2. /\ Len(workQueue) = 0 /\ Len(resultQueue) = 0 /\ BusyWorkers = {}
        /\ ~HandHoldsSlot
    BY DEF Init, BusyWorkers, HandHoldsSlot
  <2>3. SlotHolders = {} /\ Cardinality({}) = 0
    BY FS_EmptySet DEF Init, SlotHolders
  <2>4. QueueContiguous
    BY <2>2 DEF Init, QueueContiguous
  <2>5. TakenBelowFrontier /\ TakenDistinct /\ HandDistinct
    BY <2>2 DEF Init, TakenBelowFrontier, TakenDistinct, HandDistinct
  <2>6. SlotConservation
    BY <2>2, <2>3, CapacityAssumption DEF Init, SlotConservation
  <2>7. PublicationFrontier
    BY InputAssumption DEF Init, PublicationFrontier
  <2>8. CompletionCounted
    BY <2>2, <2>3, InputAssumption DEF Init, CompletionCounted
  <2>9. ReturnIsComplete
    BY DEF Init, ReturnIsComplete
  <2> QED
    BY <2>1, <2>4, <2>5, <2>6, <2>7, <2>8, <2>9 DEF IInv
<1>2. IInv /\ [Next]_vars => IInv'
  BY TypeStep, QueueStep, DistinctStep, SlotStep, FrontierStep, CompletionStep,
     ReturnStep
  DEF IInv
<1> QED
  BY <1>1, <1>2, PTL DEF Spec

-----------------------------------------------------------------------------
(* The theorems.                                                            *)

\* No release of an outcome slot is forgotten or made twice, whatever fails
\* and whenever the call is interrupted (outcome_slots in coordinator.py).
THEOREM SlotsConserved == Spec => []SlotConservation
<1>1. IInv => SlotConservation
  BY DEF IInv
<1> QED
  BY <1>1, Invariant, PTL

\* A worker that holds a result finds room for it (the put loop of
\* _execute_worker_items, which does not look at the stop event).
THEOREM RoomAlways == Spec => []RoomForResults
<1>1. IInv => RoomForResults
  <2> SUFFICES ASSUME IInv, NEW w \in Workers, wpc[w] = "put"
               PROVE  Len(resultQueue) < OutcomeCapacity
    BY DEF RoomForResults
  <2>1. TypeOK /\ SlotConservation
    BY DEF IInv
  <2>2. w \in SlotHolders
    BY DEF SlotHolders
  <2>3. Cardinality(SlotHolders) >= 1
    BY <2>1, <2>2, SlotTypes, FS_EmptySet
  <2> QED
    BY <2>1, <2>3, SlotTypes, CapacityAssumption DEF SlotConservation
<1> QED
  BY <1>1, Invariant, PTL

\* What a worker and the coordinator may rely on when they put and get.
THEOREM SlotsAlwaysMakeRoom == Spec => []SlotsMakeRoom
  BY TypeCorrect, SlotsConserved, RoomAlways, PTL DEF SlotsMakeRoom

\* While the next pair to publish waits for a worker nothing later has been
\* taken, so the scheduler cannot starve behind its own reordering buffer.
THEOREM HeadOfLineHolds == Spec => []HeadOfLine
<1>1. IInv => HeadOfLine
  <2> SUFFICES ASSUME IInv, nextPublication \in Queued,
                      NEW s \in Executing \cup Reported \cup InHand \cup pending
               PROVE  s < nextPublication
    BY DEF HeadOfLine
  <2>0. TypeOK /\ QueueContiguous /\ TakenBelowFrontier
    BY DEF IInv
  <2>1. PICK i \in 1..Len(workQueue) : nextPublication = workQueue[i]
    <3>1. DOMAIN workQueue = 1..Len(workQueue)
      BY <2>0 DEF TypeOK
    <3> QED
      BY <3>1 DEF Queued
  <2>2. /\ Frontier \in Int
        /\ nextPublication >= Frontier
    BY <2>0, <2>1, InputAssumption DEF QueueContiguous, Frontier, Expected, TypeOK
  <2>3. s < Frontier
    <3>1. CASE s \in Executing
      BY <2>0, <3>1 DEF Executing, TakenBelowFrontier, BusyWorkers
    <3>2. CASE s \in Reported
      BY <2>0, <3>2 DEF Reported, TakenBelowFrontier, TypeOK
    <3>3. CASE s \in InHand \cup pending
      BY <2>0, <3>3 DEF InHand, TakenBelowFrontier
    <3> QED
      BY <3>1, <3>2, <3>3
  <2>4. s \in Nat
    <3>1. CASE s \in Executing
      BY <2>0, <3>1 DEF Executing, TypeOK
    <3>2. CASE s \in Reported
      <4>1. PICK j \in 1..Len(resultQueue) : s = resultQueue[j].seq
        BY <2>0, <3>2 DEF Reported, TypeOK
      <4>2. resultQueue[j] \in Result
        BY <2>0 DEF TypeOK
      <4> QED
        BY <4>1, <4>2 DEF Result
    <3>3. CASE s \in InHand \cup pending
      BY <2>0, <3>3 DEF InHand, TypeOK, Result
    <3> QED
      BY <3>1, <3>2, <3>3
  <2> QED
    BY <2>0, <2>2, <2>3, <2>4 DEF TypeOK
<1> QED
  BY <1>1, Invariant, PTL

\* Outcomes are published in sequence order and acknowledged after it.
THEOREM PublicationOrder == Spec => []PublishedInOrder
<1>1. IInv => PublishedInOrder
  <2> SUFFICES ASSUME IInv PROVE PublishedInOrder
    OBVIOUS
  <2>1. /\ First \in Nat /\ nextPublication \in Nat
        /\ acknowledged = First..(nextPublication - 1)
        /\ published = acknowledged \/ published = acknowledged \cup {nextPublication}
    BY InputAssumption DEF IInv, PublicationFrontier, TypeOK
  <2>2. \A s \in published : First..s \subseteq published
    BY <2>1
  <2>3. \A s \in published \ acknowledged : \A t \in published : t <= s
    BY <2>1
  <2> QED
    BY <2>1, <2>2, <2>3 DEF PublishedInOrder
<1> QED
  BY <1>1, Invariant, PTL

\* A normal return leaves nothing unpublished, running or unreported.
THEOREM ReturnComplete == Spec => []ReturnIsComplete
<1>1. IInv => ReturnIsComplete
  BY DEF IInv
<1> QED
  BY <1>1, Invariant, PTL

\* The scheduler implements the ordered publication its callers rely on.
THEOREM Refinement == Spec => ImplementsOrderedPublication
<1> DEFINE all == First..(First + Len(Input) - 1)
<1>1. Init => Abstract!Init
  BY DEF Init, Abstract!Init
<1>2. IInv /\ [Next]_vars => [Abstract!Next]_(Abstract!vars)
  <2> SUFFICES ASSUME IInv, [Next]_vars
               PROVE  Abstract!Next \/ UNCHANGED Abstract!vars
    OBVIOUS
  <2>0. TypeOK /\ PublicationFrontier /\ CompletionCounted /\ TakenBelowFrontier
    BY DEF IInv
  <2> USE DEF Ended
  <2>1. CASE PublishPair
    <3>1. /\ pc = "publishing" /\ pc' = "acknowledging"
          /\ hand.seq = nextPublication /\ published' = published \cup {nextPublication}
          /\ acknowledged' = acknowledged /\ published = acknowledged
          /\ published = First..(nextPublication - 1)
      BY <2>0, <2>1 DEF PublishPair, PublicationFrontier, LoopStates
    <3>2. /\ nextPublication \in Nat /\ nextPublication >= First
          /\ Len(workQueue) \in Nat /\ submitted \in Nat /\ submitted <= Len(Input)
      BY <2>0 DEF TypeOK, PublicationFrontier, CompletionCounted
    <3>3. nextPublication < First + submitted - Len(workQueue)
      <4>1. HandHoldsSlot
        BY <3>1 DEF HandHoldsSlot
      <4>2. hand.seq < Frontier
        BY <2>0, <4>1 DEF TakenBelowFrontier
      <4> QED
        BY <3>1, <3>2, <4>2, InputAssumption DEF Frontier, Expected
    <3>4. nextPublication \in Abstract!Frontier(published)
      BY <3>1, <3>2, <3>3, InputAssumption DEF Abstract!Frontier
    <3> QED
      BY <3>1, <3>4 DEF Abstract!Next, Abstract!Publish
  <2>2. CASE AcknowledgePair
    <3>1. /\ pc = "acknowledging" /\ pc' = "publish"
          /\ acknowledged' = published /\ published' = published
          /\ published = acknowledged \cup {nextPublication}
          /\ acknowledged = First..(nextPublication - 1) /\ nextPublication \in Nat
      BY <2>0, <2>2 DEF AcknowledgePair, PublicationFrontier, TypeOK
    <3>2. acknowledged # published
      BY <3>1, InputAssumption
    <3> QED
      BY <3>1, <3>2 DEF Abstract!Next, Abstract!Acknowledge
  <2>3. CASE CheckFirst
    <3>1. /\ pc = "check" /\ UNCHANGED <<published, acknowledged>>
          /\ \/ pc' = "returned" /\ Input = <<>>
             \/ pc' = "raised"
             \/ pc' = "start"
      BY <2>3 DEF CheckFirst, outputVars
    <3>2. Input = <<>> => acknowledged = all
      BY <2>0, <3>1, InputAssumption DEF CompletionCounted, PublicationFrontier
    <3> QED
      BY <3>1, <3>2
      DEF Abstract!Next, Abstract!Return, Abstract!Fail, Abstract!vars
  <2>4. CASE EndRun
    <3>1. /\ pc = "drain" /\ UNCHANGED <<published, acknowledged>>
          /\ \/ pc' = "returned" /\ failure = "none"
             \/ pc' = "raised"
      BY <2>4 DEF EndRun, outputVars
    <3>2. failure = "none" => acknowledged = all
      BY <2>0, <3>1 DEF CompletionCounted
    <3> QED
      BY <3>1, <3>2 DEF Abstract!Next, Abstract!Return, Abstract!Fail
  <2>5. CASE StartFails \/ Interrupt
    <3>1. /\ pc \notin Ended /\ UNCHANGED <<published, acknowledged>>
          /\ pc' \notin {"returned", "raised"}
      BY <2>5 DEF StartFails, Interrupt, InterruptLoop, InterruptHandler, Raise,
                  outputVars
    <3> QED
      BY <3>1 DEF Abstract!Next, Abstract!Fail, Abstract!vars
  <2>6. CASE /\ CoordinatorStep /\ ~PublishPair /\ ~AcknowledgePair
             /\ ~CheckFirst /\ ~EndRun /\ ~StartFails
    <3>1. /\ pc \notin Ended /\ pc' \notin Ended
          /\ UNCHANGED <<published, acknowledged>>
      BY <2>6
      DEF CoordinatorStep, StartWorker, AllStarted, PollErrors, InputEnds,
          OutOfOrder, Submit, Filling, StopFilling, Finish, TakeResult,
          AwaitTimeout, HandleResult, BeginPublication, NothingToPublish,
          PublicationFails, HandleFailure, Cleanup, DrainResult, Raise, outputVars
    <3> QED
      BY <3>1 DEF Abstract!vars
  <2>7. ASSUME NEW w \in Workers, WorkerStep(w)
        PROVE  UNCHANGED Abstract!vars
    BY <2>7, WorkerFrame DEF Abstract!vars
  <2>8. CASE UNCHANGED vars
    BY <2>8 DEF vars, outputVars, Abstract!vars
  <2> QED
    BY <2>1, <2>2, <2>3, <2>4, <2>5, <2>6, <2>7, <2>8 DEF Next, Terminated
<1> QED
  BY <1>1, <1>2, Invariant, PTL
  DEF Spec, Abstract!Spec, ImplementsOrderedPublication

-----------------------------------------------------------------------------
(* Where the submitted pairs are.                                           *)

\* Nothing that a worker took and that is not published lies behind the next
\* publication, and everything in front of it is somewhere.
HeldAhead ==
  /\ nextPublication <= Frontier
  /\ \A w \in BusyWorkers : nextPublication <= item[w]
  /\ \A i \in 1..Len(resultQueue) : nextPublication <= resultQueue[i].seq
  /\ \A s \in pending : nextPublication <= s
  /\ HandHoldsSlot => nextPublication <= hand.seq

Held(s) ==
  \/ \E w \in BusyWorkers : item[w] = s
  \/ \E i \in 1..Len(resultQueue) : resultQueue[i].seq = s
  \/ s \in pending
  \/ HandHoldsSlot /\ hand.seq = s

NoneLost ==
  pc \in Running => \A s \in nextPublication..(Frontier - 1) : Held(s)

\* completed_count counts what the workers have handed over.
TakenCounted ==
  pc \in Running =>
      Frontier - First = Cardinality(BusyWorkers) + Len(resultQueue) + completed

\* Whoever raises or returns has seen its workers end.
JoinedBeforeEnd ==
  pc \in {"returned", "raised"} => \A w \in Workers : wpc[w] \in {"new", "done"}

PlacesInv == HeldAhead /\ NoneLost /\ TakenCounted /\ JoinedBeforeEnd

\* The numbers and sets these speak of.
LEMMA PlaceTypes ==
  ASSUME TypeOK
  PROVE  /\ IsFiniteSet(BusyWorkers) /\ Cardinality(BusyWorkers) \in Nat
         /\ Len(resultQueue) \in Nat /\ Len(workQueue) \in Nat /\ Frontier \in Int
         /\ completed \in Nat /\ nextPublication \in Nat /\ First \in Nat
         /\ pending \subseteq Nat /\ hand.seq \in Nat
         /\ \A w \in Workers : item[w] \in Nat
         /\ \A i \in 1..Len(resultQueue) : resultQueue[i] \in Result /\ resultQueue[i].seq \in Nat
<1>1. IsFiniteSet(BusyWorkers)
  BY WorkersAssumption, FS_Subset DEF BusyWorkers
<1>2. \A i \in 1..Len(resultQueue) : resultQueue[i] \in Result
  BY DEF TypeOK
<1> QED
  BY <1>1, <1>2, FS_CardinalityType, InputAssumption DEF TypeOK, Frontier, Expected, Result

\* Where nothing moves, all of it stands.
LEMMA QuietPlaces ==
  ASSUME HeldAhead, NoneLost, TakenCounted,
         UNCHANGED <<resultQueue, pending, hand, item, nextPublication, completed>>,
         Frontier' = Frontier, BusyWorkers' = BusyWorkers,
         HandHoldsSlot' <=> HandHoldsSlot,
         pc' \in Running => pc \in Running
  PROVE  HeldAhead' /\ NoneLost' /\ TakenCounted'
<1>1. HeldAhead'
  BY DEF HeldAhead
<1>2. \A s : Held(s) => Held(s)'
  BY DEF Held
<1> QED
  BY <1>1, <1>2 DEF NoneLost, TakenCounted

\* A step of the coordinator keeps every pair where it can be found, until it
\* leaves the loop.
LEMMA CoordinatorPlaces ==
  ASSUME TypeOK, TypeOK', HandDistinct, TakenBelowFrontier, PublicationFrontier,
         HeldAhead, NoneLost, TakenCounted, CoordinatorStep \/ Interrupt
  PROVE  HeldAhead' /\ NoneLost' /\ TakenCounted'
<1> USE PlaceTypes
<1>1. CASE CoordinatorQuiet
  <2>1. UNCHANGED completed
    BY <1>1
    DEF CoordinatorQuiet, CheckFirst, StartWorker, StartFails, AllStarted, PollErrors,
        InputEnds, OutOfOrder, Submit, StopFilling, Finish, AwaitTimeout, NothingToPublish,
        HandleFailure, EndRun, Interrupt, outputVars
  <2> QED
    BY <1>1, <2>1, QuietCoordinator, QuietControl, QuietPlaces
<1>2. CASE TakeResult
  <2>1. /\ resultQueue \in Seq(Result) /\ resultQueue # <<>>
        /\ hand' = resultQueue[1] /\ resultQueue' = Tail(resultQueue)
        /\ ~HandHoldsSlot /\ HandHoldsSlot' /\ pc \in Running
        /\ completed' = completed + 1
        /\ UNCHANGED <<workQueue, submitted, item, wpc, pending, nextPublication>>
    BY <1>2
    DEF TakeResult, TypeOK, HandHoldsSlot, Running, LoopStates, inputVars, workerVars
  <2>2. /\ Len(resultQueue') = Len(resultQueue) - 1 /\ Len(resultQueue) >= 1
        /\ \A i \in 1..Len(resultQueue') : /\ resultQueue'[i] = resultQueue[i + 1]
                                           /\ i + 1 \in 1..Len(resultQueue)
        /\ \A i \in 1..Len(resultQueue) : i = 1 \/ i - 1 \in 1..Len(resultQueue')
    BY <2>1
  <2>3. Frontier' = Frontier /\ BusyWorkers' = BusyWorkers
    BY <2>1 DEF Frontier, Expected, BusyWorkers
  <2>4. HeldAhead'
    BY <2>1, <2>2, <2>3 DEF HeldAhead
  <2>5. ASSUME NEW s, Held(s)
        PROVE  Held(s)'
    <3>1. ASSUME NEW i \in 1..Len(resultQueue), resultQueue[i].seq = s
          PROVE  Held(s)'
      <4>1. CASE i = 1
        BY <2>1, <3>1, <4>1 DEF Held
      <4>2. CASE i # 1
        <5>1. i - 1 \in 1..Len(resultQueue') /\ (i - 1) + 1 = i
          BY <2>2, <4>2
        <5>2. resultQueue'[i - 1].seq = s
          BY <2>2, <3>1, <5>1
        <5> QED
          BY <5>1, <5>2 DEF Held
      <4> QED
        BY <4>1, <4>2
    <3> QED
      BY <2>1, <2>3, <2>5, <3>1 DEF Held
  <2>6. NoneLost'
    BY <2>1, <2>3, <2>5 DEF NoneLost
  <2>7. TakenCounted'
    BY <2>1, <2>2, <2>3 DEF TakenCounted
  <2> QED
    BY <2>4, <2>6, <2>7
<1>3. CASE HandleResult
  <2>1. /\ UNCHANGED <<workQueue, submitted, item, wpc, resultQueue, completed,
                       nextPublication>>
        /\ HandHoldsSlot /\ ~HandHoldsSlot' /\ pc \in Running
        /\ IF hand.ok THEN pending' = pending \cup {hand.seq}
           ELSE pending' = pending /\ pc' \notin Running
    BY <1>3
    DEF HandleResult, HandHoldsSlot, Raise, Running, LoopStates, inputVars, workerVars
  <2>2. Frontier' = Frontier /\ BusyWorkers' = BusyWorkers
    BY <2>1 DEF Frontier, Expected, BusyWorkers
  <2>3. HeldAhead'
    BY <2>1, <2>2 DEF HeldAhead
  <2>4. hand.ok => \A s : Held(s) => Held(s)'
    BY <2>1, <2>2 DEF Held
  <2>5. NoneLost' /\ TakenCounted'
    BY <2>1, <2>2, <2>4 DEF NoneLost, TakenCounted
  <2> QED
    BY <2>3, <2>5
<1>4. CASE BeginPublication
  <2>1. /\ UNCHANGED <<workQueue, submitted, item, wpc, resultQueue, completed,
                       nextPublication>>
        /\ ~HandHoldsSlot /\ HandHoldsSlot' /\ pc \in Running
        /\ hand'.seq = nextPublication /\ hand'.seq \in pending
        /\ pending' = pending \ {hand'.seq}
    BY <1>4
    DEF BeginPublication, HandHoldsSlot, Running, LoopStates, inputVars, workerVars, queueVars
  <2>2. Frontier' = Frontier /\ BusyWorkers' = BusyWorkers
    BY <2>1 DEF Frontier, Expected, BusyWorkers
  <2>3. HeldAhead'
    BY <2>1, <2>2 DEF HeldAhead
  <2>4. \A s : Held(s) => Held(s)'
    BY <2>1, <2>2 DEF Held
  <2>5. NoneLost' /\ TakenCounted'
    BY <2>1, <2>2, <2>4 DEF NoneLost, TakenCounted
  <2> QED
    BY <2>3, <2>5
<1>5. CASE PublishPair
  <2>1. /\ UNCHANGED <<resultQueue, pending, hand, item, nextPublication, completed,
                       workQueue, submitted, wpc>>
        /\ HandHoldsSlot /\ HandHoldsSlot' /\ pc \in Running
    BY <1>5
    DEF PublishPair, HandHoldsSlot, Running, LoopStates, inputVars, workerVars, queueVars
  <2>2. Frontier' = Frontier /\ BusyWorkers' = BusyWorkers
    BY <2>1 DEF Frontier, Expected, BusyWorkers
  <2> QED
    BY <2>1, <2>2, QuietPlaces
<1>6. CASE AcknowledgePair
  <2>1. /\ UNCHANGED <<resultQueue, pending, item, completed, workQueue, submitted, wpc>>
        /\ HandHoldsSlot /\ ~HandHoldsSlot' /\ pc \in Running
        /\ hand.seq = nextPublication /\ nextPublication' = nextPublication + 1
    BY <1>6
    DEF AcknowledgePair, HandHoldsSlot, PublicationFrontier, Running, LoopStates,
        inputVars, workerVars
  <2>2. Frontier' = Frontier /\ BusyWorkers' = BusyWorkers /\ BusyWorkers \subseteq Workers
    BY <2>1 DEF Frontier, Expected, BusyWorkers
  <2>3. nextPublication' <= Frontier'
    BY <2>1, <2>2 DEF TakenBelowFrontier
  <2>4. /\ \A w \in BusyWorkers : item[w] # nextPublication
        /\ \A i \in 1..Len(resultQueue) : resultQueue[i].seq # nextPublication
        /\ nextPublication \notin pending
    BY <2>1 DEF HandDistinct
  <2>5. HeldAhead'
    BY <2>1, <2>2, <2>3, <2>4 DEF HeldAhead
  <2>6. ASSUME NEW s \in nextPublication'..(Frontier' - 1)
        PROVE  Held(s)'
    <3>1. s \in nextPublication..(Frontier - 1) /\ s # hand.seq
      BY <2>1, <2>2
    <3>2. Held(s)
      BY <2>1, <3>1 DEF NoneLost
    <3> QED
      BY <2>1, <2>2, <3>1, <3>2 DEF Held
  <2>7. NoneLost'
    BY <2>6 DEF NoneLost
  <2>8. TakenCounted'
    BY <2>1, <2>2 DEF TakenCounted
  <2> QED
    BY <2>5, <2>7, <2>8
<1>7. CASE \/ PublicationFails \/ Cleanup \/ DrainResult
           \/ (Interrupt /\ InterruptLoop)
  <2>1. /\ UNCHANGED <<workQueue, submitted, item, wpc, nextPublication>>
        /\ ~HandHoldsSlot' /\ pc' \notin Running
        /\ pending' \subseteq pending
        /\ resultQueue' = resultQueue \/ /\ resultQueue # <<>>
                                         /\ resultQueue' = Tail(resultQueue)
    BY <1>7
    DEF PublicationFails, Cleanup, DrainResult, Interrupt, InterruptLoop, HandHoldsSlot,
        Raise, Running, LoopStates, inputVars, workerVars, outputVars
  <2>2. Frontier' = Frontier /\ BusyWorkers' = BusyWorkers
    BY <2>1 DEF Frontier, Expected, BusyWorkers
  <2>3. \A i \in 1..Len(resultQueue') : nextPublication <= resultQueue'[i].seq
    <3>1. CASE resultQueue' = resultQueue
      BY <3>1 DEF HeldAhead
    <3>2. CASE resultQueue # <<>> /\ resultQueue' = Tail(resultQueue)
      <4>1. \A i \in 1..Len(resultQueue') : /\ resultQueue'[i] = resultQueue[i + 1]
                                            /\ i + 1 \in 1..Len(resultQueue)
        BY <3>2 DEF TypeOK
      <4> QED
        BY <4>1 DEF HeldAhead
    <3> QED
      BY <2>1, <3>1, <3>2
  <2>4. HeldAhead'
    BY <2>1, <2>2, <2>3 DEF HeldAhead
  <2> QED
    BY <2>1, <2>4 DEF NoneLost, TakenCounted
<1> QED
  BY <1>1, <1>2, <1>3, <1>4, <1>5, <1>6, <1>7
  DEF CoordinatorStep, CoordinatorQuiet, Interrupt

\* So does a step of a worker.
LEMMA WorkerPlaces ==
  ASSUME TypeOK, TypeOK', QueueContiguous, HeldAhead, NoneLost, TakenCounted,
         NEW w \in Workers, WorkerStep(w)
  PROVE  HeldAhead' /\ NoneLost' /\ TakenCounted'
<1> USE PlaceTypes
<1>0. /\ UNCHANGED <<submitted, completed, pending, nextPublication, hand, pc>>
      /\ HandHoldsSlot' <=> HandHoldsSlot
  BY WorkerFrame DEF HandHoldsSlot
<1>1. CASE TakeItem(w)
  <2>1. /\ workQueue \in Seq(Nat) /\ workQueue # <<>>
        /\ workQueue' = Tail(workQueue)
        /\ item' = [item EXCEPT ![w] = workQueue[1]]
        /\ item \in [Workers -> Nat] /\ UNCHANGED resultQueue
    BY <1>1 DEF TakeItem, TypeOK
  <2>2. Frontier' = Frontier + 1 /\ workQueue[1] = Frontier /\ Frontier \in Int
    BY <1>0, <2>1, InputAssumption DEF Frontier, Expected, QueueContiguous, TypeOK
  <2>3. BusyWorkers' = BusyWorkers \cup {w} /\ w \notin BusyWorkers
    BY <1>1 DEF BusyWorkers, TakeItem, Move, TypeOK
  <2>4. /\ item'[w] = Frontier
        /\ \A v \in BusyWorkers : item'[v] = item[v] /\ item[v] \in Nat
    BY <2>1, <2>2, <2>3 DEF BusyWorkers
  <2>5. HeldAhead'
    BY <1>0, <2>1, <2>2, <2>3, <2>4 DEF HeldAhead
  <2>6. ASSUME NEW s \in nextPublication'..(Frontier' - 1), pc \in Running
        PROVE  Held(s)'
    <3>1. CASE s = Frontier
      BY <2>3, <2>4, <3>1 DEF Held
    <3>2. CASE s # Frontier
      <4>1. s \in nextPublication..(Frontier - 1)
        BY <1>0, <2>2, <3>2
      <4>2. Held(s)
        BY <2>6, <4>1 DEF NoneLost
      <4> QED
        BY <1>0, <2>1, <2>3, <2>4, <4>2 DEF Held
    <3> QED
      BY <3>1, <3>2
  <2>7. NoneLost'
    BY <1>0, <2>6 DEF NoneLost
  <2>8. Cardinality(BusyWorkers') = Cardinality(BusyWorkers) + 1
    BY <2>3, FS_AddElement
  <2>9. TakenCounted'
    <3>1. UNCHANGED <<resultQueue, completed, pc>>
      BY <1>0, <2>1
    <3>2. Cardinality(BusyWorkers') = Cardinality(BusyWorkers) + 1 /\ Frontier' = Frontier + 1
      BY <2>2, <2>8
    <3>3. /\ Cardinality(BusyWorkers) \in Nat /\ Len(resultQueue) \in Nat
          /\ Frontier \in Int /\ completed \in Nat /\ First \in Nat
      BY PlaceTypes
    <3> HIDE PlaceTypes
    <3> QED
      BY <3>1, <3>2, <3>3 DEF TakenCounted
  <2> QED
    BY <2>5, <2>7, <2>9
<1>2. CASE PutResult(w)
  <2>1. /\ resultQueue \in Seq(Result)
        /\ resultQueue' = Append(resultQueue, [seq |-> item[w], ok |-> sound[w]])
        /\ UNCHANGED <<workQueue, item>>
    BY <1>2 DEF PutResult, TypeOK
  <2>2. /\ Frontier' = Frontier
        /\ BusyWorkers' = BusyWorkers \ {w} /\ w \in BusyWorkers
    BY <1>0, <1>2, <2>1 DEF Frontier, Expected, BusyWorkers, PutResult, Move, TypeOK
  <2>3. /\ Len(resultQueue) \in Nat /\ Len(resultQueue') = Len(resultQueue) + 1
        /\ \A i \in 1..Len(resultQueue) : /\ resultQueue'[i] = resultQueue[i]
                                          /\ i \in 1..Len(resultQueue')
        /\ resultQueue'[Len(resultQueue')].seq = item[w]
        /\ Len(resultQueue') \in 1..Len(resultQueue')
    BY <2>1
  <2>4. \A i \in 1..Len(resultQueue') :
           i \in 1..Len(resultQueue) \/ i = Len(resultQueue')
    BY <2>3
  <2>5. HeldAhead'
    BY <1>0, <2>1, <2>2, <2>3, <2>4 DEF HeldAhead
  <2>6. ASSUME NEW s, Held(s)
        PROVE  Held(s)'
    <3>1. CASE item[w] = s
      BY <2>3, <3>1 DEF Held
    <3>2. CASE item[w] # s
      BY <1>0, <2>1, <2>2, <2>3, <2>6, <3>2 DEF Held
    <3> QED
      BY <3>1, <3>2
  <2>7. NoneLost'
    BY <1>0, <2>2, <2>6 DEF NoneLost
  <2>8. Cardinality(BusyWorkers') = Cardinality(BusyWorkers) - 1
    BY <2>2, FS_RemoveElement
  <2>9. TakenCounted'
    BY <1>0, <2>2, <2>3, <2>8 DEF TakenCounted
  <2> QED
    BY <2>5, <2>7, <2>9
<1>3. CASE ~TakeItem(w) /\ ~PutResult(w)
  BY <1>0, <1>3, QuietWorker, QuietPlaces
<1> QED
  BY <1>1, <1>2, <1>3

\* A call that has joined its workers gets no new ones.
LEMMA JoinedStep ==
  ASSUME TypeOK, CompletionCounted, JoinedBeforeEnd, [Next]_vars
  PROVE  JoinedBeforeEnd'
<1> USE DEF JoinedBeforeEnd
<1>1. CASE CheckFirst \/ EndRun
  BY <1>1 DEF CheckFirst, EndRun, CompletionCounted, workerVars
<1>2. ASSUME NEW w \in Workers, WorkerStep(w)
      PROVE  JoinedBeforeEnd'
  <2>1. wpc[w] \notin {"new", "done"}
    BY <1>2
    DEF WorkerStep, OpenWorker, AcquireSlot, LeaveWithoutSlot, TakeItem,
        LeaveWithoutItem, ExecutePair, PutResult, CloseWorker, SignalFailure,
        ReportFailure, Move
  <2> QED
    BY <1>2, <2>1, WorkerFrame
<1>3. CASE Interrupt
  BY <1>3 DEF Interrupt, InterruptLoop, InterruptHandler, Raise
<1>4. CASE UNCHANGED vars
  BY <1>4 DEF vars, workerVars
<1>5. CASE CoordinatorStep /\ ~CheckFirst /\ ~EndRun
  <2>1. pc' \notin {"returned", "raised"}
    BY <1>5
    DEF CoordinatorStep, StartWorker, StartFails, AllStarted, PollErrors,
        InputEnds, OutOfOrder, Submit, Filling, StopFilling, Finish, TakeResult,
        AwaitTimeout, HandleResult, BeginPublication, NothingToPublish,
        PublishPair, AcknowledgePair, PublicationFails, HandleFailure, Cleanup,
        DrainResult, Raise
  <2> QED
    BY <2>1
<1> QED
  BY <1>1, <1>2, <1>3, <1>4, <1>5 DEF Next, Terminated

LEMMA PlacesInvariant == Spec => []PlacesInv
<1>1. Init => PlacesInv
  <2> SUFFICES ASSUME Init PROVE PlacesInv
    OBVIOUS
  <2>1. /\ BusyWorkers = {} /\ ~HandHoldsSlot /\ pending = {} /\ Len(resultQueue) = 0
        /\ Frontier = First /\ nextPublication = First /\ completed = 0 /\ pc = "check"
    BY InputAssumption DEF Init, BusyWorkers, HandHoldsSlot, Frontier, Expected
  <2>2. HeldAhead /\ NoneLost
    BY <2>1, InputAssumption DEF HeldAhead, NoneLost
  <2>3. TakenCounted
    BY <2>1, FS_EmptySet, InputAssumption DEF TakenCounted
  <2> QED
    BY <2>1, <2>2, <2>3 DEF PlacesInv, JoinedBeforeEnd
<1>2. IInv /\ IInv' /\ PlacesInv /\ [Next]_vars => PlacesInv'
  <2> SUFFICES ASSUME IInv, IInv', PlacesInv, [Next]_vars PROVE PlacesInv'
    OBVIOUS
  <2>1. /\ TypeOK /\ TypeOK' /\ QueueContiguous /\ HandDistinct /\ TakenBelowFrontier
        /\ PublicationFrontier /\ CompletionCounted
    BY DEF IInv
  <2>2. JoinedBeforeEnd'
    BY <2>1, JoinedStep DEF PlacesInv
  <2>3. CASE UNCHANGED vars
    BY <2>2, <2>3, QuietPlaces
    DEF PlacesInv, vars, workerVars, queueVars, inputVars, outputVars, Frontier, Expected,
        BusyWorkers, HandHoldsSlot
  <2>4. CASE CoordinatorStep \/ Interrupt
    BY <2>1, <2>2, <2>4, CoordinatorPlaces DEF PlacesInv
  <2>5. ASSUME NEW w \in Workers, WorkerStep(w)
        PROVE  PlacesInv'
    BY <2>1, <2>2, <2>5, WorkerPlaces DEF PlacesInv
  <2> QED
    BY <2>3, <2>4, <2>5 DEF Next, Terminated
<1> QED
  BY <1>1, <1>2, Invariant, PTL DEF Spec

\* The loop loses no pair, hands none to two workers, and publishes none that is
\* still elsewhere; and a call that returns or raises has joined its workers.
THEOREM AlwaysAccounted == Spec => []WorkIsAccounted
<1>1. IInv /\ PlacesInv => WorkIsAccounted
  <2> SUFFICES ASSUME IInv, PlacesInv PROVE WorkIsAccounted
    OBVIOUS
  <2>0. /\ TypeOK /\ QueueContiguous /\ TakenBelowFrontier /\ PublicationFrontier
        /\ CompletionCounted /\ HeldAhead /\ NoneLost /\ TakenCounted /\ JoinedBeforeEnd
    BY DEF IInv, PlacesInv
  <2>t. /\ IsFiniteSet(BusyWorkers) /\ Cardinality(BusyWorkers) \in Nat
        /\ Len(resultQueue) \in Nat /\ Len(workQueue) \in Nat /\ Frontier \in Int
        /\ completed \in Nat /\ nextPublication \in Nat /\ First \in Nat
        /\ pending \subseteq Nat /\ hand.seq \in Nat
    BY <2>0, PlaceTypes
  <2>v. /\ \A w \in Workers : item[w] \in Nat
        /\ \A i \in 1..Len(resultQueue) : resultQueue[i] \in Result /\ resultQueue[i].seq \in Nat
    BY <2>0, PlaceTypes
  <2> USE <2>t
  <2>1. ASSUME pc \in LoopStates
        PROVE  /\ First..(Expected - 1)
                     = Queued \cup Executing \cup Reported \cup InHand \cup pending \cup published
               /\ submitted = Len(workQueue) + Len(resultQueue) + Cardinality(BusyWorkers)
                     + Cardinality(InHand) + Cardinality(pending) + Cardinality(published)
    <3>1. /\ submitted \in Nat /\ Expected = First + submitted /\ Expected \in Nat
          /\ Frontier = Expected - Len(workQueue) /\ pc \in Running
          /\ DOMAIN workQueue = 1..Len(workQueue) /\ DOMAIN resultQueue = 1..Len(resultQueue)
      BY <2>0, <2>1 DEF TypeOK, Expected, Frontier, Running
    <3>2. /\ nextPublication >= First /\ nextPublication <= Frontier /\ Frontier <= Expected
          /\ acknowledged = First..(nextPublication - 1)
      BY <2>0, <3>1 DEF PublicationFrontier, HeldAhead
    <3>3. Queued = Frontier..(Expected - 1)
      <4>1. \A i \in 1..Len(workQueue) : workQueue[i] = Frontier + i - 1
        BY <2>0 DEF QueueContiguous
      <4>2. \A s \in Frontier..(Expected - 1) :
               s - Frontier + 1 \in 1..Len(workQueue) /\ workQueue[s - Frontier + 1] = s
        BY <3>1, <4>1
      <4> QED
        BY <3>1, <4>1, <4>2 DEF Queued
    <3>4. /\ pc # "acknowledging" => published = First..(nextPublication - 1)
          /\ pc = "acknowledging" => published = First..nextPublication
      <4>1. CASE pc = "acknowledging"
        <5>1. published = acknowledged \cup {nextPublication}
          BY <2>0, <4>1 DEF PublicationFrontier
        <5> QED
          BY <3>2, <4>1, <5>1
      <4>2. CASE pc # "acknowledging"
        BY <2>0, <2>1, <3>2, <4>2 DEF PublicationFrontier
      <4> QED
        BY <4>1, <4>2
    <3>5. /\ pc = "acknowledging" => HandHoldsSlot /\ hand.seq = nextPublication /\ InHand = {}
          /\ pc # "acknowledging" => InHand = IF HandHoldsSlot THEN {hand.seq} ELSE {}
      BY <2>0 DEF HandHoldsSlot, PublicationFrontier, InHand
    <3>6. \A s \in nextPublication..(Frontier - 1) :
             s \in Executing \cup Reported \cup InHand \cup pending \cup published
      <4> SUFFICES ASSUME NEW s \in nextPublication..(Frontier - 1)
                   PROVE  s \in Executing \cup Reported \cup InHand \cup pending \cup published
        OBVIOUS
      <4>1. Held(s)
        BY <2>0, <3>1 DEF NoneLost
      <4>2. CASE \E w \in BusyWorkers : item[w] = s
        BY <4>2 DEF BusyWorkers, Executing
      <4>3. CASE \E i \in 1..Len(resultQueue) : resultQueue[i].seq = s
        BY <3>1, <4>3 DEF Reported
      <4>4. CASE HandHoldsSlot /\ hand.seq = s
        BY <3>2, <3>4, <3>5, <4>4
      <4> QED
        BY <4>1, <4>2, <4>3, <4>4 DEF Held
    <3>7. \A s \in Executing \cup Reported \cup InHand \cup pending :
             s \in nextPublication..(Frontier - 1)
      <4>1. \A s \in Executing : s \in nextPublication..(Frontier - 1)
        <5>1. \A w \in BusyWorkers : item[w] \in nextPublication..(Frontier - 1)
          BY <2>0, <2>v DEF HeldAhead, TakenBelowFrontier, BusyWorkers
        <5> QED
          BY <5>1 DEF Executing, BusyWorkers
      <4>2. \A s \in Reported : s \in nextPublication..(Frontier - 1)
        <5>1. \A i \in 1..Len(resultQueue) :
                 resultQueue[i].seq \in nextPublication..(Frontier - 1)
          BY <2>0, <2>v DEF HeldAhead, TakenBelowFrontier
        <5> QED
          BY <3>1, <5>1 DEF Reported
      <4>3. \A s \in pending : s \in nextPublication..(Frontier - 1)
        BY <2>0 DEF HeldAhead, TakenBelowFrontier
      <4>4. \A s \in InHand : s \in nextPublication..(Frontier - 1)
        <5>1. HandHoldsSlot => hand.seq \in nextPublication..(Frontier - 1)
          BY <2>0 DEF HeldAhead, TakenBelowFrontier
        <5> QED
          BY <3>5, <5>1
      <4> QED
        BY <4>1, <4>2, <4>3, <4>4
    <3>8. published \subseteq First..(Frontier - 1)
      <4>1. CASE pc = "acknowledging"
        <5>1. nextPublication < Frontier
          BY <2>0, <3>5, <4>1 DEF TakenBelowFrontier
        <5> QED
          BY <3>2, <3>4, <4>1, <5>1
      <4>2. CASE pc # "acknowledging"
        BY <3>2, <3>4, <4>2
      <4> QED
        BY <4>1, <4>2
    <3>9. First..(Expected - 1)
             = Queued \cup Executing \cup Reported \cup InHand \cup pending \cup published
      <4>1. First..(Expected - 1)
              = First..(nextPublication - 1) \cup nextPublication..(Frontier - 1)
                  \cup Frontier..(Expected - 1)
        BY SMTT(30), <3>1, <3>2
      <4>2. First..(nextPublication - 1) \subseteq published
        BY <3>2, <3>4
      <4>3. published \subseteq First..(nextPublication - 1) \cup nextPublication..(Frontier - 1)
        BY <3>2, <3>8
      <4> QED
        BY <3>3, <3>6, <3>7, <4>1, <4>2, <4>3
    <3>10. Cardinality(InHand) + Cardinality(published)
              = (nextPublication - First) + (IF HandHoldsSlot THEN 1 ELSE 0)
      <4>1. /\ Cardinality(First..(nextPublication - 1)) = nextPublication - First
            /\ Cardinality(First..nextPublication) = nextPublication - First + 1
        <5> DEFINE m == nextPublication - 1
        <5>1. m \in Int /\ First \in Int /\ nextPublication \in Int
          OBVIOUS
        <5>2. Cardinality(First..m) = IF First > m THEN 0 ELSE m - First + 1
          <6> HIDE DEF m
          <6> QED
            BY <5>1, FS_Interval
        <5>3. Cardinality(First..nextPublication)
                 = IF First > nextPublication THEN 0 ELSE nextPublication - First + 1
          BY <5>1, FS_Interval
        <5> QED
          BY <3>2, <5>2, <5>3
      <4>2. Cardinality({}) = 0 /\ Cardinality({hand.seq}) = 1
        BY FS_EmptySet, FS_Singleton
      <4> QED
        <5>1. CASE pc = "acknowledging"
          <6>1. /\ Cardinality(InHand) = 0 /\ HandHoldsSlot
                /\ Cardinality(published) = nextPublication - First + 1
            BY <3>4, <3>5, <4>1, <4>2, <5>1
          <6> QED
            BY <6>1
        <5>2. CASE pc # "acknowledging"
          <6>1. Cardinality(published) = nextPublication - First
            BY <3>4, <4>1, <5>2
          <6>2. Cardinality(InHand) = IF HandHoldsSlot THEN 1 ELSE 0
            BY <3>5, <4>2, <5>2
          <6> QED
            BY <6>1, <6>2
        <5> QED
          BY <5>1, <5>2
    <3>11. completed = (nextPublication - First) + Cardinality(pending)
              + (IF HandHoldsSlot THEN 1 ELSE 0)
      BY <2>0, <2>1 DEF CompletionCounted
    <3>12. /\ Frontier - First = Cardinality(BusyWorkers) + Len(resultQueue) + completed
           /\ Cardinality(pending) \in Nat
      BY <2>0, <3>1, SlotTypes DEF TakenCounted
    <3>13. Cardinality(InHand) \in Nat /\ Cardinality(published) \in Nat
      <4>1. IsFiniteSet(InHand)
        BY FS_EmptySet, FS_Singleton DEF InHand
      <4>2. IsFiniteSet(published)
        <5> DEFINE m == nextPublication - 1
        <5>1. m \in Int /\ First \in Int /\ nextPublication \in Int
          OBVIOUS
        <5>2. IsFiniteSet(First..m) /\ IsFiniteSet(First..nextPublication)
          <6> HIDE DEF m
          <6> QED
            BY <5>1, FS_Interval
        <5> QED
          BY <3>4, <5>2
      <4> QED
        BY <4>1, <4>2, FS_CardinalityType
    <3>14. submitted = Len(workQueue) + Len(resultQueue) + Cardinality(BusyWorkers)
              + Cardinality(InHand) + Cardinality(pending) + Cardinality(published)
      <4> DEFINE h == IF HandHoldsSlot THEN 1 ELSE 0
      <4>1. /\ Cardinality(InHand) + Cardinality(published) = (nextPublication - First) + h
            /\ completed = (nextPublication - First) + Cardinality(pending) + h
            /\ h \in Nat
        BY <3>10, <3>11
      <4>2. /\ submitted = (Frontier - First) + Len(workQueue)
            /\ Frontier - First = Cardinality(BusyWorkers) + Len(resultQueue) + completed
        BY <3>1, <3>12
      <4>3. /\ Cardinality(InHand) \in Nat /\ Cardinality(published) \in Nat
            /\ Cardinality(pending) \in Nat /\ submitted \in Nat
        BY <3>1, <3>12, <3>13
      <4> HIDE DEF h
      <4>4. completed = Cardinality(InHand) + Cardinality(pending) + Cardinality(published)
        BY SMTT(30), <4>1, <4>3
      <4>5. submitted = Len(workQueue) + Len(resultQueue) + Cardinality(BusyWorkers) + completed
        BY SMTT(30), <4>2
      <4> HIDE <2>t
      <4>6. /\ Len(workQueue) \in Nat /\ Len(resultQueue) \in Nat
            /\ Cardinality(BusyWorkers) \in Nat /\ completed \in Nat
        BY <2>t
      <4> QED
        BY SMTT(30), <4>3, <4>4, <4>5, <4>6
    <3> QED
      BY <3>9, <3>14
  <2>2. EachPairInOnePlace
    <3> SUFFICES ASSUME pc \in LoopStates
                 PROVE  LET places == <<Queued, Executing, Reported, InHand, pending, published>>
                        IN /\ First..(Expected - 1) = UNION {places[i] : i \in 1..6}
                           /\ submitted = Len(workQueue) + Len(resultQueue)
                                + Cardinality({w \in Workers : wpc[w] \in {"run", "put"}})
                                + Cardinality(InHand) + Cardinality(pending)
                                + Cardinality(published)
      BY DEF EachPairInOnePlace, LoopStates
    <3> DEFINE places == <<Queued, Executing, Reported, InHand, pending, published>>
    <3>1. UNION {places[i] : i \in 1..6}
             = Queued \cup Executing \cup Reported \cup InHand \cup pending \cup published
      <4>1. 1..6 = {1, 2, 3, 4, 5, 6}
        OBVIOUS
      <4>2. /\ places[1] = Queued /\ places[2] = Executing /\ places[3] = Reported
            /\ places[4] = InHand /\ places[5] = pending /\ places[6] = published
        OBVIOUS
      <4> HIDE DEF places
      <4> QED
        BY <4>1, <4>2
    <3> QED
      BY <2>1, <3>1 DEF BusyWorkers
  <2> QED
    BY <2>0, <2>2 DEF WorkIsAccounted, JoinedBeforeEnd
<1> QED
  BY <1>1, Invariant, PlacesInvariant, PTL
=============================================================================
