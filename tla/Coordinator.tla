---------------------------- MODULE Coordinator ----------------------------
(***************************************************************************)
(* The bounded scheduler of srcmove_history/coordinator.py: one            *)
(* coordinating thread (run_pairs_from_sequence) feeds a bounded FIFO work *)
(* queue, worker threads (_worker_loop, _execute_worker_items) execute     *)
(* commit pairs in any order, and the coordinator publishes the outcomes   *)
(* in sequence order.  A semaphore of outcome slots bounds what has been   *)
(* taken by a worker and is not published yet; a stop event ends it all.   *)
(*                                                                         *)
(* Every step below is one interaction with a shared object (a queue, the  *)
(* semaphore, the event) together with the thread-local code around it.    *)
(* The timeouts of the blocking calls only make a thread look at the stop  *)
(* event again, so each of them is the disjunct that reads the event.      *)
(***************************************************************************)
EXTENDS Naturals, Sequences, FiniteSets

CONSTANTS
    Workers,         \* the worker threads
    WorkCapacity,    \* maxsize of the work queue
    OutcomeCapacity, \* outcome slots, and maxsize of the result queue
    First,           \* first_sequence: where the verified prefix ends
    Input,           \* the sequence numbers the work_items iterator yields
    Faults,          \* which collaborators may raise, see FaultKinds
    MaxInterrupts    \* bound on KeyboardInterrupts delivered to the caller

FaultKinds == {"start", "input", "open", "close", "execute", "publish", "acknowledge"}

ASSUME WorkersAssumption == IsFiniteSet(Workers) /\ Workers # {}
ASSUME CapacityAssumption ==
    /\ WorkCapacity \in Nat \ {0}
    /\ OutcomeCapacity \in Nat
    /\ OutcomeCapacity >= Cardinality(Workers)
ASSUME InputAssumption == First \in Nat /\ Input \in Seq(Nat)
ASSUME FaultsAssumption == Faults \subseteq FaultKinds
ASSUME InterruptsAssumption == MaxInterrupts \in Nat

VARIABLES
    workQueue,       \* submitted items no worker has taken, oldest first
    resultQueue,     \* results the coordinator has not taken
    slots,           \* value of the outcome_slots semaphore
    stop,            \* stop_event
    errors,          \* how many errors wait in orchestration_errors
    wpc,             \* where each worker thread is
    item,            \* the item a worker holds (meaningful in run and put)
    sound,           \* whether the execution in "put" yielded an outcome
    pc,              \* where the coordinating thread is
    hand,            \* the result or outcome the coordinator is handling
    pending,         \* outcomes that wait for an earlier one
    exhausted,       \* input_exhausted
    submitted,       \* submitted_count
    completed,       \* completed_count
    nextPublication, \* next_publication
    failure,         \* what run_pairs is about to raise
    interrupts,      \* KeyboardInterrupts delivered so far
    published,       \* history: sequences whose publish_pair returned
    acknowledged,    \* history: sequences whose acknowledge_pair returned
    lost             \* history: slots an interrupt kept from being released

workerVars == <<wpc, item, sound>>
queueVars  == <<workQueue, resultQueue, slots, stop, errors>>
inputVars  == <<exhausted, submitted>>
outputVars == <<completed, pending, nextPublication, published, acknowledged>>
vars == <<workerVars, queueVars, inputVars, outputVars, pc, hand, failure,
          interrupts, lost>>

WorkerStates == {"new", "open", "slot", "get", "run", "put", "close",
                 "failing", "reporting", "done"}
CoordinatorStates == {"check", "start", "poll", "fill", "await", "taken",
                      "publish", "publishing", "acknowledging", "except",
                      "cleanup", "drain", "returned", "raised", "escaped"}
Ended == {"returned", "raised", "escaped"}
Failures == {"none", "order", "orchestration", "worker", "publish",
             "acknowledge", "interrupt"}

Result == [seq : Nat, ok : BOOLEAN]
Nothing == [seq |-> 0, ok |-> FALSE]   \* hand when nothing is being handled

\* The expected_submission counter: it always moves with submitted_count.
Expected == First + submitted

\* Slots a worker owns, from its acquire to its put or its release.
SlotHolders == {w \in Workers : wpc[w] \in {"get", "run", "put"}}

\* The result being handled still owns the slot its worker handed over.
HandHoldsSlot == pc \in {"taken", "publishing", "acknowledging"}

Init ==
    /\ workQueue = <<>> /\ resultQueue = <<>>
    /\ slots = OutcomeCapacity /\ stop = FALSE /\ errors = 0
    /\ wpc = [w \in Workers |-> "new"]
    /\ item = [w \in Workers |-> First]
    /\ sound = [w \in Workers |-> FALSE]
    /\ pc = "check" /\ hand = Nothing /\ pending = {}
    /\ exhausted = FALSE /\ submitted = 0 /\ completed = 0
    /\ nextPublication = First
    /\ failure = "none" /\ interrupts = 0
    /\ published = {} /\ acknowledged = {} /\ lost = 0

\* An exception inside the try block: control goes to the except clause.
Raise(why) == pc' = "except" /\ failure' = why

\* The condition of the loop that submits work.
Filling == pc = "fill" /\ ~exhausted /\ ~stop

\* A worker thread goes from one of its states to another.
Move(w, from, to) == wpc[w] = from /\ wpc' = [wpc EXCEPT ![w] = to]

-----------------------------------------------------------------------------
(* Faulty variants of some of the steps below, one edit of the code each,   *)
(* and the property that rejects them.  No step uses them.                  *)

\* pending[next_publication] instead of pending.pop: WorkIsAccounted.
BeginWithoutPop ==
    /\ pc = "publish" /\ nextPublication \in pending
    /\ hand' = [seq |-> nextPublication, ok |-> TRUE]
    /\ pc' = "publishing"
    /\ UNCHANGED <<workerVars, queueVars, inputVars, outputVars, failure,
                   interrupts, lost>>

\* Outcomes are published as they arrive: ImplementsOrderedPublication.
BeginAsTheyArrive ==
    /\ pc = "publish"
    /\ \E s \in pending :
          /\ hand' = [seq |-> s, ok |-> TRUE]
          /\ pending' = pending \ {s}
    /\ pc' = "publishing"
    /\ UNCHANGED <<workerVars, queueVars, inputVars, completed, nextPublication,
                   published, acknowledged, failure, interrupts, lost>>

\* A stack instead of a queue: HeadOfLine.
TakeNewest(w) ==
    /\ Move(w, "get", "run")
    /\ workQueue # <<>>
    /\ item' = [item EXCEPT ![w] = workQueue[Len(workQueue)]]
    /\ workQueue' = SubSeq(workQueue, 1, Len(workQueue) - 1)
    /\ UNCHANGED <<sound, resultQueue, slots, stop, errors>>

\* No finally around publish_pair: SlotsMakeRoom.
PublicationFailsWithSlot ==
    /\ \/ pc = "publishing" /\ "publish" \in Faults /\ Raise("publish")
       \/ pc = "acknowledging" /\ "acknowledge" \in Faults /\ Raise("acknowledge")
    /\ hand' = Nothing
    /\ UNCHANGED <<workerVars, queueVars, inputVars, outputVars, interrupts, lost>>

\* The error queue is not looked at after the join: ReturnIsComplete.
EndRunForgetsErrors ==
    /\ pc = "drain" /\ resultQueue = <<>>
    /\ \A w \in Workers : wpc[w] = "done"
    /\ pc' = IF failure = "none" THEN "returned" ELSE "raised"
    /\ UNCHANGED <<workerVars, queueVars, inputVars, outputVars, hand, failure,
                   interrupts, lost>>

\* acquired_slot stays set after the put, so finally releases the slot that
\* the result still owns: SlotsMakeRoom.
PutReleasesSlot(w) ==
    /\ Move(w, "put", "slot")
    /\ Len(resultQueue) < OutcomeCapacity
    /\ resultQueue' = Append(resultQueue, [seq |-> item[w], ok |-> sound[w]])
    /\ slots' = slots + 1
    /\ UNCHANGED <<item, sound, workQueue, stop, errors>>

\* A result queue of one, smaller than the number of slots: CallEnds.
PutIntoOne(w) ==
    /\ Move(w, "put", "slot")
    /\ Len(resultQueue) < 1
    /\ resultQueue' = Append(resultQueue, [seq |-> item[w], ok |-> sound[w]])
    /\ UNCHANGED <<item, sound, workQueue, slots, stop, errors>>

-----------------------------------------------------------------------------
(* The coordinating thread before its try block: the first item is looked   *)
(* at, then the threads are started one by one.  Nothing catches a failed   *)
(* start or an interrupt here.                                              *)

CheckFirst ==
    /\ pc = "check"
    /\ CASE Input = <<>> -> pc' = "returned" /\ UNCHANGED failure
         [] Input # <<>> /\ Input[1] # First -> pc' = "raised" /\ failure' = "order"
         [] OTHER -> pc' = "start" /\ UNCHANGED failure
    /\ UNCHANGED <<workerVars, queueVars, inputVars, outputVars, hand,
                   interrupts, lost>>

StartWorker(w) ==
    /\ pc = "start" /\ wpc[w] = "new"
    /\ wpc' = [wpc EXCEPT ![w] = "open"]
    /\ UNCHANGED <<item, sound, queueVars, inputVars, outputVars, pc, hand,
                   failure, interrupts, lost>>

StartFails ==
    /\ pc = "start" /\ "start" \in Faults
    /\ \E w \in Workers : wpc[w] = "new"
    /\ pc' = "escaped"
    /\ UNCHANGED <<workerVars, queueVars, inputVars, outputVars, hand, failure,
                   interrupts, lost>>

AllStarted ==
    /\ pc = "start" /\ \A w \in Workers : wpc[w] # "new"
    /\ pc' = "poll"
    /\ UNCHANGED <<workerVars, queueVars, inputVars, outputVars, hand, failure,
                   interrupts, lost>>

-----------------------------------------------------------------------------
(* The scheduling loop.                                                     *)

PollErrors ==
    /\ pc = "poll"
    /\ IF errors > 0 THEN errors' = errors - 1 /\ Raise("orchestration")
                     ELSE pc' = "fill" /\ UNCHANGED <<errors, failure>>
    /\ UNCHANGED <<workerVars, workQueue, resultQueue, slots, stop, inputVars,
                   outputVars, hand, interrupts, lost>>

InputEnds ==
    /\ Filling /\ submitted = Len(Input)
    /\ exhausted' = TRUE /\ pc' = "await"
    /\ UNCHANGED <<workerVars, queueVars, submitted, outputVars, hand, failure,
                   interrupts, lost>>

\* The iterator yields another sequence than the expected one.
OutOfOrder ==
    /\ Filling /\ submitted < Len(Input)
    /\ Input[submitted + 1] # Expected \/ "input" \in Faults
    /\ Raise("order")
    /\ UNCHANGED <<workerVars, queueVars, inputVars, outputVars, hand,
                   interrupts, lost>>

Submit ==
    /\ Filling /\ submitted < Len(Input) /\ Input[submitted + 1] = Expected
    /\ Len(workQueue) < WorkCapacity
    /\ workQueue' = Append(workQueue, Input[submitted + 1])
    /\ submitted' = submitted + 1
    /\ UNCHANGED <<workerVars, resultQueue, slots, stop, errors, exhausted,
                   outputVars, pc, hand, failure, interrupts, lost>>

StopFilling ==
    /\ pc = "fill"
    /\ \/ exhausted
       \/ stop
       \/ /\ submitted < Len(Input) /\ Input[submitted + 1] = Expected
          /\ Len(workQueue) >= WorkCapacity
    /\ pc' = "await"
    /\ UNCHANGED <<workerVars, queueVars, inputVars, outputVars, hand, failure,
                   interrupts, lost>>

AllComplete == exhausted /\ completed = submitted /\ pending = {}

Finish ==
    /\ pc = "await" /\ AllComplete
    /\ pc' = "cleanup"
    /\ UNCHANGED <<workerVars, queueVars, inputVars, outputVars, hand, failure,
                   interrupts, lost>>

TakeResult ==
    /\ pc = "await" /\ ~AllComplete /\ resultQueue # <<>>
    /\ hand' = Head(resultQueue) /\ resultQueue' = Tail(resultQueue)
    /\ completed' = completed + 1
    /\ pc' = "taken"
    /\ UNCHANGED <<workerVars, workQueue, slots, stop, errors, inputVars,
                   pending, nextPublication, published, acknowledged, failure,
                   interrupts, lost>>

AwaitTimeout ==
    /\ pc = "await" /\ ~AllComplete /\ resultQueue = <<>>
    /\ pc' = "poll"
    /\ UNCHANGED <<workerVars, queueVars, inputVars, outputVars, hand, failure,
                   interrupts, lost>>

HandleResult ==
    /\ pc = "taken"
    /\ IF hand.ok
         THEN /\ pending' = pending \cup {hand.seq}
              /\ pc' = "publish" /\ UNCHANGED <<slots, failure>>
         ELSE /\ slots' = slots + 1 /\ Raise("worker")
              /\ UNCHANGED pending
    /\ hand' = Nothing
    /\ UNCHANGED <<workerVars, workQueue, resultQueue, stop, errors, inputVars,
                   completed, nextPublication, published, acknowledged,
                   interrupts, lost>>

BeginPublication ==
    /\ pc = "publish" /\ nextPublication \in pending
    /\ hand' = [seq |-> nextPublication, ok |-> TRUE]
    /\ pending' = pending \ {nextPublication}
    /\ pc' = "publishing"
    /\ UNCHANGED <<workerVars, queueVars, inputVars, completed, nextPublication,
                   published, acknowledged, failure, interrupts, lost>>

NothingToPublish ==
    /\ pc = "publish" /\ nextPublication \notin pending
    /\ pc' = "poll"
    /\ UNCHANGED <<workerVars, queueVars, inputVars, outputVars, hand, failure,
                   interrupts, lost>>

PublishPair ==
    /\ pc = "publishing"
    /\ published' = published \cup {hand.seq}
    /\ pc' = "acknowledging"
    /\ UNCHANGED <<workerVars, queueVars, inputVars, completed, pending,
                   nextPublication, acknowledged, hand, failure, interrupts,
                   lost>>

AcknowledgePair ==
    /\ pc = "acknowledging"
    /\ acknowledged' = acknowledged \cup {hand.seq}
    /\ slots' = slots + 1 /\ hand' = Nothing
    /\ nextPublication' = nextPublication + 1
    /\ pc' = "publish"
    /\ UNCHANGED <<workerVars, workQueue, resultQueue, stop, errors, inputVars,
                   completed, pending, published, failure, interrupts, lost>>

\* publish_pair or acknowledge_pair raised: the inner finally gives the slot
\* back, next_publication stays where it is.
PublicationFails ==
    /\ \/ pc = "publishing" /\ "publish" \in Faults /\ Raise("publish")
       \/ pc = "acknowledging" /\ "acknowledge" \in Faults /\ Raise("acknowledge")
    /\ slots' = slots + 1 /\ hand' = Nothing
    /\ UNCHANGED <<workerVars, workQueue, resultQueue, stop, errors, inputVars,
                   outputVars, interrupts, lost>>

-----------------------------------------------------------------------------
(* The except and finally clauses of the scheduling loop, _drain_and_join,  *)
(* and the end of the call.                                                 *)

HandleFailure ==
    /\ pc = "except"
    /\ stop' = TRUE /\ pc' = "cleanup"
    /\ UNCHANGED <<workerVars, workQueue, resultQueue, slots, errors, inputVars,
                   outputVars, hand, failure, interrupts, lost>>

Cleanup ==
    /\ pc = "cleanup"
    /\ stop' = TRUE
    /\ slots' = slots + Cardinality(pending) /\ pending' = {}
    /\ pc' = "drain"
    /\ UNCHANGED <<workerVars, workQueue, resultQueue, errors, inputVars,
                   completed, nextPublication, published, acknowledged, hand,
                   failure, interrupts, lost>>

DrainResult ==
    /\ pc = "drain" /\ resultQueue # <<>>
    /\ resultQueue' = Tail(resultQueue) /\ slots' = slots + 1
    /\ UNCHANGED <<workerVars, workQueue, stop, errors, inputVars, outputVars,
                   pc, hand, failure, interrupts, lost>>

\* Every worker has been joined: an orchestration error is looked for only
\* now, and only when nothing else failed.
EndRun ==
    /\ pc = "drain" /\ resultQueue = <<>>
    /\ \A w \in Workers : wpc[w] = "done"
    /\ IF failure = "none" /\ errors > 0
         THEN failure' = "orchestration" /\ errors' = errors - 1
         ELSE UNCHANGED <<failure, errors>>
    /\ pc' = IF failure' = "none" THEN "returned" ELSE "raised"
    /\ UNCHANGED <<workerVars, workQueue, resultQueue, slots, stop, inputVars,
                   outputVars, hand, interrupts, lost>>

-----------------------------------------------------------------------------
(* KeyboardInterrupt, raised in the coordinating thread between any two of  *)
(* its steps.  Inside the try block it is one more failure; a second one,   *)
(* while the first is being handled, leaves the call at once.               *)

InterruptLoop ==
    /\ pc \in {"poll", "fill", "await", "publish", "taken", "publishing",
               "acknowledging"}
    /\ Raise("interrupt")
    /\ hand' = Nothing
    /\ \/ ~HandHoldsSlot /\ UNCHANGED <<slots, lost>>
       \/ HandHoldsSlot /\ lost' = lost + 1 /\ UNCHANGED slots
       \/ HandHoldsSlot /\ pc # "taken" /\ slots' = slots + 1 /\ UNCHANGED lost

InterruptHandler ==
    /\ \/ pc = "except" /\ pc' = "cleanup"
       \/ pc \in {"start", "cleanup", "drain"} /\ pc' = "escaped"
    /\ UNCHANGED <<slots, lost, failure, hand>>

Interrupt ==
    /\ interrupts < MaxInterrupts
    /\ interrupts' = interrupts + 1
    /\ InterruptLoop \/ InterruptHandler
    /\ UNCHANGED <<workerVars, workQueue, resultQueue, stop, errors, inputVars,
                   outputVars>>

-----------------------------------------------------------------------------
(* The worker threads.                                                      *)

OpenWorker(w) ==
    /\ \/ Move(w, "open", "slot")
       \/ "open" \in Faults /\ Move(w, "open", "failing")
    /\ UNCHANGED <<item, sound, queueVars>>

AcquireSlot(w) ==
    /\ Move(w, "slot", "get")
    /\ slots > 0 /\ slots' = slots - 1
    /\ UNCHANGED <<item, sound, workQueue, resultQueue, stop, errors>>

LeaveWithoutSlot(w) ==
    /\ Move(w, "slot", "close")
    /\ stop
    /\ UNCHANGED <<item, sound, queueVars>>

TakeItem(w) ==
    /\ Move(w, "get", "run")
    /\ workQueue # <<>>
    /\ item' = [item EXCEPT ![w] = Head(workQueue)]
    /\ workQueue' = Tail(workQueue)
    /\ UNCHANGED <<sound, resultQueue, slots, stop, errors>>

LeaveWithoutItem(w) ==
    /\ Move(w, "get", "close")
    /\ stop
    /\ slots' = slots + 1
    /\ UNCHANGED <<item, sound, workQueue, resultQueue, stop, errors>>

\* Whatever the executor raises becomes an error result.
ExecutePair(w) ==
    /\ Move(w, "run", "put")
    /\ \E ok \in IF "execute" \in Faults THEN BOOLEAN ELSE {TRUE} :
          sound' = [sound EXCEPT ![w] = ok]
    /\ UNCHANGED <<item, queueVars>>

\* The put passes the worker's slot on to the result.
PutResult(w) ==
    /\ Move(w, "put", "slot")
    /\ Len(resultQueue) < OutcomeCapacity
    /\ resultQueue' = Append(resultQueue, [seq |-> item[w], ok |-> sound[w]])
    /\ UNCHANGED <<item, sound, workQueue, slots, stop, errors>>

CloseWorker(w) ==
    /\ \/ Move(w, "close", "done")
       \/ "close" \in Faults /\ Move(w, "close", "failing")
    /\ UNCHANGED <<item, sound, queueVars>>

\* An exception outside the executor: first the event, then the error queue.
SignalFailure(w) ==
    /\ Move(w, "failing", "reporting")
    /\ stop' = TRUE
    /\ UNCHANGED <<item, sound, workQueue, resultQueue, slots, errors>>

ReportFailure(w) ==
    /\ Move(w, "reporting", "done")
    /\ errors' = errors + 1
    /\ UNCHANGED <<item, sound, workQueue, resultQueue, slots, stop>>

WorkerStep(w) ==
    /\ \/ OpenWorker(w) \/ AcquireSlot(w) \/ LeaveWithoutSlot(w)
       \/ TakeItem(w) \/ LeaveWithoutItem(w) \/ ExecutePair(w) \/ PutResult(w)
       \/ CloseWorker(w) \/ SignalFailure(w) \/ ReportFailure(w)
    /\ UNCHANGED <<inputVars, outputVars, pc, hand, failure, interrupts, lost>>

CoordinatorStep ==
    \/ CheckFirst \/ (\E w \in Workers : StartWorker(w)) \/ StartFails
    \/ AllStarted \/ PollErrors \/ InputEnds \/ OutOfOrder \/ Submit
    \/ StopFilling \/ Finish \/ TakeResult \/ AwaitTimeout \/ HandleResult
    \/ BeginPublication \/ NothingToPublish \/ PublishPair \/ AcknowledgePair
    \/ PublicationFails \/ HandleFailure \/ Cleanup \/ DrainResult \/ EndRun

\* The call is over and no thread of it is left: the one way to stop.
Terminated ==
    /\ pc \in Ended
    /\ \A w \in Workers : wpc[w] \in {"new", "done"}
    /\ UNCHANGED vars

Next == CoordinatorStep \/ Interrupt \/ (\E w \in Workers : WorkerStep(w))
        \/ Terminated

\* Every thread the operating system runs keeps running: the coordinator's
\* and the workers' calls all return (the executor's child processes have
\* timeouts), and no step of a thread that stays enabled waits for ever.
Fairness == /\ WF_vars(CoordinatorStep)
            /\ \A w \in Workers : WF_vars(WorkerStep(w))

Spec == Init /\ [][Next]_vars /\ Fairness

-----------------------------------------------------------------------------
(* Properties                                                               *)

\* Every variable keeps its type, and the two bounded queues their bounds.
TypeOK ==
    /\ workQueue \in Seq(Nat) /\ Len(workQueue) <= WorkCapacity
    /\ resultQueue \in Seq(Result) /\ Len(resultQueue) <= OutcomeCapacity
    /\ slots \in Nat /\ stop \in BOOLEAN /\ errors \in Nat
    /\ wpc \in [Workers -> WorkerStates]
    /\ item \in [Workers -> Nat] /\ sound \in [Workers -> BOOLEAN]
    /\ pc \in CoordinatorStates /\ hand \in Result
    /\ pending \subseteq Nat /\ IsFiniteSet(pending)
    /\ exhausted \in BOOLEAN
    /\ submitted \in Nat /\ completed \in Nat /\ nextPublication \in Nat
    /\ failure \in Failures /\ interrupts \in Nat /\ lost \in Nat
    /\ published \subseteq Nat /\ acknowledged \subseteq Nat

\* Outcome slots are conserved (outcome_slots.acquire and every release): a
\* slot is free, or owned by exactly one worker, queued result, parked
\* outcome or outcome in hand, or was dropped by an interrupt that is ending
\* the call.  A release too many would let more outcomes pile up than
\* outcome_capacity, one too few would starve the workers.
SlotConservation ==
    slots + Cardinality(SlotHolders) + Len(resultQueue) + Cardinality(pending)
      + (IF HandHoldsSlot THEN 1 ELSE 0) + lost = OutcomeCapacity

\* A worker that has a result to hand over always finds room for it, although
\* the put loop of _execute_worker_items never looks at the stop event: this
\* is what lets the workers end when nobody drains the result queue any more.
RoomForResults ==
    \A w \in Workers : wpc[w] = "put" => Len(resultQueue) < OutcomeCapacity

\* The slots are the room that the queues and the workers need.
SlotsMakeRoom == TypeOK /\ SlotConservation /\ RoomForResults

\* The places a submitted sequence can be in.
Queued    == {workQueue[i] : i \in DOMAIN workQueue}
Executing == {item[w] : w \in {v \in Workers : wpc[v] \in {"run", "put"}}}
Reported  == {resultQueue[i].seq : i \in DOMAIN resultQueue}
InHand    == IF HandHoldsSlot /\ pc # "acknowledging" THEN {hand.seq} ELSE {}

\* While the scheduling loop runs, every submitted pair is in exactly one
\* place, from the work queue over a worker, the result queue and the pending
\* dictionary to the published prefix: none is lost, duplicated or executed
\* by two workers.
EachPairInOnePlace ==
    pc \in {"poll", "fill", "await", "taken", "publish", "publishing",
            "acknowledging"} =>
        LET places == <<Queued, Executing, Reported, InHand, pending, published>>
        IN /\ First..(Expected - 1) = UNION {places[i] : i \in 1..6}
           /\ submitted = Len(workQueue) + Len(resultQueue)
                + Cardinality({w \in Workers : wpc[w] \in {"run", "put"}})
                + Cardinality(InHand) + Cardinality(pending)
                + Cardinality(published)

\* A call that returns or raises what its loop met has joined its workers; only
\* an exception outside the loop and its cleanup ("escaped") gets past the join.
WorkIsAccounted ==
    /\ EachPairInOnePlace
    /\ pc \in {"returned", "raised"} => \A w \in Workers : wpc[w] \in {"new", "done"}

\* The next outcome to publish is never behind others: as long as its pair
\* waits in the work queue nothing later has been taken, so the outcomes that
\* hold all the slots can never be waiting for a pair nobody may take.
HeadOfLine ==
    nextPublication \in Queued =>
        \A s \in Executing \cup Reported \cup InHand \cup pending :
            s < nextPublication

\* The publication order is the sequence order, and inputs are handed back
\* (acknowledge_pair, run_pairs' docstring) only for published outcomes: all of
\* them except possibly the last.
PublishedInOrder ==
    /\ \A s \in published : First..s \subseteq published
    /\ acknowledged \subseteq published
    /\ \A s \in published \ acknowledged : \A t \in published : t <= s

\* A normal return means the whole input is published and acknowledged, every
\* worker thread has ended, and no worker's failure was left unreported: the
\* errors a worker reports after the loop ended are found because EndRun looks
\* for them after the join.
ReturnIsComplete ==
    pc = "returned" =>
        /\ acknowledged = First..(First + Len(Input) - 1)
        /\ errors = 0
        /\ \A w \in Workers : wpc[w] \in {"new", "done"}

-----------------------------------------------------------------------------
(* The inductive invariant behind the safety properties (CoordinatorProofs).*)

BusyWorkers == {w \in Workers : wpc[w] \in {"run", "put"}}
LoopStates  == {"poll", "fill", "await", "taken", "publish", "publishing",
                "acknowledging"}

\* The first sequence no worker has taken yet.
Frontier == Expected - Len(workQueue)

\* The work queue holds exactly the sequences from Frontier on, in order.
QueueContiguous ==
    /\ Len(workQueue) <= submitted
    /\ \A i \in 1..Len(workQueue) : workQueue[i] = Frontier + i - 1

\* Everything taken from it is below Frontier, and in one place only.
TakenBelowFrontier ==
    /\ \A w \in BusyWorkers : item[w] < Frontier
    /\ \A i \in 1..Len(resultQueue) : resultQueue[i].seq < Frontier
    /\ \A s \in pending : s < Frontier
    /\ HandHoldsSlot => hand.seq < Frontier

TakenDistinct ==
    /\ \A v, w \in BusyWorkers : v # w => item[v] # item[w]
    /\ \A w \in BusyWorkers : \A i \in 1..Len(resultQueue) :
          item[w] # resultQueue[i].seq
    /\ \A w \in BusyWorkers : item[w] \notin pending
    /\ \A i, j \in 1..Len(resultQueue) :
          i # j => resultQueue[i].seq # resultQueue[j].seq
    /\ \A i \in 1..Len(resultQueue) : resultQueue[i].seq \notin pending

HandDistinct ==
    HandHoldsSlot =>
        /\ \A w \in BusyWorkers : item[w] # hand.seq
        /\ \A i \in 1..Len(resultQueue) : resultQueue[i].seq # hand.seq
        /\ hand.seq \notin pending

\* What is published and acknowledged is determined by next_publication.
PublicationFrontier ==
    /\ nextPublication >= First
    /\ acknowledged = First..(nextPublication - 1)
    /\ \/ published = acknowledged
       \/ published = acknowledged \cup {nextPublication}
    /\ pc \in {"check", "start"} \cup (LoopStates \ {"acknowledging"})
          => published = acknowledged
    /\ pc = "publishing" => hand.seq = nextPublication
    /\ pc = "acknowledging" => /\ hand.seq = nextPublication
                               /\ published = acknowledged \cup {nextPublication}

\* completed_count counts what is published, in hand or pending; failure is
\* set exactly when the loop was left by an exception.
CompletionCounted ==
    /\ submitted <= Len(Input)
    /\ exhausted => submitted = Len(Input)
    /\ pc \in {"check", "start"} \cup LoopStates =>
          /\ failure = "none"
          /\ completed = (nextPublication - First) + Cardinality(pending)
                           + (IF HandHoldsSlot THEN 1 ELSE 0)
    /\ pc = "except" => failure # "none"
    /\ pc \in {"cleanup", "drain"} /\ failure = "none" =>
          /\ acknowledged = First..(First + Len(Input) - 1)
          /\ published = acknowledged
    /\ pc = "check" => /\ nextPublication = First /\ errors = 0
                       /\ \A w \in Workers : wpc[w] = "new"
    /\ pc = "returned" => published = acknowledged

IInv == /\ TypeOK /\ QueueContiguous /\ TakenBelowFrontier /\ TakenDistinct
        /\ HandDistinct /\ SlotConservation /\ PublicationFrontier
        /\ CompletionCounted /\ ReturnIsComplete

-----------------------------------------------------------------------------
(* Liveness, refinement, and what the documents promise.                    *)

\* The call always ends, whatever fails and whenever it is interrupted.
RunEnds == <>(pc \in Ended)

\* Once the stop event is set all the started threads end, even when an
\* interrupt made the coordinator leave without draining the result queue.
StopEndsWorkers == stop ~> \A w \in Workers : wpc[w] \in {"new", "done"}

\* The call implements the ordered publication its callers rely on.
Abstract == INSTANCE OrderedPublication WITH
    Total <- Len(Input),
    verdict <- CASE pc = "returned" -> "returned"
                 [] pc \in {"raised", "escaped"} -> "failed"
                 [] OTHER -> "running"
ImplementsOrderedPublication == Abstract!Spec

\* The call ends, and the threads that are told to stop end too.
CallEnds == RunEnds /\ StopEndsWorkers

\* docs/runtime.md, "Concurrency and recovery": the operation's lock is held
\* "for its entire lifetime, including worker execution".  The code breaks both
\* of these, which is why no run checks them (README, known divergences): an
\* interrupt during the starts or a second one during the cleanup leaves workers
\* behind, and after a failed start nobody ever sets the stop event.
NoWorkerOutlivesCall ==
    pc \in Ended => \A w \in Workers : wpc[w] \in {"new", "done"}
EndedCallEndsWorkers ==
    pc \in Ended ~> \A w \in Workers : wpc[w] \in {"new", "done"}
=============================================================================
