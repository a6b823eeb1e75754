--------------------------- MODULE ReplicationLane ---------------------------
(***************************************************************************)
(* The replication lane of one partition and its shutdown                  *)
(* (pkg/controller/replication_queue.go): publishers that take the         *)
(* partition write lock, reserve a slot, append, submit a task and wait;   *)
(* the worker that processes tasks in order and retries them; the          *)
(* best-effort catch-up worker; and close, which refuses new reservations, *)
(* waits for those that were granted, cancels the workers and waits for    *)
(* them.  What a task does to logs and metadata is PartitionReplication;   *)
(* here an attempt succeeds, fails or is fenced.                           *)
(***************************************************************************)
EXTENDS Integers, Sequences, FiniteSets

CONSTANTS
    Publishers,     \* connection goroutines that publish to the partition, one request at a time
    NoPublisher,    \* the target of a task whose result nobody reads
    Capacity        \* slots of the lane, and the capacity of both its queues

ASSUME LaneAssumption == NoPublisher \notin Publishers /\ Capacity \in Nat \ {0}

VARIABLES
    pc,             \* [Publishers -> where the request stands]
    acks,           \* [Publishers -> acks mode of the request]
    answered,       \* [Publishers -> whether the request's result channel holds a result]
    lock,           \* holder of the partition write lock
    slots,          \* slots taken
    submissions,    \* WaitGroup: reservations neither submitted nor released
    queue,          \* tasks submitted
    worker,         \* state of the goroutine run
    task,           \* the task the worker processes
    reported,       \* process has reported an error of the task
    catchup,        \* number of tasks in the catch-up queue
    catchupWorker,  \* state of the goroutine runCatchup
    closer          \* progress of close

vars == <<pc, acks, answered, lock, slots, submissions, queue, worker, task, reported, catchup,
          catchupWorker, closer>>

publisherVars == <<pc, acks, lock, submissions>>
workerVars == <<worker, task, reported>>

PublisherStates == {"idle", "locking", "reserving", "slot", "append", "sending", "submitted", "waiting"}
Tasks == [to : Publishers \cup {NoPublisher}, barrier : BOOLEAN]
NoTask == [to |-> NoPublisher, barrier |-> FALSE]
WorkerStates == {"unborn", "select", "check", "attempt", "backoff", "handover", "free", "drain", "returned"}
CatchupStates == {"unborn", "select", "send", "returned"}
CloserStates == {"open", "closed", "waiting", "cancelled", "returned"}

Closed == closer # "open"                                   \* c.closed
ReservesCancelled == closer \in {"waiting", "cancelled", "returned"}
Cancelled == closer \in {"cancelled", "returned"}           \* c.ctx

Init ==
    /\ pc = [p \in Publishers |-> "idle"]
    /\ acks = [p \in Publishers |-> "1"]
    /\ answered = [p \in Publishers |-> FALSE]
    /\ lock = NoPublisher
    /\ slots = 0 /\ submissions = 0
    /\ queue = <<>>
    /\ worker = "unborn" /\ task = NoTask /\ reported = FALSE
    /\ catchup = 0 /\ catchupWorker = "unborn"
    /\ closer = "open"

-----------------------------------------------------------------------------
(* A publish request.  The write lock is held until the response.          *)

Goto(p, s) == pc' = [pc EXCEPT ![p] = s]

\* The response ends the request: its variables go, the lock is free.
Respond(p) ==
    /\ Goto(p, "idle")
    /\ lock' = NoPublisher
    /\ acks' = [acks EXCEPT ![p] = "1"]
    /\ answered' = [answered EXCEPT ![p] = FALSE]

Request(p, mode) ==
    /\ pc[p] = "idle"
    /\ Goto(p, "locking")
    /\ acks' = [acks EXCEPT ![p] = mode]
    /\ UNCHANGED <<answered, lock, submissions, slots, queue, catchup, catchupWorker, closer, workerVars>>

\* preparePartitionLeaderSnapshot: the lock, and a preparation that may fail.
TakeLock(p) ==
    /\ pc[p] = "locking" /\ lock = NoPublisher
    /\ \/ Goto(p, "reserving") /\ lock' = p /\ UNCHANGED <<acks, answered>>
       \/ Respond(p)
    /\ UNCHANGED <<submissions, slots, queue, catchup, catchupWorker, closer, workerVars>>

\* reserve, under the coordinator's mutex: the first one creates the lane.
Reserve(p) ==
    /\ pc[p] = "reserving"
    /\ IF Closed
       THEN /\ Respond(p)
            /\ UNCHANGED <<submissions, worker, catchupWorker>>
       ELSE /\ Goto(p, "slot")
            /\ submissions' = submissions + 1
            /\ worker' = IF worker = "unborn" THEN "select" ELSE worker
            /\ catchupWorker' = IF catchupWorker = "unborn" THEN "select" ELSE catchupWorker
            /\ UNCHANGED <<lock, acks, answered>>
    /\ UNCHANGED <<slots, queue, task, reported, catchup, closer>>

\* Variant: one slot more than the queue has room for.
TakeSlotOver(p) ==
    /\ pc[p] = "slot" /\ slots <= Capacity
    /\ slots' = slots + 1
    /\ Goto(p, "append")
    /\ UNCHANGED <<acks, answered, lock, submissions, queue, catchup, catchupWorker, closer, workerVars>>

TakeSlot(p) ==
    /\ pc[p] = "slot" /\ slots < Capacity
    /\ slots' = slots + 1
    /\ Goto(p, "append")
    /\ UNCHANGED <<acks, answered, lock, submissions, queue, catchup, catchupWorker, closer, workerVars>>

\* Variant: the failed reservation is not taken off the WaitGroup.
GiveUpSlotLeaks(p) ==
    /\ pc[p] = "slot"
    /\ Respond(p)
    /\ UNCHANGED <<submissions, slots, queue, catchup, catchupWorker, closer, workerVars>>

\* No slot: the coordinator is closing, or the request's context ended.
GiveUpSlot(p) ==
    /\ pc[p] = "slot"
    /\ submissions' = submissions - 1
    /\ Respond(p)
    /\ UNCHANGED <<slots, queue, catchup, catchupWorker, closer, workerVars>>

\* The append fails, or finds a duplicate under acks=1: the reservation is released.
Release(p) ==
    /\ pc[p] = "append"
    /\ slots' = slots - 1
    /\ submissions' = submissions - 1
    /\ Respond(p)
    /\ UNCHANGED <<queue, catchup, catchupWorker, closer, workerVars>>

\* The local append succeeded, or found a duplicate (barrier) under acks=all.
AppendDone(p) ==
    /\ pc[p] = "append"
    /\ Goto(p, "sending")
    /\ UNCHANGED <<acks, answered, lock, submissions, slots, queue, catchup, catchupWorker, closer, workerVars>>

\* submit: the send on the channel, then the WaitGroup's Done.
Enqueue(p, barrier) ==
    /\ pc[p] = "sending" /\ (barrier => acks[p] = "all")
    /\ Len(queue) < Capacity
    /\ queue' = Append(queue, [to |-> IF acks[p] = "all" THEN p ELSE NoPublisher,
                               barrier |-> barrier])
    /\ Goto(p, "submitted")
    /\ UNCHANGED <<acks, answered, lock, submissions, slots, catchup, catchupWorker, closer, workerVars>>

SubmitDone(p) ==
    /\ pc[p] = "submitted"
    /\ submissions' = submissions - 1
    /\ IF acks[p] = "all" THEN Goto(p, "waiting") /\ UNCHANGED <<lock, acks, answered>> ELSE Respond(p)
    /\ UNCHANGED <<slots, queue, catchup, catchupWorker, closer, workerVars>>

\* The request stops reading its result channel; what is sent later is lost.
Detached(t, p) == IF t.to = p THEN [t EXCEPT !.to = NoPublisher] ELSE t

\* The result arrives, or the request's context ends: the task goes on alone.
StopWaiting(p) ==
    /\ pc[p] = "waiting"
    /\ Respond(p)
    /\ queue' = [i \in DOMAIN queue |-> Detached(queue[i], p)]
    /\ task' = Detached(task, p)
    /\ UNCHANGED <<submissions, slots, catchup, catchupWorker, closer, worker, reported>>

PublisherStep(p) ==
    \/ TakeLock(p) \/ Reserve(p) \/ TakeSlot(p) \/ (ReservesCancelled /\ GiveUpSlot(p))
    \/ Release(p) \/ AppendDone(p) \/ (\E barrier \in BOOLEAN : Enqueue(p, barrier))
    \/ SubmitDone(p) \/ (answered[p] /\ StopWaiting(p))

\* What the client may do and need not.
ClientStep(p) ==
    \/ \E mode \in {"1", "all"} : Request(p, mode)
    \/ GiveUpSlot(p)
    \/ StopWaiting(p)

-----------------------------------------------------------------------------
(* The worker.                                                             *)

\* completeReplicationTask: a send that is dropped when the buffer is full.
Complete(t) == answered' = IF t.to \in Publishers THEN [answered EXCEPT ![t.to] = TRUE] ELSE answered

\* Variant: the drain drops tasks without answering them.
CompleteNothing(t) == UNCHANGED answered

CompleteClosed(t) == Complete(t)

WorkerUnchanged == UNCHANGED <<pc, acks, lock, submissions, catchupWorker, closer>>

\* run: the next task.  When the context ended as well, select may still choose it.
WorkerTake ==
    /\ worker = "select" /\ queue # <<>>
    /\ queue' = Tail(queue)
    /\ IF Cancelled
       THEN /\ CompleteClosed(Head(queue))
            /\ slots' = slots - 1
            /\ UNCHANGED workerVars
       ELSE /\ worker' = "check" /\ task' = Head(queue)
            /\ UNCHANGED <<answered, slots, reported>>
    /\ UNCHANGED catchup /\ WorkerUnchanged

WorkerStop ==
    /\ worker = "select" /\ Cancelled
    /\ worker' = "drain"
    /\ UNCHANGED <<answered, slots, queue, task, reported, catchup>> /\ WorkerUnchanged

WorkerDrain ==
    /\ worker = "drain"
    /\ IF queue # <<>>
       THEN /\ CompleteClosed(Head(queue))
            /\ queue' = Tail(queue) /\ slots' = slots - 1
            /\ UNCHANGED worker
       ELSE worker' = "returned" /\ UNCHANGED <<answered, queue, slots>>
    /\ UNCHANGED <<task, reported, catchup>> /\ WorkerUnchanged

\* process: the head of the retry loop looks at the context.
ProcessCheck ==
    /\ worker = "check"
    /\ IF Cancelled THEN worker' = "free" /\ CompleteClosed(task)
                    ELSE worker' = "attempt" /\ UNCHANGED answered
    /\ UNCHANGED <<slots, queue, task, reported, catchup>> /\ WorkerUnchanged

\* The attempt (snapshots, replication, commit) succeeds: a barrier is done, a
\* record goes on to the catch-up queue.
AttemptSucceeds ==
    /\ worker = "attempt"
    /\ Complete(task)
    /\ worker' = IF task.barrier THEN "free" ELSE "handover"
    /\ UNCHANGED <<slots, queue, task, reported, catchup>> /\ WorkerUnchanged

AttemptFenced ==
    /\ worker = "attempt"
    /\ Complete(task)
    /\ worker' = "free"
    /\ UNCHANGED <<slots, queue, task, reported, catchup>> /\ WorkerUnchanged

\* Variant: an error is not reported while the task is retried.
AttemptFailsSilently ==
    /\ worker = "attempt"
    /\ IF Cancelled
       THEN worker' = "free" /\ CompleteClosed(task) /\ UNCHANGED reported
       ELSE worker' = "backoff" /\ UNCHANGED <<answered, reported>>
    /\ UNCHANGED <<slots, queue, task, catchup>> /\ WorkerUnchanged

\* Another error is reported once, under acks=all, and the task is tried again.
AttemptFails ==
    /\ worker = "attempt"
    /\ IF Cancelled
       THEN worker' = "free" /\ CompleteClosed(task) /\ UNCHANGED reported
       ELSE /\ worker' = "backoff" /\ reported' = TRUE
            /\ IF reported THEN UNCHANGED answered ELSE Complete(task)
    /\ UNCHANGED <<slots, queue, task, catchup>> /\ WorkerUnchanged

\* The backoff timer fires, or the context ends.
Backoff ==
    /\ worker = "backoff"
    /\ \/ worker' = "check" /\ UNCHANGED answered
       \/ Cancelled /\ worker' = "free" /\ CompleteClosed(task)
    /\ UNCHANGED <<slots, queue, task, reported, catchup>> /\ WorkerUnchanged

\* Variant: the hand-over does not look at the context.
HandoverBlocks ==
    /\ worker = "handover" /\ catchup < Capacity
    /\ catchup' = catchup + 1
    /\ worker' = "free"
    /\ UNCHANGED <<answered, slots, queue, task, reported>> /\ WorkerUnchanged

\* enqueueCatchup: room in the catch-up queue, or the context ends.
Handover ==
    /\ worker = "handover"
    /\ \/ catchup < Capacity /\ catchup' = catchup + 1
       \/ Cancelled /\ UNCHANGED catchup
    /\ worker' = "free"
    /\ UNCHANGED <<answered, slots, queue, task, reported>> /\ WorkerUnchanged

FreeSlot ==
    /\ worker = "free"
    /\ slots' = slots - 1
    /\ worker' = "select" /\ task' = NoTask /\ reported' = FALSE
    /\ UNCHANGED <<answered, queue, catchup>> /\ WorkerUnchanged

WorkerStep ==
    \/ WorkerTake \/ WorkerStop \/ WorkerDrain \/ ProcessCheck \/ AttemptSucceeds
    \/ AttemptFenced \/ AttemptFails \/ Backoff \/ Handover \/ FreeSlot

-----------------------------------------------------------------------------
(* The catch-up worker and close.                                          *)

CatchupStep ==
    /\ \/ /\ catchupWorker = "select" /\ catchup > 0
          /\ catchupWorker' = "send" /\ catchup' = catchup - 1
       \/ /\ catchupWorker = "send"
          /\ catchupWorker' = "select" /\ UNCHANGED catchup
       \/ /\ catchupWorker = "select" /\ Cancelled
          /\ catchupWorker' = "returned" /\ UNCHANGED catchup
    /\ UNCHANGED <<answered, slots, queue, closer, publisherVars, workerVars>>

CloserMoves(from, to) ==
    /\ closer = from /\ closer' = to
    /\ UNCHANGED <<answered, slots, queue, catchup, catchupWorker, publisherVars, workerVars>>

Close == CloserMoves("open", "closed")
CancelReserves == CloserMoves("closed", "waiting")

\* Variant: the workers are cancelled before the reservations are settled.
CancelEarly == CloserMoves("waiting", "cancelled")

CancelWorkers == submissions = 0 /\ CloserMoves("waiting", "cancelled")

WorkersDone ==
    /\ worker \in {"unborn", "returned"} /\ catchupWorker \in {"unborn", "returned"}
    /\ CloserMoves("cancelled", "returned")

CloserStep == CancelReserves \/ CancelWorkers \/ WorkersDone

-----------------------------------------------------------------------------
Next ==
    \/ \E p \in Publishers : PublisherStep(p) \/ ClientStep(p)
    \/ WorkerStep \/ CatchupStep \/ Close \/ CloserStep

\* Goroutines run: a request that may go on does, appends, attempts and
\* best-effort copies end (every call below them has a time limit), and close,
\* once begun, goes on.  Clients need not publish, cancel or close anything.
Fairness ==
    /\ \A p \in Publishers : WF_vars(PublisherStep(p))
    /\ WF_vars(WorkerStep) /\ WF_vars(CatchupStep) /\ WF_vars(CloserStep)

Spec == Init /\ [][Next]_vars /\ Fairness

-----------------------------------------------------------------------------
(* Properties.                                                             *)

\* The variables keep their types; the counters never fall below zero, and a
\* queue never exceeds its channel's capacity.
TypeOK ==
    /\ pc \in [Publishers -> PublisherStates]
    /\ acks \in [Publishers -> {"1", "all"}]
    /\ answered \in [Publishers -> BOOLEAN]
    /\ lock \in Publishers \cup {NoPublisher}
    /\ slots \in 0..Capacity /\ submissions \in 0..1 /\ catchup \in 0..Capacity
    /\ queue \in Seq(Tasks) /\ Len(queue) <= Capacity
    /\ worker \in WorkerStates /\ task \in Tasks /\ reported \in BOOLEAN
    /\ catchupWorker \in CatchupStates /\ closer \in CloserStates

\* A reservation is a promise: the publisher that holds one, with a record already
\* in its log, never blocks on the queue, so the WaitGroup that close waits on
\* always reaches zero.
SubmitNeverBlocks == \A p \in Publishers : pc[p] = "sending" => Len(queue) < Capacity

\* A publisher that waits without an answer has its task in the queue or at the
\* worker; no path through retries, fences, cancellation and drain loses it.
WaiterHasTask ==
    \A p \in Publishers : pc[p] \in {"submitted", "waiting"} /\ acks[p] = "all" /\ ~answered[p] =>
        task.to = p \/ \E i \in DOMAIN queue : queue[i].to = p

\* When close returns nothing is left: no task, no slot, no reservation, and every
\* publisher that still waits has its answer.
CloseLeavesNothing ==
    closer = "returned" =>
        /\ queue = <<>> /\ slots = 0 /\ submissions = 0
        /\ \A p \in Publishers : pc[p] = "waiting" => answered[p]

\* close returns, although publishers hold reservations, the worker retries a task
\* that keeps failing and the catch-up queue is full.
CloseTerminates == (closer = "closed") ~> (closer = "returned")

\* The publisher whose task has come to the worker, and every publisher once
\* close has begun, stops waiting: errors are reported while the task is retried.
WaitersAnswered ==
    \A p \in Publishers :
        (pc[p] = "waiting" /\ (task.to = p \/ Closed)) ~> (pc[p] # "waiting")

-----------------------------------------------------------------------------
(* The inductive invariant behind the safety properties.                   *)

Holds(p, states) == lock = p /\ p \in Publishers /\ pc[p] \in states
One(condition) == IF condition THEN 1 ELSE 0

\* The lock belongs to the one request between the preparation and its response,
\* and only an acks=all request waits.
LockInv ==
    \A p \in Publishers : /\ lock = p <=> pc[p] \notin {"idle", "locking"}
                          /\ pc[p] = "waiting" => acks[p] = "all"

\* The WaitGroup counts the reservation of the lock's holder, and none is left
\* once the workers are cancelled.
SubmissionInv ==
    /\ submissions = One(Holds(lock, {"slot", "append", "sending", "submitted"}))
    /\ Cancelled => submissions = 0

\* A slot is a queued task, the task at the worker or the holder's reservation.
WorkerBusy == worker \in {"check", "attempt", "backoff", "handover", "free"}
SlotInv == slots = Len(queue) + One(WorkerBusy) + One(Holds(lock, {"append", "sending"}))

\* Only the request that waits for it is the target of a task, and the worker
\* answers it before it lets the task go.
Waits(p) == pc[p] \in {"submitted", "waiting"} /\ acks[p] = "all"
TaskInv ==
    /\ ~WorkerBusy => task = NoTask
    /\ task.to # NoPublisher => Waits(task.to)
    /\ worker \in {"handover", "free"} /\ task.to # NoPublisher => answered[task.to]
    /\ \A i \in DOMAIN queue : queue[i].to # NoPublisher => Waits(queue[i].to)

\* The worker exists before a task does, stops only when it is cancelled, and
\* leaves no task behind.
WorkerInv ==
    /\ worker = "unborn" => queue = <<>> /\ submissions = 0
    /\ worker \in {"drain", "returned"} => Cancelled
    /\ worker = "returned" => queue = <<>>
    /\ closer = "returned" => worker \in {"unborn", "returned"}

LaneInv == LockInv /\ SubmissionInv /\ SlotInv /\ TaskInv /\ WorkerInv /\ WaiterHasTask

=============================================================================
