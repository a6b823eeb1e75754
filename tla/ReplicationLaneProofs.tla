------------------------ MODULE ReplicationLaneProofs ------------------------
(***************************************************************************)
(* Safety of ReplicationLane for any set of publishers and any capacity:   *)
(* slots and reservations are counted exactly, no waiting publisher loses  *)
(* its task, and close leaves nothing behind.                              *)
(***************************************************************************)
EXTENDS ReplicationLane, SequenceTheorems, TLAPS

-----------------------------------------------------------------------------
(* Facts about a state.                                                    *)

\* The queue is a sequence of tasks, and so is what is left of it when its head is
\* taken; targets are publishers or nobody.
LEMMA QueueType ==
    ASSUME TypeOK
    PROVE  /\ Len(queue) \in Nat /\ DOMAIN queue = 1..Len(queue)
           /\ \A i \in DOMAIN queue : queue[i] \in Tasks /\ queue[i].to \in Publishers \cup {NoPublisher}
           /\ task \in Tasks /\ task.to \in Publishers \cup {NoPublisher}
<1>1. queue \in Seq(Tasks) /\ task \in Tasks
  BY DEF TypeOK
<1>2. Len(queue) \in Nat /\ DOMAIN queue = 1..Len(queue)
  BY <1>1, LenProperties
<1>3. \A i \in DOMAIN queue : queue[i] \in Tasks
  BY <1>1, <1>2, ElementOfSeq
<1>4. \A t \in Tasks : t.to \in Publishers \cup {NoPublisher}
  BY DEF Tasks
<1>5. QED
  BY <1>1, <1>2, <1>3, <1>4

\* The head of a nonempty queue, and the rest of it.
LEMMA QueueTail ==
    ASSUME TypeOK, queue # <<>>
    PROVE  /\ Head(queue) = queue[1] /\ Head(queue) \in Tasks /\ 1 \in DOMAIN queue
           /\ Head(queue).to \in Publishers \cup {NoPublisher}
           /\ Tail(queue) \in Seq(Tasks)
           /\ Len(Tail(queue)) = Len(queue) - 1
           /\ DOMAIN Tail(queue) = 1..(Len(queue) - 1)
           /\ \A i \in DOMAIN Tail(queue) : Tail(queue)[i] = queue[i + 1]
<1>1. queue \in Seq(Tasks)
  BY DEF TypeOK
<1>2. Len(queue) \in Nat /\ Len(queue) > 0
  BY <1>1, EmptySeq
<1>3. /\ Head(queue) = queue[1]
      /\ Tail(queue) \in Seq(Tasks) /\ Len(Tail(queue)) = Len(queue) - 1
      /\ \A i \in 1..(Len(queue) - 1) : Tail(queue)[i] = queue[i + 1]
  BY <1>1, <1>2, HeadTailProperties
<1>4. DOMAIN Tail(queue) = 1..(Len(queue) - 1)
  BY <1>3, LenProperties
<1>5. QED
  BY <1>2, <1>3, <1>4, QueueType

\* What the counters say about the request that holds the lock.
LEMMA HolderCount ==
    ASSUME TypeOK, LaneInv, NEW p \in Publishers, pc[p] \notin {"idle", "locking"}
    PROVE  /\ lock = p /\ p # NoPublisher
           /\ submissions = One(pc[p] \in {"slot", "append", "sending", "submitted"})
           /\ slots = Len(queue) + One(WorkerBusy) + One(pc[p] \in {"append", "sending"})
<1>1. lock = p /\ p # NoPublisher
  BY LaneAssumption DEF LaneInv, LockInv
<1>2. QED
  BY <1>1 DEF LaneInv, SubmissionInv, SlotInv, Holds, One

\* What they say about the task at the worker and the queued ones.
LEMMA WorkerCount ==
    ASSUME TypeOK, LaneInv
    PROVE  slots >= Len(queue) + One(WorkerBusy) /\ One(WorkerBusy) \in {0, 1}
<1>1. One(WorkerBusy) \in {0, 1} /\ One(Holds(lock, {"append", "sending"})) \in {0, 1}
  BY DEF One
<1>2. slots = Len(queue) + One(WorkerBusy) + One(Holds(lock, {"append", "sending"}))
  BY DEF LaneInv, SlotInv
<1>3. QED
  BY <1>1, <1>2, QueueType

-----------------------------------------------------------------------------
(* The initial state and every action.                                     *)

\* Nothing has happened yet: no request, no reservation, no task, no worker.
LEMMA InitLane == Init => TypeOK /\ LaneInv
<1> SUFFICES ASSUME Init PROVE TypeOK /\ LaneInv
  OBVIOUS
<1>1. TypeOK
  <2>1. NoTask \in Tasks
    BY DEF NoTask, Tasks
  <2>2. queue \in Seq(Tasks) /\ Len(queue) = 0
    BY DEF Init
  <2>3. slots \in 0..Capacity /\ submissions \in 0..1 /\ catchup \in 0..Capacity /\ Len(queue) <= Capacity
    BY <2>2, LaneAssumption DEF Init
  <2>4. /\ pc \in [Publishers -> PublisherStates] /\ acks \in [Publishers -> {"1", "all"}]
        /\ answered \in [Publishers -> BOOLEAN] /\ lock \in Publishers \cup {NoPublisher}
    BY DEF Init, PublisherStates
  <2>5. /\ worker \in WorkerStates /\ task \in Tasks /\ reported \in BOOLEAN
        /\ catchupWorker \in CatchupStates /\ closer \in CloserStates
    BY <2>1 DEF Init, WorkerStates, CatchupStates, CloserStates
  <2>6. QED
    BY <2>2, <2>3, <2>4, <2>5 DEF TypeOK
<1>2. LockInv /\ SubmissionInv /\ SlotInv
  BY LaneAssumption DEF Init, LockInv, SubmissionInv, SlotInv, Holds, One, WorkerBusy, Cancelled
<1>3. TaskInv /\ WorkerInv /\ WaiterHasTask
  BY LaneAssumption DEF Init, TaskInv, WorkerInv, WaiterHasTask, WorkerBusy, NoTask, Cancelled, Waits
<1>4. QED
  BY <1>1, <1>2, <1>3 DEF LaneInv

\* A request starts without lock, reservation or task.
LEMMA RequestInv ==
    ASSUME TypeOK, LaneInv, NEW p \in Publishers, NEW mode \in {"1", "all"}, Request(p, mode)
    PROVE  TypeOK' /\ LaneInv'
<1>1. TypeOK'
  BY LaneAssumption DEF Request, Goto, workerVars, LaneInv, TypeOK, PublisherStates, WorkerStates, CatchupStates, CloserStates, Tasks, NoTask
<1>2. LockInv'
  BY LaneAssumption, <1>1 DEF Request, Goto, workerVars, LaneInv, TypeOK, LockInv
<1>3. SubmissionInv'
  BY LaneAssumption, <1>1 DEF Request, Goto, workerVars, LaneInv, TypeOK, SubmissionInv, LockInv, Holds, One, Cancelled
<1>4. SlotInv'
  BY LaneAssumption, <1>1 DEF Request, Goto, workerVars, LaneInv, TypeOK, SlotInv, LockInv, Holds, One, WorkerBusy
<1>5. TaskInv'
  BY LaneAssumption, <1>1 DEF Request, Goto, workerVars, LaneInv, TypeOK, TaskInv, LockInv, Waits, WorkerBusy, NoTask
<1>6. WorkerInv'
  BY LaneAssumption, <1>1 DEF Request, Goto, workerVars, LaneInv, TypeOK, WorkerInv, SubmissionInv, Cancelled
<1>7. WaiterHasTask'
  BY LaneAssumption, <1>1 DEF Request, Goto, workerVars, LaneInv, TypeOK, WaiterHasTask, TaskInv, Waits, WorkerBusy
<1>8. QED
  BY <1>1, <1>2, <1>3, <1>4, <1>5, <1>6, <1>7 DEF LaneInv

\* The lock goes to one request.
LEMMA TakeLockInv ==
    ASSUME TypeOK, LaneInv, NEW p \in Publishers, TakeLock(p)
    PROVE  TypeOK' /\ LaneInv'
<1>1. TypeOK'
  BY LaneAssumption DEF TakeLock, Goto, Respond, workerVars, LaneInv, TypeOK, PublisherStates, WorkerStates, CatchupStates, CloserStates, Tasks, NoTask
<1>2. LockInv'
  BY LaneAssumption DEF TakeLock, Goto, Respond, LaneInv, TypeOK, LockInv
<1>3. SubmissionInv'
  BY LaneAssumption, <1>1 DEF TakeLock, Goto, Respond, workerVars, LaneInv, TypeOK, SubmissionInv, LockInv, Holds, One, Cancelled
<1>4. SlotInv'
  BY LaneAssumption, <1>1 DEF TakeLock, Goto, Respond, workerVars, LaneInv, TypeOK, SlotInv, LockInv, Holds, One, WorkerBusy
<1>5. TaskInv'
  BY LaneAssumption, <1>1, QueueType DEF TakeLock, Goto, Respond, workerVars, LaneInv, TypeOK, TaskInv, LockInv, Waits, WorkerBusy, NoTask
<1>6. WorkerInv'
  BY LaneAssumption, <1>1 DEF TakeLock, Goto, Respond, workerVars, LaneInv, TypeOK, WorkerInv, SubmissionInv, Cancelled
<1>7. WaiterHasTask'
  BY LaneAssumption, <1>1 DEF TakeLock, Goto, Respond, workerVars, LaneInv, TypeOK, WaiterHasTask, TaskInv, Waits, WorkerBusy
<1>8. QED
  BY <1>1, <1>2, <1>3, <1>4, <1>5, <1>6, <1>7 DEF LaneInv

\* A reservation is counted before close can wait, or refused.
LEMMA ReserveInv ==
    ASSUME TypeOK, LaneInv, NEW p \in Publishers, Reserve(p)
    PROVE  TypeOK' /\ LaneInv'
<1>0. submissions = 0
  BY HolderCount DEF Reserve, One
<1>1. TypeOK'
  <2>1. submissions' \in 0..1
    BY <1>0 DEF Reserve
  <2>2. /\ pc' \in [Publishers -> PublisherStates] /\ acks' \in [Publishers -> {"1", "all"}]
        /\ answered' \in [Publishers -> BOOLEAN] /\ lock' \in Publishers \cup {NoPublisher}
    BY DEF Reserve, Goto, Respond, TypeOK, PublisherStates
  <2>3. worker' \in WorkerStates /\ catchupWorker' \in CatchupStates
    BY DEF Reserve, TypeOK, WorkerStates, CatchupStates
  <2>4. QED
    BY <2>1, <2>2, <2>3 DEF Reserve, TypeOK
<1>2. LockInv'
  BY LaneAssumption, <1>1 DEF Reserve, Goto, Respond, Closed, workerVars, LaneInv, TypeOK, LockInv
<1>3. SubmissionInv'
  BY LaneAssumption, <1>1 DEF Reserve, Goto, Respond, Closed, workerVars, LaneInv, TypeOK, SubmissionInv, LockInv, Holds, One, Cancelled
<1>4. SlotInv'
  BY LaneAssumption, <1>1 DEF Reserve, Goto, Respond, Closed, workerVars, LaneInv, TypeOK, SlotInv, LockInv, Holds, One, WorkerBusy
<1>5. TaskInv'
  BY LaneAssumption, <1>1, QueueType DEF Reserve, Goto, Respond, Closed, workerVars, LaneInv, TypeOK, TaskInv, LockInv, Waits, WorkerBusy, NoTask
<1>6. WorkerInv'
  BY LaneAssumption, <1>1 DEF Reserve, Goto, Respond, Closed, workerVars, LaneInv, TypeOK, WorkerInv, SubmissionInv, Cancelled
<1>7. WaiterHasTask'
  BY LaneAssumption, <1>1 DEF Reserve, Goto, Respond, Closed, workerVars, LaneInv, TypeOK, WaiterHasTask, TaskInv, Waits, WorkerBusy
<1>8. QED
  BY <1>1, <1>2, <1>3, <1>4, <1>5, <1>6, <1>7 DEF LaneInv

\* A slot is taken only when one is free.
LEMMA TakeSlotInv ==
    ASSUME TypeOK, LaneInv, NEW p \in Publishers, TakeSlot(p)
    PROVE  TypeOK' /\ LaneInv'
<1>0. slots = Len(queue) + One(WorkerBusy) + 0 /\ lock = p
  BY HolderCount DEF TakeSlot, One
<1>1. TypeOK'
  BY LaneAssumption DEF TakeSlot, Goto, workerVars, LaneInv, TypeOK, PublisherStates, WorkerStates, CatchupStates, CloserStates, Tasks, NoTask
<1>2. LockInv'
  BY LaneAssumption, <1>1 DEF TakeSlot, Goto, workerVars, LaneInv, TypeOK, LockInv
<1>3. SubmissionInv'
  BY LaneAssumption, <1>1 DEF TakeSlot, Goto, workerVars, LaneInv, TypeOK, SubmissionInv, LockInv, Holds, One, Cancelled
<1>4. SlotInv'
  <2>1. One(WorkerBusy)' = One(WorkerBusy)
    BY DEF TakeSlot, workerVars, WorkerBusy
  <2>2. One(Holds(lock, {"append", "sending"}))' = 1
    BY <1>0 DEF TakeSlot, Goto, TypeOK, Holds, One
  <2>3. QED
    BY <1>0, <2>1, <2>2, WorkerCount, QueueType DEF TakeSlot, SlotInv, TypeOK
<1>5. TaskInv'
  BY LaneAssumption, <1>1 DEF TakeSlot, Goto, workerVars, LaneInv, TypeOK, TaskInv, LockInv, Waits, WorkerBusy, NoTask
<1>6. WorkerInv'
  BY LaneAssumption, <1>1 DEF TakeSlot, Goto, workerVars, LaneInv, TypeOK, WorkerInv, SubmissionInv, Cancelled
<1>7. WaiterHasTask'
  BY LaneAssumption, <1>1 DEF TakeSlot, Goto, workerVars, LaneInv, TypeOK, WaiterHasTask, TaskInv, Waits, WorkerBusy
<1>8. QED
  BY <1>1, <1>2, <1>3, <1>4, <1>5, <1>6, <1>7 DEF LaneInv

\* A reservation without a slot is taken off the WaitGroup.
LEMMA GiveUpSlotInv ==
    ASSUME TypeOK, LaneInv, NEW p \in Publishers, GiveUpSlot(p)
    PROVE  TypeOK' /\ LaneInv'
<1>0. submissions = 1
  BY HolderCount DEF GiveUpSlot, One
<1>1. TypeOK'
  BY LaneAssumption, <1>0 DEF GiveUpSlot, Goto, Respond, workerVars, LaneInv, TypeOK, PublisherStates, WorkerStates, CatchupStates, CloserStates, Tasks, NoTask
<1>2. LockInv'
  BY LaneAssumption, <1>1 DEF GiveUpSlot, Goto, Respond, workerVars, LaneInv, TypeOK, LockInv
<1>3. SubmissionInv'
  BY LaneAssumption, <1>1 DEF GiveUpSlot, Goto, Respond, workerVars, LaneInv, TypeOK, SubmissionInv, LockInv, Holds, One, Cancelled
<1>4. SlotInv'
  BY LaneAssumption, <1>1 DEF GiveUpSlot, Goto, Respond, workerVars, LaneInv, TypeOK, SlotInv, LockInv, Holds, One, WorkerBusy
<1>5. TaskInv'
  BY LaneAssumption, <1>1 DEF GiveUpSlot, Goto, Respond, workerVars, LaneInv, TypeOK, TaskInv, LockInv, Waits, WorkerBusy, NoTask
<1>6. WorkerInv'
  BY LaneAssumption, <1>1 DEF GiveUpSlot, Goto, Respond, workerVars, LaneInv, TypeOK, WorkerInv, SubmissionInv, Cancelled
<1>7. WaiterHasTask'
  BY LaneAssumption, <1>1 DEF GiveUpSlot, Goto, Respond, workerVars, LaneInv, TypeOK, WaiterHasTask, TaskInv, Waits, WorkerBusy
<1>8. QED
  BY <1>1, <1>2, <1>3, <1>4, <1>5, <1>6, <1>7 DEF LaneInv

\* A released reservation returns its slot.
LEMMA ReleaseInv ==
    ASSUME TypeOK, LaneInv, NEW p \in Publishers, Release(p)
    PROVE  TypeOK' /\ LaneInv'
<1>0. submissions = 1 /\ slots = Len(queue) + One(WorkerBusy) + 1 /\ lock = p
  BY HolderCount DEF Release, One
<1>1. TypeOK'
  BY LaneAssumption, <1>0, WorkerCount, QueueType DEF Release, Goto, Respond, workerVars, LaneInv, TypeOK, PublisherStates, WorkerStates, CatchupStates, CloserStates, Tasks, NoTask
<1>2. LockInv'
  BY LaneAssumption, <1>1 DEF Release, Goto, Respond, workerVars, LaneInv, TypeOK, LockInv
<1>3. SubmissionInv'
  BY LaneAssumption, <1>1 DEF Release, Goto, Respond, workerVars, LaneInv, TypeOK, SubmissionInv, LockInv, Holds, One, Cancelled
<1>4. SlotInv'
  <2>1. One(WorkerBusy)' = One(WorkerBusy)
    BY DEF Release, workerVars, WorkerBusy
  <2>2. One(Holds(lock, {"append", "sending"}))' = 0
    BY LaneAssumption DEF Release, Respond, Holds, One
  <2>3. QED
    BY <1>0, <2>1, <2>2, WorkerCount, QueueType DEF Release, SlotInv, TypeOK
<1>5. TaskInv'
  BY LaneAssumption, <1>1 DEF Release, Goto, Respond, workerVars, LaneInv, TypeOK, TaskInv, LockInv, Waits, WorkerBusy, NoTask
<1>6. WorkerInv'
  BY LaneAssumption, <1>1 DEF Release, Goto, Respond, workerVars, LaneInv, TypeOK, WorkerInv, SubmissionInv, Cancelled
<1>7. WaiterHasTask'
  BY LaneAssumption, <1>1 DEF Release, Goto, Respond, workerVars, LaneInv, TypeOK, WaiterHasTask, TaskInv, Waits, WorkerBusy
<1>8. QED
  BY <1>1, <1>2, <1>3, <1>4, <1>5, <1>6, <1>7 DEF LaneInv

\* The append itself changes no accounting.
LEMMA AppendDoneInv ==
    ASSUME TypeOK, LaneInv, NEW p \in Publishers, AppendDone(p)
    PROVE  TypeOK' /\ LaneInv'
<1>1. TypeOK'
  BY LaneAssumption DEF AppendDone, Goto, workerVars, LaneInv, TypeOK, PublisherStates, WorkerStates, CatchupStates, CloserStates, Tasks, NoTask
<1>2. LockInv'
  BY LaneAssumption, <1>1 DEF AppendDone, Goto, workerVars, LaneInv, TypeOK, LockInv
<1>3. SubmissionInv'
  BY LaneAssumption, <1>1 DEF AppendDone, Goto, workerVars, LaneInv, TypeOK, SubmissionInv, LockInv, Holds, One, Cancelled
<1>4. SlotInv'
  BY LaneAssumption, <1>1 DEF AppendDone, Goto, workerVars, LaneInv, TypeOK, SlotInv, LockInv, Holds, One, WorkerBusy
<1>5. TaskInv'
  BY LaneAssumption, <1>1 DEF AppendDone, Goto, workerVars, LaneInv, TypeOK, TaskInv, LockInv, Waits, WorkerBusy, NoTask
<1>6. WorkerInv'
  BY LaneAssumption, <1>1 DEF AppendDone, Goto, workerVars, LaneInv, TypeOK, WorkerInv, SubmissionInv, Cancelled
<1>7. WaiterHasTask'
  BY LaneAssumption, <1>1 DEF AppendDone, Goto, workerVars, LaneInv, TypeOK, WaiterHasTask, TaskInv, Waits, WorkerBusy
<1>8. QED
  BY <1>1, <1>2, <1>3, <1>4, <1>5, <1>6, <1>7 DEF LaneInv

\* The reservation becomes a queued task.
LEMMA EnqueueInv ==
    ASSUME TypeOK, LaneInv, NEW p \in Publishers, NEW barrier \in BOOLEAN, Enqueue(p, barrier)
    PROVE  TypeOK' /\ LaneInv'
<1>0. submissions = 1 /\ slots = Len(queue) + One(WorkerBusy) + 1 /\ lock = p
  BY HolderCount DEF Enqueue, One
<1>1. TypeOK'
  BY LaneAssumption DEF Enqueue, Goto, workerVars, LaneInv, TypeOK, PublisherStates, WorkerStates, CatchupStates, CloserStates, Tasks, NoTask
<1>2. LockInv'
  BY LaneAssumption, <1>1 DEF Enqueue, Goto, workerVars, LaneInv, TypeOK, LockInv
<1>3. SubmissionInv'
  BY LaneAssumption, <1>1 DEF Enqueue, Goto, workerVars, LaneInv, TypeOK, SubmissionInv, LockInv, Holds, One, Cancelled
<1>4. SlotInv'
  <2>1. One(WorkerBusy)' = One(WorkerBusy)
    BY DEF Enqueue, workerVars, WorkerBusy
  <2>2. One(Holds(lock, {"append", "sending"}))' = 0
    BY <1>0 DEF Enqueue, Goto, TypeOK, Holds, One
  <2>3. Len(queue') = Len(queue) + 1
    BY DEF Enqueue, TypeOK
  <2>4. QED
    BY <1>0, <2>1, <2>2, <2>3, WorkerCount, QueueType DEF Enqueue, SlotInv, TypeOK
<1>5. TaskInv'
  BY LaneAssumption, <1>1 DEF Enqueue, Goto, workerVars, LaneInv, TypeOK, TaskInv, LockInv, Waits, WorkerBusy, NoTask
<1>6. WorkerInv'
  BY LaneAssumption, <1>1, <1>0 DEF Enqueue, Goto, workerVars, LaneInv, TypeOK, WorkerInv, SubmissionInv, Cancelled
<1>7. WaiterHasTask'
  BY LaneAssumption, <1>1, HolderCount, QueueType DEF Enqueue, Goto, workerVars, LaneInv, TypeOK, WaiterHasTask, TaskInv, Waits, WorkerBusy
<1>8. QED
  BY <1>1, <1>2, <1>3, <1>4, <1>5, <1>6, <1>7 DEF LaneInv

\* The request is taken off the WaitGroup with its task in the lane.
LEMMA SubmitDoneInv ==
    ASSUME TypeOK, LaneInv, NEW p \in Publishers, SubmitDone(p)
    PROVE  TypeOK' /\ LaneInv'
<1>0. submissions = 1
  BY HolderCount DEF SubmitDone, One
<1>1. TypeOK'
  <2>1. submissions' \in 0..1
    BY <1>0 DEF SubmitDone
  <2>2. /\ pc' \in [Publishers -> PublisherStates] /\ acks' \in [Publishers -> {"1", "all"}]
        /\ answered' \in [Publishers -> BOOLEAN] /\ lock' \in Publishers \cup {NoPublisher}
    BY DEF SubmitDone, Goto, Respond, TypeOK, PublisherStates
  <2>3. QED
    BY <2>1, <2>2 DEF SubmitDone, workerVars, TypeOK
<1>2. LockInv'
  BY LaneAssumption, <1>1 DEF SubmitDone, Goto, Respond, workerVars, LaneInv, TypeOK, LockInv
<1>3. SubmissionInv'
  BY LaneAssumption, <1>1 DEF SubmitDone, Goto, Respond, workerVars, LaneInv, TypeOK, SubmissionInv, LockInv, Holds, One, Cancelled
<1>4. SlotInv'
  BY LaneAssumption, <1>1 DEF SubmitDone, Goto, Respond, workerVars, LaneInv, TypeOK, SlotInv, LockInv, Holds, One, WorkerBusy
<1>5. TaskInv'
  BY LaneAssumption, <1>1, QueueType DEF SubmitDone, Goto, Respond, workerVars, LaneInv, TypeOK, TaskInv, LockInv, Waits, WorkerBusy, NoTask
<1>6. WorkerInv'
  BY LaneAssumption, <1>1 DEF SubmitDone, Goto, Respond, workerVars, LaneInv, TypeOK, WorkerInv, SubmissionInv, Cancelled
<1>7. WaiterHasTask'
  BY LaneAssumption, <1>1 DEF SubmitDone, Goto, Respond, workerVars, LaneInv, TypeOK, WaiterHasTask, TaskInv, Waits, WorkerBusy
<1>8. QED
  BY <1>1, <1>2, <1>3, <1>4, <1>5, <1>6, <1>7 DEF LaneInv

\* A request that stops waiting detaches its task.
LEMMA StopWaitingInv ==
    ASSUME TypeOK, LaneInv, NEW p \in Publishers, StopWaiting(p)
    PROVE  TypeOK' /\ LaneInv'
<1>0. queue' \in Seq(Tasks) /\ Len(queue') = Len(queue) /\ DOMAIN queue' = DOMAIN queue
      /\ task' \in Tasks
  <2>1. \A t \in Tasks : Detached(t, p) \in Tasks
    BY DEF Detached, Tasks
  <2>2. QED
    BY <2>1, QueueType DEF StopWaiting
<1>1. TypeOK'
  BY LaneAssumption, <1>0, QueueType DEF StopWaiting, Goto, Respond, Detached, workerVars, LaneInv, TypeOK, PublisherStates, WorkerStates, CatchupStates, CloserStates, Tasks, NoTask
<1>2. LockInv'
  BY LaneAssumption, <1>1 DEF StopWaiting, Goto, Respond, Detached, workerVars, LaneInv, TypeOK, LockInv
<1>3. SubmissionInv'
  BY LaneAssumption, <1>1 DEF StopWaiting, Goto, Respond, Detached, workerVars, LaneInv, TypeOK, SubmissionInv, LockInv, Holds, One, Cancelled
<1>4. SlotInv'
  BY LaneAssumption, <1>1, <1>0, HolderCount, QueueType DEF StopWaiting, Goto, Respond, Detached, workerVars, LaneInv, TypeOK, SlotInv, LockInv, Holds, One, WorkerBusy
<1>5. TaskInv'
  <2>1. \A t \in Tasks : Detached(t, p).to # NoPublisher => Detached(t, p).to = t.to /\ t.to # p
    BY LaneAssumption DEF Detached, Tasks
  <2>2. task'.to # NoPublisher => task'.to = task.to /\ task.to # p
    BY <2>1, QueueType DEF StopWaiting
  <2>3. \A i \in DOMAIN queue' : queue'[i].to # NoPublisher => queue'[i].to = queue[i].to /\ queue[i].to # p
    BY <1>0, <2>1, QueueType DEF StopWaiting
  <2>4. \A q \in Publishers : q # p => pc'[q] = pc[q] /\ acks'[q] = acks[q] /\ answered'[q] = answered[q]
    BY DEF StopWaiting, Respond, Goto, TypeOK
  <2>5. worker' = worker /\ (task = NoTask => task' = NoTask)
    <3>1. NoTask.to # p
      BY LaneAssumption DEF NoTask
    <3>2. QED
      BY <3>1 DEF StopWaiting, Detached
  <2>6. QED
    BY <1>0, <2>2, <2>3, <2>4, <2>5, QueueType DEF LaneInv, TaskInv, Waits, WorkerBusy
<1>6. WorkerInv'
  BY LaneAssumption, <1>1, <1>0, QueueType DEF StopWaiting, Goto, Respond, Detached, workerVars, LaneInv, TypeOK, WorkerInv, SubmissionInv, Cancelled
<1>7. WaiterHasTask'
  BY LaneAssumption, <1>1, <1>0, HolderCount, QueueType DEF StopWaiting, Goto, Respond, Detached, workerVars, LaneInv, TypeOK, WaiterHasTask, TaskInv, Waits, WorkerBusy
<1>8. QED
  BY <1>1, <1>2, <1>3, <1>4, <1>5, <1>6, <1>7 DEF LaneInv

\* The worker takes the head of the queue.
LEMMA WorkerTakeInv ==
    ASSUME TypeOK, LaneInv, WorkerTake
    PROVE  TypeOK' /\ LaneInv'
<1>1. TypeOK'
  <2>1. CASE queue # <<>>
    <3>1. slots - 1 \in 0..Capacity
      BY <2>1, QueueTail, WorkerCount, QueueType, LaneAssumption DEF TypeOK
    <3>2. Head(queue) \in Tasks /\ Tail(queue) \in Seq(Tasks) /\ Len(Tail(queue)) <= Capacity
      BY <2>1, QueueTail, QueueType, LaneAssumption DEF TypeOK
    <3>3. QED
      BY <2>1, <3>1, <3>2 DEF WorkerTake, CompleteClosed, Complete, WorkerUnchanged, workerVars, TypeOK, WorkerStates
  <2>2. CASE queue = <<>>
    BY <2>2 DEF WorkerTake, WorkerUnchanged, TypeOK, WorkerStates
  <2>3. QED
    BY <2>1, <2>2
<1>2. LockInv'
  BY LaneAssumption, <1>1 DEF WorkerTake, CompleteClosed, Complete, WorkerUnchanged, workerVars, LaneInv, TypeOK, LockInv
<1>3. SubmissionInv'
  BY LaneAssumption, <1>1 DEF WorkerTake, CompleteClosed, Complete, WorkerUnchanged, workerVars, LaneInv, TypeOK, SubmissionInv, LockInv, Holds, One, Cancelled
<1>4. SlotInv'
  <2>1. One(Holds(lock, {"append", "sending"}))' = One(Holds(lock, {"append", "sending"}))
    BY DEF WorkerTake, WorkerUnchanged, Holds
  <2>2. One(WorkerBusy) = 0
    BY DEF WorkerTake, WorkerBusy, One
  <2>3. slots = Len(queue) + One(Holds(lock, {"append", "sending"})) /\ One(Holds(lock, {"append", "sending"})) \in {0, 1}
    <3>1. One(Holds(lock, {"append", "sending"})) \in {0, 1}
      BY DEF One
    <3>2. slots = Len(queue) + One(WorkerBusy) + One(Holds(lock, {"append", "sending"}))
      BY DEF LaneInv, SlotInv
    <3>3. QED
      BY <2>2, <3>1, <3>2, QueueType
  <2>4. One(WorkerBusy)' = IF Cancelled THEN 0 ELSE 1
    BY DEF WorkerTake, workerVars, WorkerBusy, One
  <2>5. Len(queue') = Len(queue) - 1
    BY QueueTail, QueueType DEF WorkerTake
  <2>6. QED
    BY <2>1, <2>3, <2>4, <2>5, QueueType DEF WorkerTake, SlotInv, TypeOK
<1>5. TaskInv'
  BY LaneAssumption, <1>1, QueueTail, QueueType DEF WorkerTake, CompleteClosed, Complete, WorkerUnchanged, workerVars, LaneInv, TypeOK, TaskInv, LockInv, Waits, WorkerBusy, NoTask
<1>6. WorkerInv'
  BY LaneAssumption, <1>1 DEF WorkerTake, CompleteClosed, Complete, WorkerUnchanged, workerVars, LaneInv, TypeOK, WorkerInv, SubmissionInv, Cancelled
<1>7. WaiterHasTask'
  <2> SUFFICES ASSUME NEW q \in Publishers, pc'[q] \in {"submitted", "waiting"}, acks'[q] = "all", ~answered'[q]
               PROVE  task'.to = q \/ \E i \in DOMAIN queue' : queue'[i].to = q
    BY DEF WaiterHasTask
  <2>1. pc[q] \in {"submitted", "waiting"} /\ acks[q] = "all"
    BY DEF WorkerTake, WorkerUnchanged
  <2>2. ~answered[q] /\ task.to # q
    BY LaneAssumption DEF WorkerTake, CompleteClosed, Complete, LaneInv, TaskInv, WorkerBusy, NoTask, TypeOK
  <2>3. PICK i \in DOMAIN queue : queue[i].to = q
    BY <2>1, <2>2 DEF LaneInv, WaiterHasTask
  <2>4. queue # <<>> /\ queue' = Tail(queue)
    BY <2>3 DEF WorkerTake
  <2>5. CASE i = 1
    BY <2>3, <2>4, <2>5, QueueTail, LaneAssumption DEF WorkerTake, CompleteClosed, Complete, TypeOK
  <2>6. CASE i # 1
    <3>1. i - 1 \in DOMAIN Tail(queue) /\ Tail(queue)[i - 1] = queue[i]
      BY <2>3, <2>4, <2>6, QueueTail, QueueType
    <3>2. QED
      BY <2>3, <2>4, <3>1
  <2>7. QED
    BY <2>5, <2>6
<1>8. QED
  BY <1>1, <1>2, <1>3, <1>4, <1>5, <1>6, <1>7 DEF LaneInv

\* The worker sees the cancellation.
LEMMA WorkerStopInv ==
    ASSUME TypeOK, LaneInv, WorkerStop
    PROVE  TypeOK' /\ LaneInv'
<1>1. TypeOK'
  BY LaneAssumption DEF WorkerStop, WorkerUnchanged, workerVars, LaneInv, TypeOK, PublisherStates, WorkerStates, CatchupStates, CloserStates, Tasks, NoTask
<1>2. LockInv'
  BY LaneAssumption, <1>1 DEF WorkerStop, WorkerUnchanged, workerVars, LaneInv, TypeOK, LockInv
<1>3. SubmissionInv'
  BY LaneAssumption, <1>1 DEF WorkerStop, WorkerUnchanged, workerVars, LaneInv, TypeOK, SubmissionInv, LockInv, Holds, One, Cancelled
<1>4. SlotInv'
  BY LaneAssumption, <1>1 DEF WorkerStop, WorkerUnchanged, workerVars, LaneInv, TypeOK, SlotInv, LockInv, Holds, One, WorkerBusy
<1>5. TaskInv'
  BY LaneAssumption, <1>1 DEF WorkerStop, WorkerUnchanged, workerVars, LaneInv, TypeOK, TaskInv, LockInv, Waits, WorkerBusy, NoTask
<1>6. WorkerInv'
  BY LaneAssumption, <1>1 DEF WorkerStop, WorkerUnchanged, workerVars, LaneInv, TypeOK, WorkerInv, SubmissionInv, Cancelled
<1>7. WaiterHasTask'
  BY LaneAssumption, <1>1 DEF WorkerStop, WorkerUnchanged, workerVars, LaneInv, TypeOK, WaiterHasTask, TaskInv, Waits, WorkerBusy
<1>8. QED
  BY <1>1, <1>2, <1>3, <1>4, <1>5, <1>6, <1>7 DEF LaneInv

\* The drain answers every task that is left.
LEMMA WorkerDrainInv ==
    ASSUME TypeOK, LaneInv, WorkerDrain
    PROVE  TypeOK' /\ LaneInv'
<1>1. TypeOK'
  <2>1. CASE queue # <<>>
    <3>1. slots - 1 \in 0..Capacity
      BY <2>1, QueueTail, WorkerCount, QueueType, LaneAssumption DEF TypeOK
    <3>2. Head(queue) \in Tasks /\ Tail(queue) \in Seq(Tasks) /\ Len(Tail(queue)) <= Capacity
      BY <2>1, QueueTail, QueueType, LaneAssumption DEF TypeOK
    <3>3. QED
      BY <2>1, <3>1, <3>2 DEF WorkerDrain, CompleteClosed, Complete, WorkerUnchanged, workerVars, TypeOK, WorkerStates
  <2>2. CASE queue = <<>>
    BY <2>2 DEF WorkerDrain, WorkerUnchanged, TypeOK, WorkerStates
  <2>3. QED
    BY <2>1, <2>2
<1>2. LockInv'
  BY LaneAssumption, <1>1 DEF WorkerDrain, CompleteClosed, Complete, WorkerUnchanged, workerVars, LaneInv, TypeOK, LockInv
<1>3. SubmissionInv'
  BY LaneAssumption, <1>1 DEF WorkerDrain, CompleteClosed, Complete, WorkerUnchanged, workerVars, LaneInv, TypeOK, SubmissionInv, LockInv, Holds, One, Cancelled
<1>4. SlotInv'
  <2>1. One(Holds(lock, {"append", "sending"}))' = One(Holds(lock, {"append", "sending"}))
    BY DEF WorkerDrain, WorkerUnchanged, Holds
  <2>2. One(WorkerBusy) = 0
    BY DEF WorkerDrain, WorkerBusy, One
  <2>3. slots = Len(queue) + One(Holds(lock, {"append", "sending"})) /\ One(Holds(lock, {"append", "sending"})) \in {0, 1}
    <3>1. One(Holds(lock, {"append", "sending"})) \in {0, 1}
      BY DEF One
    <3>2. slots = Len(queue) + One(WorkerBusy) + One(Holds(lock, {"append", "sending"}))
      BY DEF LaneInv, SlotInv
    <3>3. QED
      BY <2>2, <3>1, <3>2, QueueType
  <2>4. One(WorkerBusy)' = 0
    BY DEF WorkerDrain, workerVars, WorkerBusy, One
  <2>5. Len(queue') = IF queue # <<>> THEN Len(queue) - 1 ELSE Len(queue)
    BY QueueTail, QueueType DEF WorkerDrain
  <2>6. QED
    BY <2>1, <2>3, <2>4, <2>5, QueueType DEF WorkerDrain, SlotInv, TypeOK
<1>5. TaskInv'
  BY LaneAssumption, <1>1, QueueTail, QueueType DEF WorkerDrain, CompleteClosed, Complete, WorkerUnchanged, workerVars, LaneInv, TypeOK, TaskInv, LockInv, Waits, WorkerBusy, NoTask
<1>6. WorkerInv'
  BY LaneAssumption, <1>1 DEF WorkerDrain, CompleteClosed, Complete, WorkerUnchanged, workerVars, LaneInv, TypeOK, WorkerInv, SubmissionInv, Cancelled
<1>7. WaiterHasTask'
  <2> SUFFICES ASSUME NEW q \in Publishers, pc'[q] \in {"submitted", "waiting"}, acks'[q] = "all", ~answered'[q]
               PROVE  task'.to = q \/ \E i \in DOMAIN queue' : queue'[i].to = q
    BY DEF WaiterHasTask
  <2>1. pc[q] \in {"submitted", "waiting"} /\ acks[q] = "all"
    BY DEF WorkerDrain, WorkerUnchanged
  <2>2. ~answered[q] /\ task.to # q
    BY LaneAssumption DEF WorkerDrain, CompleteClosed, Complete, LaneInv, TaskInv, WorkerBusy, NoTask, TypeOK
  <2>3. PICK i \in DOMAIN queue : queue[i].to = q
    BY <2>1, <2>2 DEF LaneInv, WaiterHasTask
  <2>4. queue # <<>> /\ queue' = Tail(queue)
    BY <2>3 DEF WorkerDrain
  <2>5. CASE i = 1
    BY <2>3, <2>4, <2>5, QueueTail, LaneAssumption DEF WorkerDrain, CompleteClosed, Complete, TypeOK
  <2>6. CASE i # 1
    <3>1. i - 1 \in DOMAIN Tail(queue) /\ Tail(queue)[i - 1] = queue[i]
      BY <2>3, <2>4, <2>6, QueueTail, QueueType
    <3>2. QED
      BY <2>3, <2>4, <3>1
  <2>7. QED
    BY <2>5, <2>6
<1>8. QED
  BY <1>1, <1>2, <1>3, <1>4, <1>5, <1>6, <1>7 DEF LaneInv

\* The head of the retry loop.
LEMMA ProcessCheckInv ==
    ASSUME TypeOK, LaneInv, ProcessCheck
    PROVE  TypeOK' /\ LaneInv'
<1>1. TypeOK'
  BY LaneAssumption DEF ProcessCheck, CompleteClosed, Complete, WorkerUnchanged, workerVars, LaneInv, TypeOK, PublisherStates, WorkerStates, CatchupStates, CloserStates, Tasks, NoTask
<1>2. LockInv'
  BY LaneAssumption, <1>1 DEF ProcessCheck, CompleteClosed, Complete, WorkerUnchanged, workerVars, LaneInv, TypeOK, LockInv
<1>3. SubmissionInv'
  BY LaneAssumption, <1>1 DEF ProcessCheck, CompleteClosed, Complete, WorkerUnchanged, workerVars, LaneInv, TypeOK, SubmissionInv, LockInv, Holds, One, Cancelled
<1>4. SlotInv'
  BY LaneAssumption, <1>1 DEF ProcessCheck, CompleteClosed, Complete, WorkerUnchanged, workerVars, LaneInv, TypeOK, SlotInv, LockInv, Holds, One, WorkerBusy
<1>5. TaskInv'
  BY LaneAssumption, <1>1, QueueType DEF ProcessCheck, CompleteClosed, Complete, WorkerUnchanged, workerVars, LaneInv, TypeOK, TaskInv, LockInv, Waits, WorkerBusy, NoTask
<1>6. WorkerInv'
  BY LaneAssumption, <1>1 DEF ProcessCheck, CompleteClosed, Complete, WorkerUnchanged, workerVars, LaneInv, TypeOK, WorkerInv, SubmissionInv, Cancelled
<1>7. WaiterHasTask'
  BY LaneAssumption, <1>1 DEF ProcessCheck, CompleteClosed, Complete, WorkerUnchanged, workerVars, LaneInv, TypeOK, WaiterHasTask, TaskInv, Waits, WorkerBusy
<1>8. QED
  BY <1>1, <1>2, <1>3, <1>4, <1>5, <1>6, <1>7 DEF LaneInv

\* A successful attempt answers the request.
LEMMA AttemptSucceedsInv ==
    ASSUME TypeOK, LaneInv, AttemptSucceeds
    PROVE  TypeOK' /\ LaneInv'
<1>1. TypeOK'
  BY LaneAssumption DEF AttemptSucceeds, Complete, WorkerUnchanged, workerVars, LaneInv, TypeOK, PublisherStates, WorkerStates, CatchupStates, CloserStates, Tasks, NoTask
<1>2. LockInv'
  BY LaneAssumption, <1>1 DEF AttemptSucceeds, Complete, WorkerUnchanged, workerVars, LaneInv, TypeOK, LockInv
<1>3. SubmissionInv'
  BY LaneAssumption, <1>1 DEF AttemptSucceeds, Complete, WorkerUnchanged, workerVars, LaneInv, TypeOK, SubmissionInv, LockInv, Holds, One, Cancelled
<1>4. SlotInv'
  BY LaneAssumption, <1>1 DEF AttemptSucceeds, Complete, WorkerUnchanged, workerVars, LaneInv, TypeOK, SlotInv, LockInv, Holds, One, WorkerBusy
<1>5. TaskInv'
  BY LaneAssumption, <1>1, QueueType DEF AttemptSucceeds, Complete, WorkerUnchanged, workerVars, LaneInv, TypeOK, TaskInv, LockInv, Waits, WorkerBusy, NoTask
<1>6. WorkerInv'
  BY LaneAssumption, <1>1 DEF AttemptSucceeds, Complete, WorkerUnchanged, workerVars, LaneInv, TypeOK, WorkerInv, SubmissionInv, Cancelled
<1>7. WaiterHasTask'
  BY LaneAssumption, <1>1 DEF AttemptSucceeds, Complete, WorkerUnchanged, workerVars, LaneInv, TypeOK, WaiterHasTask, TaskInv, Waits, WorkerBusy
<1>8. QED
  BY <1>1, <1>2, <1>3, <1>4, <1>5, <1>6, <1>7 DEF LaneInv

\* A fenced attempt answers the request.
LEMMA AttemptFencedInv ==
    ASSUME TypeOK, LaneInv, AttemptFenced
    PROVE  TypeOK' /\ LaneInv'
<1>1. TypeOK'
  BY LaneAssumption DEF AttemptFenced, Complete, WorkerUnchanged, workerVars, LaneInv, TypeOK, PublisherStates, WorkerStates, CatchupStates, CloserStates, Tasks, NoTask
<1>2. LockInv'
  BY LaneAssumption, <1>1 DEF AttemptFenced, Complete, WorkerUnchanged, workerVars, LaneInv, TypeOK, LockInv
<1>3. SubmissionInv'
  BY LaneAssumption, <1>1 DEF AttemptFenced, Complete, WorkerUnchanged, workerVars, LaneInv, TypeOK, SubmissionInv, LockInv, Holds, One, Cancelled
<1>4. SlotInv'
  BY LaneAssumption, <1>1 DEF AttemptFenced, Complete, WorkerUnchanged, workerVars, LaneInv, TypeOK, SlotInv, LockInv, Holds, One, WorkerBusy
<1>5. TaskInv'
  BY LaneAssumption, <1>1, QueueType DEF AttemptFenced, Complete, WorkerUnchanged, workerVars, LaneInv, TypeOK, TaskInv, LockInv, Waits, WorkerBusy, NoTask
<1>6. WorkerInv'
  BY LaneAssumption, <1>1 DEF AttemptFenced, Complete, WorkerUnchanged, workerVars, LaneInv, TypeOK, WorkerInv, SubmissionInv, Cancelled
<1>7. WaiterHasTask'
  BY LaneAssumption, <1>1 DEF AttemptFenced, Complete, WorkerUnchanged, workerVars, LaneInv, TypeOK, WaiterHasTask, TaskInv, Waits, WorkerBusy
<1>8. QED
  BY <1>1, <1>2, <1>3, <1>4, <1>5, <1>6, <1>7 DEF LaneInv

\* A failed attempt keeps the task.
LEMMA AttemptFailsInv ==
    ASSUME TypeOK, LaneInv, AttemptFails
    PROVE  TypeOK' /\ LaneInv'
<1>1. TypeOK'
  BY LaneAssumption DEF AttemptFails, CompleteClosed, Complete, WorkerUnchanged, workerVars, LaneInv, TypeOK, PublisherStates, WorkerStates, CatchupStates, CloserStates, Tasks, NoTask
<1>2. LockInv'
  BY LaneAssumption, <1>1 DEF AttemptFails, CompleteClosed, Complete, WorkerUnchanged, workerVars, LaneInv, TypeOK, LockInv
<1>3. SubmissionInv'
  BY LaneAssumption, <1>1 DEF AttemptFails, CompleteClosed, Complete, WorkerUnchanged, workerVars, LaneInv, TypeOK, SubmissionInv, LockInv, Holds, One, Cancelled
<1>4. SlotInv'
  BY LaneAssumption, <1>1 DEF AttemptFails, CompleteClosed, Complete, WorkerUnchanged, workerVars, LaneInv, TypeOK, SlotInv, LockInv, Holds, One, WorkerBusy
<1>5. TaskInv'
  BY LaneAssumption, <1>1, QueueType DEF AttemptFails, CompleteClosed, Complete, WorkerUnchanged, workerVars, LaneInv, TypeOK, TaskInv, LockInv, Waits, WorkerBusy, NoTask
<1>6. WorkerInv'
  BY LaneAssumption, <1>1 DEF AttemptFails, CompleteClosed, Complete, WorkerUnchanged, workerVars, LaneInv, TypeOK, WorkerInv, SubmissionInv, Cancelled
<1>7. WaiterHasTask'
  BY LaneAssumption, <1>1 DEF AttemptFails, CompleteClosed, Complete, WorkerUnchanged, workerVars, LaneInv, TypeOK, WaiterHasTask, TaskInv, Waits, WorkerBusy
<1>8. QED
  BY <1>1, <1>2, <1>3, <1>4, <1>5, <1>6, <1>7 DEF LaneInv

\* The backoff keeps the task or answers it.
LEMMA BackoffInv ==
    ASSUME TypeOK, LaneInv, Backoff
    PROVE  TypeOK' /\ LaneInv'
<1>1. TypeOK'
  BY LaneAssumption DEF Backoff, CompleteClosed, Complete, WorkerUnchanged, workerVars, LaneInv, TypeOK, PublisherStates, WorkerStates, CatchupStates, CloserStates, Tasks, NoTask
<1>2. LockInv'
  BY LaneAssumption, <1>1 DEF Backoff, CompleteClosed, Complete, WorkerUnchanged, workerVars, LaneInv, TypeOK, LockInv
<1>3. SubmissionInv'
  BY LaneAssumption, <1>1 DEF Backoff, CompleteClosed, Complete, WorkerUnchanged, workerVars, LaneInv, TypeOK, SubmissionInv, LockInv, Holds, One, Cancelled
<1>4. SlotInv'
  BY LaneAssumption, <1>1 DEF Backoff, CompleteClosed, Complete, WorkerUnchanged, workerVars, LaneInv, TypeOK, SlotInv, LockInv, Holds, One, WorkerBusy
<1>5. TaskInv'
  BY LaneAssumption, <1>1, QueueType DEF Backoff, CompleteClosed, Complete, WorkerUnchanged, workerVars, LaneInv, TypeOK, TaskInv, LockInv, Waits, WorkerBusy, NoTask
<1>6. WorkerInv'
  BY LaneAssumption, <1>1 DEF Backoff, CompleteClosed, Complete, WorkerUnchanged, workerVars, LaneInv, TypeOK, WorkerInv, SubmissionInv, Cancelled
<1>7. WaiterHasTask'
  BY LaneAssumption, <1>1 DEF Backoff, CompleteClosed, Complete, WorkerUnchanged, workerVars, LaneInv, TypeOK, WaiterHasTask, TaskInv, Waits, WorkerBusy
<1>8. QED
  BY <1>1, <1>2, <1>3, <1>4, <1>5, <1>6, <1>7 DEF LaneInv

\* The hand-over to the catch-up queue.
LEMMA HandoverInv ==
    ASSUME TypeOK, LaneInv, Handover
    PROVE  TypeOK' /\ LaneInv'
<1>1. TypeOK'
  BY LaneAssumption DEF Handover, WorkerUnchanged, workerVars, LaneInv, TypeOK, PublisherStates, WorkerStates, CatchupStates, CloserStates, Tasks, NoTask
<1>2. LockInv'
  BY LaneAssumption, <1>1 DEF Handover, WorkerUnchanged, workerVars, LaneInv, TypeOK, LockInv
<1>3. SubmissionInv'
  BY LaneAssumption, <1>1 DEF Handover, WorkerUnchanged, workerVars, LaneInv, TypeOK, SubmissionInv, LockInv, Holds, One, Cancelled
<1>4. SlotInv'
  BY LaneAssumption, <1>1 DEF Handover, WorkerUnchanged, workerVars, LaneInv, TypeOK, SlotInv, LockInv, Holds, One, WorkerBusy
<1>5. TaskInv'
  BY LaneAssumption, <1>1 DEF Handover, WorkerUnchanged, workerVars, LaneInv, TypeOK, TaskInv, LockInv, Waits, WorkerBusy, NoTask
<1>6. WorkerInv'
  BY LaneAssumption, <1>1 DEF Handover, WorkerUnchanged, workerVars, LaneInv, TypeOK, WorkerInv, SubmissionInv, Cancelled
<1>7. WaiterHasTask'
  BY LaneAssumption, <1>1 DEF Handover, WorkerUnchanged, workerVars, LaneInv, TypeOK, WaiterHasTask, TaskInv, Waits, WorkerBusy
<1>8. QED
  BY <1>1, <1>2, <1>3, <1>4, <1>5, <1>6, <1>7 DEF LaneInv

\* The slot is freed after the task was answered.
LEMMA FreeSlotInv ==
    ASSUME TypeOK, LaneInv, FreeSlot
    PROVE  TypeOK' /\ LaneInv'
<1>0. One(WorkerBusy) = 1
  BY DEF FreeSlot, WorkerBusy, One
<1>1. TypeOK'
  <2>1. slots - 1 \in 0..Capacity
    BY <1>0, WorkerCount, QueueType, LaneAssumption DEF TypeOK
  <2>2. NoTask \in Tasks
    BY DEF NoTask, Tasks
  <2>3. QED
    BY <2>1, <2>2 DEF FreeSlot, WorkerUnchanged, TypeOK, WorkerStates
<1>2. LockInv'
  BY LaneAssumption, <1>1 DEF FreeSlot, WorkerUnchanged, workerVars, LaneInv, TypeOK, LockInv
<1>3. SubmissionInv'
  BY LaneAssumption, <1>1 DEF FreeSlot, WorkerUnchanged, workerVars, LaneInv, TypeOK, SubmissionInv, LockInv, Holds, One, Cancelled
<1>4. SlotInv'
  BY LaneAssumption, <1>1 DEF FreeSlot, WorkerUnchanged, workerVars, LaneInv, TypeOK, SlotInv, LockInv, Holds, One, WorkerBusy
<1>5. TaskInv'
  BY LaneAssumption, <1>1 DEF FreeSlot, WorkerUnchanged, workerVars, LaneInv, TypeOK, TaskInv, LockInv, Waits, WorkerBusy, NoTask
<1>6. WorkerInv'
  BY LaneAssumption, <1>1 DEF FreeSlot, WorkerUnchanged, workerVars, LaneInv, TypeOK, WorkerInv, SubmissionInv, Cancelled
<1>7. WaiterHasTask'
  BY LaneAssumption, <1>1 DEF FreeSlot, WorkerUnchanged, workerVars, LaneInv, TypeOK, WaiterHasTask, TaskInv, Waits, WorkerBusy
<1>8. QED
  BY <1>1, <1>2, <1>3, <1>4, <1>5, <1>6, <1>7 DEF LaneInv

\* The catch-up worker touches only its own state.
LEMMA CatchupStepInv ==
    ASSUME TypeOK, LaneInv, CatchupStep
    PROVE  TypeOK' /\ LaneInv'
<1>1. TypeOK'
  BY LaneAssumption DEF CatchupStep, publisherVars, workerVars, LaneInv, TypeOK, PublisherStates, WorkerStates, CatchupStates, CloserStates, Tasks, NoTask
<1>2. LockInv'
  BY LaneAssumption, <1>1 DEF CatchupStep, publisherVars, workerVars, LaneInv, TypeOK, LockInv
<1>3. SubmissionInv'
  BY LaneAssumption, <1>1 DEF CatchupStep, publisherVars, workerVars, LaneInv, TypeOK, SubmissionInv, LockInv, Holds, One, Cancelled
<1>4. SlotInv'
  BY LaneAssumption, <1>1 DEF CatchupStep, publisherVars, workerVars, LaneInv, TypeOK, SlotInv, LockInv, Holds, One, WorkerBusy
<1>5. TaskInv'
  BY LaneAssumption, <1>1 DEF CatchupStep, publisherVars, workerVars, LaneInv, TypeOK, TaskInv, LockInv, Waits, WorkerBusy, NoTask
<1>6. WorkerInv'
  BY LaneAssumption, <1>1 DEF CatchupStep, publisherVars, workerVars, LaneInv, TypeOK, WorkerInv, SubmissionInv, Cancelled
<1>7. WaiterHasTask'
  BY LaneAssumption, <1>1 DEF CatchupStep, publisherVars, workerVars, LaneInv, TypeOK, WaiterHasTask, TaskInv, Waits, WorkerBusy
<1>8. QED
  BY <1>1, <1>2, <1>3, <1>4, <1>5, <1>6, <1>7 DEF LaneInv

\* New reservations are refused.
LEMMA CloseInv ==
    ASSUME TypeOK, LaneInv, Close
    PROVE  TypeOK' /\ LaneInv'
<1>1. TypeOK'
  BY LaneAssumption DEF Close, CloserMoves, publisherVars, workerVars, LaneInv, TypeOK, PublisherStates, WorkerStates, CatchupStates, CloserStates, Tasks, NoTask
<1>2. LockInv'
  BY LaneAssumption, <1>1 DEF Close, CloserMoves, publisherVars, workerVars, LaneInv, TypeOK, LockInv
<1>3. SubmissionInv'
  BY LaneAssumption, <1>1 DEF Close, CloserMoves, publisherVars, workerVars, LaneInv, TypeOK, SubmissionInv, LockInv, Holds, One, Cancelled
<1>4. SlotInv'
  BY LaneAssumption, <1>1 DEF Close, CloserMoves, publisherVars, workerVars, LaneInv, TypeOK, SlotInv, LockInv, Holds, One, WorkerBusy
<1>5. TaskInv'
  BY LaneAssumption, <1>1 DEF Close, CloserMoves, publisherVars, workerVars, LaneInv, TypeOK, TaskInv, LockInv, Waits, WorkerBusy, NoTask
<1>6. WorkerInv'
  BY LaneAssumption, <1>1 DEF Close, CloserMoves, publisherVars, workerVars, LaneInv, TypeOK, WorkerInv, SubmissionInv, Cancelled
<1>7. WaiterHasTask'
  BY LaneAssumption, <1>1 DEF Close, CloserMoves, publisherVars, workerVars, LaneInv, TypeOK, WaiterHasTask, TaskInv, Waits, WorkerBusy
<1>8. QED
  BY <1>1, <1>2, <1>3, <1>4, <1>5, <1>6, <1>7 DEF LaneInv

\* Waiting reservations are cancelled.
LEMMA CancelReservesInv ==
    ASSUME TypeOK, LaneInv, CancelReserves
    PROVE  TypeOK' /\ LaneInv'
<1>1. TypeOK'
  BY LaneAssumption DEF CancelReserves, CloserMoves, publisherVars, workerVars, LaneInv, TypeOK, PublisherStates, WorkerStates, CatchupStates, CloserStates, Tasks, NoTask
<1>2. LockInv'
  BY LaneAssumption, <1>1 DEF CancelReserves, CloserMoves, publisherVars, workerVars, LaneInv, TypeOK, LockInv
<1>3. SubmissionInv'
  BY LaneAssumption, <1>1 DEF CancelReserves, CloserMoves, publisherVars, workerVars, LaneInv, TypeOK, SubmissionInv, LockInv, Holds, One, Cancelled
<1>4. SlotInv'
  BY LaneAssumption, <1>1 DEF CancelReserves, CloserMoves, publisherVars, workerVars, LaneInv, TypeOK, SlotInv, LockInv, Holds, One, WorkerBusy
<1>5. TaskInv'
  BY LaneAssumption, <1>1 DEF CancelReserves, CloserMoves, publisherVars, workerVars, LaneInv, TypeOK, TaskInv, LockInv, Waits, WorkerBusy, NoTask
<1>6. WorkerInv'
  BY LaneAssumption, <1>1 DEF CancelReserves, CloserMoves, publisherVars, workerVars, LaneInv, TypeOK, WorkerInv, SubmissionInv, Cancelled
<1>7. WaiterHasTask'
  BY LaneAssumption, <1>1 DEF CancelReserves, CloserMoves, publisherVars, workerVars, LaneInv, TypeOK, WaiterHasTask, TaskInv, Waits, WorkerBusy
<1>8. QED
  BY <1>1, <1>2, <1>3, <1>4, <1>5, <1>6, <1>7 DEF LaneInv

\* The workers are cancelled when no reservation is left.
LEMMA CancelWorkersInv ==
    ASSUME TypeOK, LaneInv, CancelWorkers
    PROVE  TypeOK' /\ LaneInv'
<1>1. TypeOK'
  BY LaneAssumption DEF CancelWorkers, CloserMoves, publisherVars, workerVars, LaneInv, TypeOK, PublisherStates, WorkerStates, CatchupStates, CloserStates, Tasks, NoTask
<1>2. LockInv'
  BY LaneAssumption, <1>1 DEF CancelWorkers, CloserMoves, publisherVars, workerVars, LaneInv, TypeOK, LockInv
<1>3. SubmissionInv'
  BY LaneAssumption, <1>1 DEF CancelWorkers, CloserMoves, publisherVars, workerVars, LaneInv, TypeOK, SubmissionInv, LockInv, Holds, One, Cancelled
<1>4. SlotInv'
  BY LaneAssumption, <1>1 DEF CancelWorkers, CloserMoves, publisherVars, workerVars, LaneInv, TypeOK, SlotInv, LockInv, Holds, One, WorkerBusy
<1>5. TaskInv'
  BY LaneAssumption, <1>1 DEF CancelWorkers, CloserMoves, publisherVars, workerVars, LaneInv, TypeOK, TaskInv, LockInv, Waits, WorkerBusy, NoTask
<1>6. WorkerInv'
  BY LaneAssumption, <1>1 DEF CancelWorkers, CloserMoves, publisherVars, workerVars, LaneInv, TypeOK, WorkerInv, SubmissionInv, Cancelled
<1>7. WaiterHasTask'
  BY LaneAssumption, <1>1 DEF CancelWorkers, CloserMoves, publisherVars, workerVars, LaneInv, TypeOK, WaiterHasTask, TaskInv, Waits, WorkerBusy
<1>8. QED
  BY <1>1, <1>2, <1>3, <1>4, <1>5, <1>6, <1>7 DEF LaneInv

\* close returns when the workers have.
LEMMA WorkersDoneInv ==
    ASSUME TypeOK, LaneInv, WorkersDone
    PROVE  TypeOK' /\ LaneInv'
<1>1. TypeOK'
  BY LaneAssumption DEF WorkersDone, CloserMoves, publisherVars, workerVars, LaneInv, TypeOK, PublisherStates, WorkerStates, CatchupStates, CloserStates, Tasks, NoTask
<1>2. LockInv'
  BY LaneAssumption, <1>1 DEF WorkersDone, CloserMoves, publisherVars, workerVars, LaneInv, TypeOK, LockInv
<1>3. SubmissionInv'
  BY LaneAssumption, <1>1 DEF WorkersDone, CloserMoves, publisherVars, workerVars, LaneInv, TypeOK, SubmissionInv, LockInv, Holds, One, Cancelled
<1>4. SlotInv'
  BY LaneAssumption, <1>1 DEF WorkersDone, CloserMoves, publisherVars, workerVars, LaneInv, TypeOK, SlotInv, LockInv, Holds, One, WorkerBusy
<1>5. TaskInv'
  BY LaneAssumption, <1>1 DEF WorkersDone, CloserMoves, publisherVars, workerVars, LaneInv, TypeOK, TaskInv, LockInv, Waits, WorkerBusy, NoTask
<1>6. WorkerInv'
  BY LaneAssumption, <1>1 DEF WorkersDone, CloserMoves, publisherVars, workerVars, LaneInv, TypeOK, WorkerInv, SubmissionInv, Cancelled
<1>7. WaiterHasTask'
  BY LaneAssumption, <1>1 DEF WorkersDone, CloserMoves, publisherVars, workerVars, LaneInv, TypeOK, WaiterHasTask, TaskInv, Waits, WorkerBusy
<1>8. QED
  BY <1>1, <1>2, <1>3, <1>4, <1>5, <1>6, <1>7 DEF LaneInv

-----------------------------------------------------------------------------
(* Theorems.                                                               *)

\* A stuttering step changes nothing.
LEMMA StutterInv ==
    ASSUME TypeOK, LaneInv, UNCHANGED vars
    PROVE  TypeOK' /\ LaneInv'
<1>1. TypeOK'
  BY DEF vars, TypeOK
<1>2. LockInv' /\ SubmissionInv' /\ SlotInv'
  BY DEF vars, LaneInv, LockInv, SubmissionInv, SlotInv, Holds, One, WorkerBusy, Cancelled
<1>3. TaskInv' /\ WorkerInv' /\ WaiterHasTask'
  BY DEF vars, LaneInv, TaskInv, WorkerInv, WaiterHasTask, WorkerBusy, Waits, Cancelled
<1>4. QED
  BY <1>1, <1>2, <1>3 DEF LaneInv

\* Every step keeps the invariant.
LEMMA LaneNext == TypeOK /\ LaneInv /\ [Next]_vars => TypeOK' /\ LaneInv'
<1> SUFFICES ASSUME TypeOK, LaneInv, [Next]_vars PROVE TypeOK' /\ LaneInv'
  OBVIOUS
<1>1. ASSUME NEW p \in Publishers, PublisherStep(p) PROVE TypeOK' /\ LaneInv'
  BY <1>1, TakeLockInv, ReserveInv, TakeSlotInv, GiveUpSlotInv, ReleaseInv, AppendDoneInv, EnqueueInv,
     SubmitDoneInv, StopWaitingInv DEF PublisherStep
<1>2. ASSUME NEW p \in Publishers, ClientStep(p) PROVE TypeOK' /\ LaneInv'
  BY <1>2, RequestInv, GiveUpSlotInv, StopWaitingInv DEF ClientStep
<1>3. CASE WorkerStep
  BY <1>3, WorkerTakeInv, WorkerStopInv, WorkerDrainInv, ProcessCheckInv, AttemptSucceedsInv,
     AttemptFencedInv, AttemptFailsInv, BackoffInv, HandoverInv, FreeSlotInv DEF WorkerStep
<1>4. CASE CatchupStep
  BY <1>4, CatchupStepInv
<1>5. CASE Close \/ CloserStep
  BY <1>5, CloseInv, CancelReservesInv, CancelWorkersInv, WorkersDoneInv DEF CloserStep
<1>6. CASE UNCHANGED vars
  BY <1>6, StutterInv
<1>7. QED
  BY <1>1, <1>2, <1>3, <1>4, <1>5, <1>6 DEF Next

\* The inductive invariant of the lane.
THEOREM LaneInvariance == Spec => [](TypeOK /\ LaneInv)
<1>1. QED
  BY InitLane, LaneNext, PTL DEF Spec

\* The counters stay in range and the queues within their channels' capacity, for
\* any number of publishers.
THEOREM LaneTypeCorrect == Spec => []TypeOK
<1>1. QED
  BY LaneInvariance, PTL

\* A publisher that holds a reservation never blocks on the queue (submit).
THEOREM ReservationsSuffice == Spec => []SubmitNeverBlocks
<1>1. TypeOK /\ LaneInv => SubmitNeverBlocks
  <2> SUFFICES ASSUME TypeOK, LaneInv, NEW p \in Publishers, pc[p] = "sending"
               PROVE  Len(queue) < Capacity
    BY DEF SubmitNeverBlocks
  <2>1. slots = Len(queue) + One(WorkerBusy) + 1
    BY HolderCount DEF One
  <2>2. QED
    BY <2>1, QueueType, LaneAssumption DEF TypeOK, One
<1>2. QED
  BY <1>1, LaneInvariance, PTL

\* No waiting publisher loses its task (process, run and its drain).
THEOREM NoTaskLost == Spec => []WaiterHasTask
<1>1. LaneInv => WaiterHasTask
  BY DEF LaneInv
<1>2. QED
  BY <1>1, LaneInvariance, PTL

\* When close returns, no task, slot, reservation or unanswered publisher is left.
THEOREM CloseIsClean == Spec => []CloseLeavesNothing
<1>1. TypeOK /\ LaneInv => CloseLeavesNothing
  <2> SUFFICES ASSUME TypeOK, LaneInv, closer = "returned" PROVE CloseLeavesNothing
    BY DEF CloseLeavesNothing
  <2>1. worker \in {"unborn", "returned"} /\ queue = <<>>
    BY DEF LaneInv, WorkerInv
  <2>2. submissions = 0
    BY DEF LaneInv, SubmissionInv, Cancelled
  <2>3. task.to = NoPublisher /\ ~WorkerBusy
    BY <2>1 DEF LaneInv, TaskInv, WorkerBusy, NoTask
  <2>4. ~Holds(lock, {"append", "sending"})
    BY <2>2 DEF LaneInv, SubmissionInv, Holds, One
  <2>5. Len(queue) = 0 /\ DOMAIN queue = {}
    BY <2>1
  <2>6. slots = 0
    BY <2>3, <2>4, <2>5 DEF LaneInv, SlotInv, One
  <2>7. ASSUME NEW p \in Publishers, pc[p] = "waiting" PROVE answered[p]
    <3>1. acks[p] = "all"
      BY <2>7 DEF LaneInv, LockInv
    <3>2. QED
      BY <2>7, <3>1, <2>3, <2>5, LaneAssumption DEF LaneInv, WaiterHasTask
  <2>8. QED
    BY <2>1, <2>2, <2>6, <2>7 DEF CloseLeavesNothing
<1>2. QED
  BY <1>1, LaneInvariance, PTL

=============================================================================
