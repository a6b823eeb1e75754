--------------------- MODULE PartitionReplicationProofs ---------------------
(***************************************************************************)
(* Theorems about PartitionReplication for any set of brokers and any      *)
(* bounds.  The first part holds of every behaviour: it is well typed,     *)
(* keeps its metadata monotone, shows no offset that Raft has not          *)
(* committed, and acknowledges under acks=all only what Raft has           *)
(* committed.  The invariant that carries it is TypeInv /\ SafeInv: a      *)
(* watermark that travels in a task, a request or a scan was committed     *)
(* before it was sent, and the committed watermark never falls.  The types *)
(* need it too, because one action (ScanFetch) reads records below a       *)
(* watermark and has to know that they exist.                              *)
(*                                                                         *)
(* The second part is about the records themselves while the partition is  *)
(* Undisturbed: ISR members hold what was committed, leaders show only     *)
(* that, no committed record is cut, and the partition implements          *)
(* CommittedLog.  The invariant is Lineage.  A step is one of three kinds: *)
(* a replica prepares its log and perhaps adds a record (Moves), a command *)
(* reaches the Raft log (Commands), or neither; each kind keeps the facts  *)
(* about logs (Grounds) and the promises of work in flight (Carries).      *)
(***************************************************************************)
EXTENDS PartitionReplication, SequenceTheorems, WellFoundedInduction, TLAPS

-----------------------------------------------------------------------------
(* Operators.                                                              *)

\* A nonempty set of brokers has a least member, the one sort.Strings puts first.
LEMMA MinimumInSet ==
    ASSUME NEW S \in SUBSET Brokers, S # {}
    PROVE  Minimum(S) \in S
<1> DEFINE R == {ss \in Nat \X Nat : ss[1] < ss[2]}
<1>1. IsWellFoundedOn(R, Nat)
  BY NatLessThanWellFounded, Zenon DEF OpToRel
<1>2. S \subseteq Nat
  BY BrokersAssumption
<1> HIDE DEF R
<1>3. PICK b \in S : \A c \in S : ~(<<c, b>> \in R)
  BY <1>1, <1>2, WFMin
<1>4. ASSUME NEW c \in S PROVE b <= c
  <2>1. c \in Nat /\ b \in Nat
    BY <1>2
  <2>2. ~(c < b)
    BY <2>1, <1>3, Zenon DEF R
  <2>3. QED
    BY <2>1, <2>2
<1>5. QED
  BY <1>4 DEF Minimum

\* The entries of the Raft log a step reads are metadata of the partition.
LEMMA MetaType ==
    ASSUME TypeInv
    PROVE  /\ Len(metaLog) \in Nat \ {0}
           /\ Meta \in Metadata
           /\ metaLog[1] \in Metadata
           /\ \A i \in 1..Len(metaLog) : metaLog[i] \in Metadata
           /\ \A n \in Brokers : applied[n] > 0 => View(n) \in Metadata
<1>1. metaLog \in Seq(Metadata) /\ metaLog # <<>>
  BY DEF TypeInv, TypeOK
<1>2. Len(metaLog) \in Nat \ {0}
  BY <1>1, EmptySeq
<1>3. \A i \in 1..Len(metaLog) : metaLog[i] \in Metadata
  BY <1>1, ElementOfSeq
<1>4. \A n \in Brokers : applied[n] \in Nat /\ applied[n] <= Len(metaLog)
  BY DEF TypeInv, TypeOK, Indices
<1>5. QED
  BY <1>2, <1>3, <1>4 DEF Meta, View

\* The task at the head of a lane and the rest of the lane.
LEMMA LaneType ==
    ASSUME TypeInv, NEW n \in Brokers
    PROVE  /\ lane[n] \in Seq(Tasks)
           /\ lane[n] # <<>> => Head(lane[n]) \in Tasks /\ Tail(lane[n]) \in Seq(Tasks)
<1>1. lane[n] \in Seq(Tasks)
  BY DEF TypeInv, TypeOK
<1>2. QED
  BY <1>1, HeadTailProperties

\* Replacing the head of a lane by a sequence of tasks.
LEMMA ReplaceHead ==
    ASSUME TypeInv, NEW n \in Brokers, lane[n] # <<>>, NEW ts \in Seq(Tasks),
           lane' = [lane EXCEPT ![n] = ts \o Tail(@)]
    PROVE  lane' \in [Brokers -> Seq(Tasks)]
<1>1. ts \o Tail(lane[n]) \in Seq(Tasks)
  BY LaneType, ConcatProperties
<1>2. QED
  BY <1>1 DEF TypeInv, TypeOK

\* A single task is a sequence.
LEMMA SingleTask ==
    ASSUME NEW t \in Tasks
    PROVE  <<t>> \in Seq(Tasks)
OBVIOUS

\* A failed task is a task.
LEMMA FailedType ==
    ASSUME NEW t \in Tasks
    PROVE  Failed(t) \in Tasks
BY DEF Failed, Tasks

-----------------------------------------------------------------------------
(* Types.                                                                  *)

\* The initial state has the right types.
LEMMA InitType ==
    ASSUME Init
    PROVE  TypeInv
<1>1. metaLog \in Seq(Metadata) /\ Len(metaLog) = 1 /\ metaLog[1] \in Metadata
  BY BrokersAssumption DEF Init, Metadata
<1>2. IdleScan \in Scans
  BY <1>1, EmptySeq DEF IdleScan, Scans
<1>3. TypeOK
  BY <1>1, <1>2, EmptySeq DEF Init, TypeOK, Fences
<1>4. Indices
  BY <1>1 DEF Init, Indices
<1>5. QED
  BY <1>3, <1>4 DEF TypeInv

\* Counting a bounded event.
LEMMA CountType ==
    ASSUME TypeInv, NEW e \in Events, Count(e)
    PROVE  used' \in [Events -> Nat]
BY DEF Count, TypeInv, TypeOK

\* Preparing a log for a new fence keeps it a log.
LEMMA PreparedType ==
    ASSUME TypeInv, NEW n \in Brokers, applied[n] > 0
    PROVE  /\ PreparedLog(n) \in Seq(Records)
           /\ PreparedHWM(n) \in Nat
           /\ FenceOf(View(n)) \in Fences
           /\ Unprepared(n) => Len(PreparedLog(n)) = View(n).hwm
           /\ ~Unprepared(n) => PreparedLog(n) = log[n]
<1>1. View(n) \in Metadata
  BY MetaType
<1>2. View(n).hwm \in Nat /\ View(n).epoch \in Nat \ {0} /\ View(n).leader \in Brokers
  BY <1>1 DEF Metadata
<1>3. log[n] \in Seq(Records) /\ Len(log[n]) \in Nat /\ HWM[n] \in Nat
  BY LenProperties DEF TypeInv, TypeOK
<1>4. Unprepared(n) => View(n).hwm <= Len(log[n])
  BY <1>2, <1>3 DEF Unprepared, LEO
<1>5. Unprepared(n) => \A i \in 1..View(n).hwm : log[n][i] \in Records
  BY <1>2, <1>3, <1>4, ElementOfSeq
<1>6. Unprepared(n) => /\ SubSeq(log[n], 1, View(n).hwm) \in Seq(Records)
                       /\ Len(SubSeq(log[n], 1, View(n).hwm)) = View(n).hwm
  BY <1>2, <1>5, SubSeqProperties
<1>7. QED
  BY <1>2, <1>3, <1>6 DEF PreparedLog, PreparedHWM, FenceOf, Fences

\* A publish appends a record that was not used before and a task for it.
LEMMA PublishType ==
    ASSUME TypeInv, NEW n \in Brokers, NEW acks \in AckModes, Publish(n, acks)
    PROVE  TypeInv'
<1> DEFINE rec == used["record"] + 1
<1> DEFINE l == Append(PreparedLog(n), rec)
<1>1. applied[n] > 0
  BY DEF Publish, CanLead, Serving
<1>2. View(n) \in Metadata
  BY <1>1, MetaType
<1>3. rec \in Records
  <2>1. used["record"] \in Nat
    BY DEF TypeInv, TypeOK, Events
  <2>2. used["record"] < MaxRecords
    BY DEF Publish
  <2>3. QED
    BY <2>1, <2>2, BoundsAssumption DEF Records
<1>4. l \in Seq(Records) /\ Len(l) \in Nat \ {0}
  BY <1>1, <1>3, PreparedType, AppendProperties, LenProperties
<1>5. NewTask(n, acks, rec, Len(l), FALSE) \in Tasks
  BY <1>2, <1>3, <1>4, BoundsAssumption DEF NewTask, Tasks, Metadata
<1>6. log' \in [Brokers -> Seq(Records)]
  BY <1>4 DEF Publish, TypeInv, TypeOK
<1>7. lane' \in [Brokers -> Seq(Tasks)]
  BY <1>5, LaneType, AppendProperties DEF Publish, TypeInv, TypeOK
<1>8. HWM' \in [Brokers -> Nat] /\ prepared' \in [Brokers -> Fences]
  BY <1>1, PreparedType DEF Publish, TypeInv, TypeOK
<1>9. used' \in [Events -> Nat]
  BY CountType DEF Publish, Events
<1>10. TypeOK'
  BY <1>6, <1>7, <1>8, <1>9 DEF Publish, TypeInv, TypeOK
<1>11. Indices'
  BY <1>1 DEF Publish, TypeInv, TypeOK, Indices
<1>12. QED
  BY <1>10, <1>11 DEF TypeInv

\* A retry adds a barrier for a record of the log.
LEMMA PublishDuplicateType ==
    ASSUME TypeInv, NEW n \in Brokers, NEW k \in 1..LEO(n), PublishDuplicate(n, k)
    PROVE  TypeInv'
<1> DEFINE l == PreparedLog(n)
           t == NewTask(n, "all", l[k], k, TRUE)
<1>1. applied[n] > 0
  BY DEF PublishDuplicate, CanLead, Serving
<1>2. View(n) \in Metadata
  BY <1>1, MetaType
<1>3. l \in Seq(Records) /\ k \in DOMAIN l
  BY <1>1, PreparedType DEF PublishDuplicate
<1>4. l[k] \in Records /\ k \in Nat \ {0}
  BY <1>3, ElementOfSeq, LenProperties
<1>5. t \in Tasks
  BY <1>2, <1>4 DEF NewTask, Tasks, Metadata
<1>6. log' \in [Brokers -> Seq(Records)] /\ HWM' \in [Brokers -> Nat] /\ prepared' \in [Brokers -> Fences]
  BY <1>1, PreparedType DEF PublishDuplicate, TypeInv, TypeOK
<1>7. lane' \in [Brokers -> Seq(Tasks)]
  BY <1>5, LaneType, AppendProperties DEF PublishDuplicate, TypeInv, TypeOK
<1>8. used' \in [Events -> Nat]
  BY CountType DEF PublishDuplicate, Events
<1>9. TypeOK'
  BY <1>6, <1>7, <1>8 DEF PublishDuplicate, TypeInv, TypeOK
<1>10. Indices'
  BY <1>1 DEF PublishDuplicate, TypeInv, TypeOK, Indices
<1>11. QED
  BY <1>9, <1>10 DEF TypeInv

\* A publish that fails leaves a prepared log.
LEMMA PublishFailsType ==
    ASSUME TypeInv, NEW n \in Brokers, NEW acks \in AckModes, PublishFails(n, acks)
    PROVE  TypeInv'
<1>1. applied[n] > 0
  BY DEF PublishFails, CanLead, Serving
<1>2. log' \in [Brokers -> Seq(Records)] /\ HWM' \in [Brokers -> Nat] /\ prepared' \in [Brokers -> Fences]
  BY <1>1, PreparedType DEF PublishFails, TypeInv, TypeOK
<1>3. QED
  BY <1>2 DEF PublishFails, TypeInv, TypeOK, Indices

\* A client that gives up changes no more than the waiting flags.
LEMMA ClientCancelType ==
    ASSUME TypeInv, NEW n \in Brokers, ClientCancel(n)
    PROVE  TypeInv'
<1> DEFINE q == [i \in DOMAIN lane[n] |-> [lane[n][i] EXCEPT !.waiting = FALSE]]
<1>1. lane[n] \in Seq(Tasks) /\ Len(lane[n]) \in Nat /\ DOMAIN lane[n] = 1..Len(lane[n])
  BY LaneType, LenProperties
<1>2. \A i \in 1..Len(lane[n]) : lane[n][i] \in Tasks
  BY <1>1, ElementOfSeq
<1>3. \A i \in 1..Len(lane[n]) : [lane[n][i] EXCEPT !.waiting = FALSE] \in Tasks
  BY <1>2 DEF Tasks
<1>4. q \in Seq(Tasks)
  BY <1>1, <1>3
<1>5. lane' = [lane EXCEPT ![n] = q]
  BY DEF ClientCancel
<1>6. lane' \in [Brokers -> Seq(Tasks)]
  BY <1>4, <1>5 DEF TypeInv, TypeOK
<1>7. TypeOK'
  BY <1>6 DEF ClientCancel, TypeInv, TypeOK
<1>8. lane[n] # <<>>
  BY <1>1, EmptySeq DEF ClientCancel, Locked
<1>9. Indices'
  BY <1>5, <1>8 DEF ClientCancel, TypeInv, TypeOK, Indices
<1>10. QED
  BY <1>7, <1>9 DEF TypeInv

\* The head of a nonempty lane is dropped or replaced by another task.
LEMMA DropHeadType ==
    ASSUME TypeInv, NEW n \in Brokers, lane[n] # <<>>, DropHead(n)
    PROVE  lane' \in [Brokers -> Seq(Tasks)]
BY LaneType DEF DropHead, TypeInv, TypeOK

\* Setting the head of a lane keeps the lane a sequence of tasks.
LEMMA SetHeadType ==
    ASSUME TypeInv, NEW n \in Brokers, lane[n] # <<>>, NEW t \in Tasks, SetHead(n, t)
    PROVE  lane' \in [Brokers -> Seq(Tasks)]
BY SingleTask, ReplaceHead DEF SetHead

\* A step that changes only the lanes, and only lanes with work in them.
LEMMA LaneStepType ==
    ASSUME TypeInv, NEW n \in Brokers, lane[n] # <<>>, NEW q, lane' = [lane EXCEPT ![n] = q],
           lane' \in [Brokers -> Seq(Tasks)],
           net' \subseteq Requests, cmds' \subseteq Commits, HWM' \in [Brokers -> Nat],
           acked' \subseteq (Records \X (Nat \ {0})), dupAcked' \subseteq (Records \X (Nat \ {0})),
           UNCHANGED <<metaLog, applied, log, prepared, proofs, scan, snapshot, replayTarget,
                       used, committed>>
    PROVE  TypeInv'
<1>1. TypeOK'
  BY DEF TypeInv, TypeOK
<1>2. Indices'
  BY DEF TypeInv, TypeOK, Indices
<1>3. QED
  BY <1>1, <1>2 DEF TypeInv

\* A fenced task leaves the lane.
LEMMA LaneFencedType ==
    ASSUME TypeInv, NEW n \in Brokers, LaneFenced(n)
    PROVE  TypeInv'
<1>1. lane[n] # <<>>
  BY DEF LaneFenced, AtSnapshot, AtHead
<1>2. lane' \in [Brokers -> Seq(Tasks)]
  BY <1>1, DropHeadType DEF LaneFenced
<1>3. QED
  BY <1>1, <1>2, LaneStepType DEF LaneFenced, DropHead, LaneUnchanged, TypeInv, TypeOK

\* A leader outside the ISR keeps its task.
LEMMA LaneLeaderOutOfISRType ==
    ASSUME TypeInv, NEW n \in Brokers, LaneLeaderOutOfISR(n)
    PROVE  TypeInv'
<1>1. lane[n] # <<>>
  BY DEF LaneLeaderOutOfISR, AtSnapshot, AtHead
<1>2. lane' \in [Brokers -> Seq(Tasks)]
  BY <1>1, LaneType, FailedType, SetHeadType DEF LaneLeaderOutOfISR
<1>3. QED
  BY <1>1, <1>2, LaneStepType DEF LaneLeaderOutOfISR, SetHead, LaneUnchanged, TypeInv, TypeOK

\* An attempt begins with the replicas to ask.
LEMMA LaneStartType ==
    ASSUME TypeInv, NEW n \in Brokers, LaneStart(n)
    PROVE  TypeInv'
<1> DEFINE t == Head(lane[n])
           isr == IF t.acks = "all" THEN t.isr ELSE View(n).isr
           u == [t EXCEPT !.pc = "send", !.isr = isr, !.todo = isr \ {n}]
<1>1. lane[n] # <<>> /\ applied[n] > 0
  BY DEF LaneStart, AtHead, TypeInv, Indices
<1>2. t \in Tasks /\ View(n) \in Metadata
  BY <1>1, LaneType, MetaType
<1>3. u \in Tasks
  BY <1>2 DEF Tasks, Metadata
<1>4. SetHead(n, u)
  BY DEF LaneStart
<1>5. lane' \in [Brokers -> Seq(Tasks)]
  BY <1>1, <1>3, <1>4, SetHeadType
<1>6. QED
  BY <1>1, <1>4, <1>5, LaneStepType DEF LaneStart, SetHead, LaneUnchanged, TypeInv, TypeOK

\* A barrier leaves the lane with an answer to the retry.
LEMMA LaneBarrierType ==
    ASSUME TypeInv, NEW n \in Brokers, LaneBarrier(n)
    PROVE  TypeInv'
<1> DEFINE t == Head(lane[n])
<1>1. lane[n] # <<>> /\ t \in Tasks
  BY LaneType DEF LaneBarrier, AtHead
<1>2. lane' \in [Brokers -> Seq(Tasks)]
  BY <1>1, DropHeadType DEF LaneBarrier
<1>3. <<t.rec, t.hwm>> \in Records \X (Nat \ {0})
  BY <1>1 DEF Tasks
<1>4. dupAcked' \subseteq (Records \X (Nat \ {0}))
  BY <1>3 DEF LaneBarrier, TypeInv, TypeOK
<1>5. QED
  BY <1>1, <1>2, <1>4, LaneStepType DEF LaneBarrier, DropHead, LaneUnchanged, TypeInv, TypeOK

\* A request for a broker is a request.
LEMMA RequestType ==
    ASSUME NEW n \in Brokers, NEW t \in Tasks, NEW b \in Brokers, NEW c \in BOOLEAN
    PROVE  RequestOf(n, t, b, c) \in Requests
BY DEF RequestOf, Requests, Tasks

\* The request goes to a broker.
LEMMA LaneSendType ==
    ASSUME TypeInv, NEW n \in Brokers, LaneSend(n)
    PROVE  TypeInv'
<1> DEFINE t == Head(lane[n])
           u == [t EXCEPT !.pc = "wait"]
<1>1. lane[n] # <<>> /\ t \in Tasks /\ t.todo # {}
  BY LaneType DEF LaneSend, AtHead
<1>2. u \in Tasks /\ t.todo \in SUBSET Brokers
  BY <1>1 DEF Tasks
<1>3. Minimum(t.todo) \in Brokers
  BY <1>1, <1>2, MinimumInSet
<1>4. RequestOf(n, t, Minimum(t.todo), FALSE) \in Requests
  BY <1>1, <1>3, RequestType
<1>5. SetHead(n, u) /\ net' = net \cup {RequestOf(n, t, Minimum(t.todo), FALSE)}
  BY DEF LaneSend
<1>6. lane' \in [Brokers -> Seq(Tasks)]
  BY <1>1, <1>2, <1>5, SetHeadType
<1>7. net' \subseteq Requests
  BY <1>4, <1>5 DEF TypeInv, TypeOK
<1>8. QED
  BY <1>1, <1>5, <1>6, <1>7, LaneStepType DEF LaneSend, SetHead, LaneUnchanged, TypeInv, TypeOK

\* An attempt that timed out starts again.
LEMMA LaneTimeoutType ==
    ASSUME TypeInv, NEW n \in Brokers, LaneTimeout(n)
    PROVE  TypeInv'
<1>1. lane[n] # <<>>
  BY DEF LaneTimeout, AtHead
<1>2. lane' \in [Brokers -> Seq(Tasks)]
  BY <1>1, LaneType, FailedType, SetHeadType DEF LaneTimeout
<1>3. QED
  BY <1>1, <1>2, LaneStepType DEF LaneTimeout, SetHead, LaneUnchanged, TypeInv, TypeOK

\* A commit is proposed for the task.
LEMMA LaneProposeType ==
    ASSUME TypeInv, NEW n \in Brokers, LanePropose(n)
    PROVE  TypeInv'
<1> DEFINE t == Head(lane[n])
           u == [t EXCEPT !.pc = "committing"]
           c == CommitOf(n, t)
<1>1. lane[n] # <<>> /\ t \in Tasks
  BY LaneType DEF LanePropose, AtHead
<1>2. u \in Tasks /\ c \in Commits
  BY <1>1 DEF Tasks, Commits, CommitOf
<1>3. SetHead(n, u) /\ cmds' = cmds \cup {c}
  BY DEF LanePropose
<1>4. lane' \in [Brokers -> Seq(Tasks)]
  BY <1>1, <1>2, <1>3, SetHeadType
<1>5. cmds' \subseteq Commits
  BY <1>2, <1>3 DEF TypeInv, TypeOK
<1>6. QED
  BY <1>1, <1>3, <1>4, <1>5, LaneStepType DEF LanePropose, SetHead, LaneUnchanged, TypeInv, TypeOK

\* The leader raises its own watermark after the commit.
LEMMA LaneCommittedType ==
    ASSUME TypeInv, NEW n \in Brokers, LaneCommitted(n)
    PROVE  TypeInv'
<1> DEFINE t == Head(lane[n])
           u == IF CanRaise(n, t.hwm) THEN [t EXCEPT !.pc = "finish"] ELSE Failed(t)
<1>1. lane[n] # <<>> /\ t \in Tasks
  BY LaneType DEF LaneCommitted, AtHead
<1>2. u \in Tasks /\ t.hwm \in Nat
  BY <1>1, FailedType DEF Tasks
<1>3. SetHead(n, u)
  BY DEF LaneCommitted
<1>4. lane' \in [Brokers -> Seq(Tasks)]
  BY <1>1, <1>2, <1>3, SetHeadType
<1>5. HWM' \in [Brokers -> Nat]
  BY <1>2 DEF LaneCommitted, Larger, TypeInv, TypeOK
<1>6. UNCHANGED <<metaLog, applied, log, prepared, proofs, scan, snapshot, replayTarget, used,
                  committed, net, cmds, acked, dupAcked>>
  BY DEF LaneCommitted
<1>7. QED
  BY <1>1, <1>3, <1>4, <1>5, <1>6, LaneStepType DEF SetHead, TypeInv, TypeOK

\* The task ends with an answer and the best-effort copies.
LEMMA LaneFinishType ==
    ASSUME TypeInv, NEW n \in Brokers, LaneFinish(n)
    PROVE  TypeInv'
<1> DEFINE t == Head(lane[n])
<1>1. lane[n] # <<>> /\ t \in Tasks
  BY LaneType DEF LaneFinish, AtHead
<1>2. lane' \in [Brokers -> Seq(Tasks)]
  BY <1>1, DropHeadType DEF LaneFinish
<1>3. \A b \in Brokers : RequestOf(n, t, b, TRUE) \in Requests
  BY <1>1, RequestType
<1>4. net' = net \cup {RequestOf(n, t, b, TRUE) : b \in Brokers \ (t.isr \cup {n})}
  BY DEF LaneFinish
<1>5. net' \subseteq Requests
  BY <1>3, <1>4 DEF TypeInv, TypeOK
<1>6. <<t.rec, t.hwm>> \in Records \X (Nat \ {0})
  BY <1>1 DEF Tasks
<1>7. acked' \subseteq (Records \X (Nat \ {0}))
  BY <1>6 DEF LaneFinish, TypeInv, TypeOK
<1>8. QED
  BY <1>1, <1>2, <1>5, <1>7, LaneStepType DEF LaneFinish, DropHead, LaneUnchanged, TypeInv, TypeOK

-----------------------------------------------------------------------------
(* Followers, Raft commands, catch-up and recovery.                        *)

\* A follower's or the Raft log's answer replaces the head of a lane that waits
\* for it, and leaves every other lane alone.
LEMMA AnswerType ==
    ASSUME TypeInv, NEW m \in Requests, NEW ts,
           Awaiting(m) => ts \in Seq(Tasks), Answer(m, ts)
    PROVE  /\ lane' \in [Brokers -> Seq(Tasks)]
           /\ \A b \in Brokers : lane'[b] # <<>> => lane[b] # <<>>
<1>1. m.leader \in Brokers
  BY DEF Requests
<1>2. CASE Awaiting(m)
  <2>1. lane[m.leader] # <<>>
    BY <1>2 DEF Awaiting, AtHead
  <2>2. lane' = [lane EXCEPT ![m.leader] = ts \o Tail(@)]
    BY <1>2 DEF Answer
  <2>3. lane' \in [Brokers -> Seq(Tasks)]
    BY <1>1, <1>2, <2>1, <2>2, ReplaceHead
  <2>4. QED
    BY <1>1, <2>1, <2>2, <2>3 DEF TypeInv, TypeOK
<1>3. CASE ~Awaiting(m)
  BY <1>3 DEF Answer, TypeInv, TypeOK
<1>4. QED
  BY <1>2, <1>3

\* A follower's log after an accepted request holds the request's record.
LEMMA AppendedType ==
    ASSUME NEW l \in Seq(Records), NEW m \in Requests, CanAppend(l, m)
    PROVE  /\ Appended(l, m) \in Seq(Records)
           /\ m.hwm <= Len(Appended(l, m))
           /\ Len(l) <= Len(Appended(l, m))
<1>1. m.rec \in Records /\ m.hwm \in Nat \ {0} /\ Len(l) \in Nat
  BY LenProperties DEF Requests
<1>2. CASE SameRecord(l, m)
  BY <1>1, <1>2 DEF Appended, SameRecord
<1>3. CASE ~SameRecord(l, m)
  <2>1. m.hwm = Len(l) + 1 /\ Appended(l, m) = Append(l, m.rec)
    BY <1>3 DEF CanAppend, Appended
  <2>2. QED
    BY <1>1, <2>1, AppendProperties
<1>4. QED
  BY <1>2, <1>3

\* A request handled by a follower: whatever it does to its log, the types hold.
LEMMA FollowerType ==
    ASSUME TypeInv, NEW m \in net, NEW ts, Awaiting(m) => ts \in Seq(Tasks), Answer(m, ts),
           net' = net \ {m}, log' \in [Brokers -> Seq(Records)], HWM' \in [Brokers -> Nat],
           prepared' \in [Brokers -> Fences], FollowerUnchanged
    PROVE  TypeInv'
<1>1. m \in Requests
  BY DEF TypeInv, TypeOK
<1>2. /\ lane' \in [Brokers -> Seq(Tasks)]
      /\ \A b \in Brokers : lane'[b] # <<>> => lane[b] # <<>>
  BY <1>1, AnswerType
<1>3. TypeOK'
  BY <1>2 DEF FollowerUnchanged, TypeInv, TypeOK
<1>4. Indices'
  BY <1>2 DEF FollowerUnchanged, TypeInv, Indices
<1>5. QED
  BY <1>3, <1>4 DEF TypeInv

\* A follower appends the record of a request.
LEMMA ReplicaAppendType ==
    ASSUME TypeInv, NEW m \in net, ReplicaAppend(m)
    PROVE  TypeInv'
<1> DEFINE n == m.to
           t == Head(lane[m.leader])
           ts == <<[t EXCEPT !.pc = "send", !.todo = @ \ {n}]>>
<1>1. m \in Requests /\ n \in Brokers /\ m.leader \in Brokers /\ m.hwm \in Nat
  BY DEF TypeInv, TypeOK, Requests
<1>2. Awaiting(m) => t \in Tasks
  BY <1>1, LaneType DEF Awaiting, AtHead
<1>3. Awaiting(m) => ts \in Seq(Tasks)
  <2>1. Awaiting(m) => [t EXCEPT !.pc = "send", !.todo = @ \ {n}] \in Tasks
    BY <1>2 DEF Tasks
  <2>2. QED
    BY <2>1, SingleTask
<1>4. applied[n] > 0
  BY DEF ReplicaAppend, Serving
<1>5. /\ PreparedLog(n) \in Seq(Records) /\ PreparedHWM(n) \in Nat /\ FenceOf(View(n)) \in Fences
  BY <1>1, <1>4, PreparedType
<1>6. CanAppend(PreparedLog(n), m)
  BY DEF ReplicaAppend
<1>7. Appended(PreparedLog(n), m) \in Seq(Records)
  BY <1>1, <1>5, <1>6, AppendedType
<1>8. log' \in [Brokers -> Seq(Records)]
  BY <1>7 DEF ReplicaAppend, TypeInv, TypeOK
<1>9. HWM' \in [Brokers -> Nat] /\ prepared' \in [Brokers -> Fences]
  BY <1>1, <1>5 DEF ReplicaAppend, Larger, TypeInv, TypeOK
<1>10. net' = net \ {m} /\ Answer(m, ts) /\ FollowerUnchanged
  BY DEF ReplicaAppend
<1>11. QED
  BY <1>3, <1>8, <1>9, <1>10, FollowerType

\* A follower refuses a request after preparing its log.
LEMMA ReplicaRejectType ==
    ASSUME TypeInv, NEW m \in net, ReplicaReject(m)
    PROVE  TypeInv'
<1> DEFINE n == m.to
           t == Head(lane[m.leader])
           ts == <<Failed(t)>>
<1>1. m \in Requests /\ n \in Brokers /\ m.leader \in Brokers
  BY DEF TypeInv, TypeOK, Requests
<1>2. Awaiting(m) => t \in Tasks
  BY <1>1, LaneType DEF Awaiting, AtHead
<1>3. Awaiting(m) => ts \in Seq(Tasks)
  BY <1>2, FailedType, SingleTask
<1>4. applied[n] > 0
  BY DEF ReplicaReject, Serving
<1>5. /\ PreparedLog(n) \in Seq(Records) /\ PreparedHWM(n) \in Nat /\ FenceOf(View(n)) \in Fences
  BY <1>1, <1>4, PreparedType
<1>6. /\ log' \in [Brokers -> Seq(Records)]
      /\ HWM' \in [Brokers -> Nat] /\ prepared' \in [Brokers -> Fences]
  BY <1>5 DEF ReplicaReject, TypeInv, TypeOK
<1>7. net' = net \ {m} /\ Answer(m, ts) /\ FollowerUnchanged
  BY DEF ReplicaReject
<1>8. QED
  BY <1>3, <1>6, <1>7, FollowerType

\* A follower fences a request.
LEMMA ReplicaFenceType ==
    ASSUME TypeInv, NEW m \in net, ReplicaFence(m)
    PROVE  TypeInv'
<1>1. <<>> \in Seq(Tasks)
  BY EmptySeq
<1>2. net' = net \ {m} /\ Answer(m, <<>>) /\ FollowerUnchanged /\ UNCHANGED <<log, HWM, prepared>>
  BY DEF ReplicaFence
<1>3. QED
  BY <1>1, <1>2, FollowerType DEF TypeInv, TypeOK

\* A command reaches the Raft log: the entries before it stay where they are.
LEMMA RaftAppendType ==
    ASSUME TypeInv, NEW m \in Metadata, RaftAppend(m)
    PROVE  /\ metaLog' \in Seq(Metadata) /\ metaLog' # <<>>
           /\ Len(metaLog') = Len(metaLog) + 1
           /\ metaLog'[Len(metaLog) + 1] = m
           /\ \A i \in 1..Len(metaLog) : metaLog'[i] = metaLog[i]
           /\ Meta' = m
<1>1. metaLog \in Seq(Metadata) /\ Len(metaLog) \in Nat \ {0}
  BY MetaType DEF TypeInv, TypeOK
<1>2. metaLog' = Append(metaLog, m)
  BY DEF RaftAppend
<1>3. /\ metaLog' \in Seq(Metadata)
      /\ Len(metaLog') = Len(metaLog) + 1
      /\ metaLog'[Len(metaLog) + 1] = m
      /\ \A i \in 1..Len(metaLog) : metaLog'[i] = metaLog[i]
  BY <1>1, <1>2, AppendProperties
<1>4. QED
  BY <1>1, <1>3, EmptySeq DEF Meta

\* The Raft log grows by a command and the brokers' own state stays.
LEMMA RaftStepType ==
    ASSUME TypeInv, NEW m \in Metadata, RaftAppend(m), FSMUnchanged,
           lane' \in [Brokers -> Seq(Tasks)],
           \A b \in Brokers : lane'[b] # <<>> => lane[b] # <<>>,
           cmds' \subseteq Commits, proofs' \subseteq Proofs, used' \in [Events -> Nat],
           committed' \in Seq(Records \cup {0}), UNCHANGED <<acked, dupAcked>>
    PROVE  TypeInv'
<1>1. metaLog' \in Seq(Metadata) /\ metaLog' # <<>> /\ Len(metaLog') = Len(metaLog) + 1
  BY RaftAppendType
<1>2. Len(metaLog) \in Nat
  BY MetaType
<1>3. TypeOK'
  BY <1>1 DEF FSMUnchanged, TypeInv, TypeOK
<1>4. ASSUME NEW n \in Brokers
      PROVE  /\ applied'[n] <= Len(metaLog') /\ snapshot'[n] <= Len(metaLog')
             /\ lane'[n] # <<>> => applied'[n] > 0
  <2>1. applied[n] \in Nat /\ snapshot[n] \in Nat /\ applied' = applied /\ snapshot' = snapshot
    BY DEF FSMUnchanged, TypeInv, TypeOK
  <2>2. /\ applied[n] <= Len(metaLog) /\ snapshot[n] <= Len(metaLog)
        /\ lane[n] # <<>> => applied[n] > 0
    BY DEF TypeInv, Indices
  <2>3. QED
    BY <1>1, <1>2, <2>1, <2>2
<1>5. Indices'
  BY <1>4 DEF Indices
<1>6. QED
  BY <1>3, <1>5 DEF TypeInv

\* The answer to a proposed commit, as for replica requests.
LEMMA CommitAnswerType ==
    ASSUME TypeInv, NEW c \in Commits, NEW ts,
           AwaitingCommit(c) => ts \in Seq(Tasks), CommitAnswer(c, ts)
    PROVE  /\ lane' \in [Brokers -> Seq(Tasks)]
           /\ \A b \in Brokers : lane'[b] # <<>> => lane[b] # <<>>
<1>1. c.leader \in Brokers
  BY DEF Commits
<1>2. CASE AwaitingCommit(c)
  <2>1. lane[c.leader] # <<>>
    BY <1>2 DEF AwaitingCommit, AtHead
  <2>2. lane' = [lane EXCEPT ![c.leader] = ts \o Tail(@)]
    BY <1>2 DEF CommitAnswer
  <2>3. lane' \in [Brokers -> Seq(Tasks)]
    BY <1>1, <1>2, <2>1, <2>2, ReplaceHead
  <2>4. QED
    BY <1>1, <2>1, <2>2, <2>3 DEF TypeInv, TypeOK
<1>3. CASE ~AwaitingCommit(c)
  BY <1>3 DEF CommitAnswer, TypeInv, TypeOK
<1>4. QED
  BY <1>2, <1>3

\* What a commit covers is a sequence of records, as long as its watermark.
LEMMA CoveredType ==
    ASSUME TypeInv, NEW c \in Commits
    PROVE  Covered(c) \in Seq(Records \cup {0}) /\ Len(Covered(c)) = c.hwm
<1>1. c.leader \in Brokers /\ c.hwm \in Nat \ {0} /\ c.rec \in Records
  BY DEF Commits
<1>2. committed \in Seq(Records \cup {0}) /\ Len(committed) \in Nat
  BY LenProperties DEF TypeInv, TypeOK
<1>3. log[c.leader] \in Seq(Records) /\ LEO(c.leader) \in Nat
  BY <1>1, LenProperties DEF LEO, TypeInv, TypeOK
<1>4. \A k \in 1..c.hwm : k <= Len(committed) => committed[k] \in Records \cup {0}
  BY <1>1, <1>2, ElementOfSeq
<1>5. \A k \in 1..c.hwm : k <= LEO(c.leader) => log[c.leader][k] \in Records
  BY <1>1, <1>3, ElementOfSeq DEF LEO
<1>6. Covered(c) \in [1..c.hwm -> Records \cup {0}]
  BY <1>1, <1>4, <1>5 DEF Covered
<1>7. QED
  BY <1>1, <1>6

\* A commit reaches the Raft log and is accepted.
LEMMA CommitAcceptedType ==
    ASSUME TypeInv, NEW c \in cmds, CommitAccepted(c)
    PROVE  TypeInv'
<1> DEFINE t == Head(lane[c.leader])
           ts == <<[t EXCEPT !.pc = "committed"]>>
           m == [Meta EXCEPT !.kind = "commit", !.hwm = c.hwm]
<1>1. c \in Commits /\ c.leader \in Brokers /\ c.hwm \in Nat
  BY DEF TypeInv, TypeOK, Commits
<1>2. AwaitingCommit(c) => t \in Tasks
  BY <1>1, LaneType DEF AwaitingCommit, AtHead
<1>3. AwaitingCommit(c) => [t EXCEPT !.pc = "committed"] \in Tasks
  BY <1>2 DEF Tasks
<1>4. AwaitingCommit(c) => ts \in Seq(Tasks)
  BY <1>3, SingleTask
<1>5. CommitAnswer(c, ts)
  BY DEF CommitAccepted
<1>6. /\ lane' \in [Brokers -> Seq(Tasks)]
      /\ \A b \in Brokers : lane'[b] # <<>> => lane[b] # <<>>
  BY <1>1, <1>4, <1>5, CommitAnswerType
<1>7. m \in Metadata
  BY <1>1, MetaType DEF Metadata
<1>8. committed' \in Seq(Records \cup {0})
  BY <1>1, CoveredType DEF CommitAccepted, TypeInv, TypeOK
<1>9. RaftAppend(m) /\ FSMUnchanged /\ cmds' = cmds \ {c} /\ UNCHANGED <<proofs, used, acked, dupAcked>>
  BY DEF CommitAccepted
<1>10. QED
  BY <1>6, <1>7, <1>8, <1>9, RaftStepType DEF TypeInv, TypeOK

\* A commit reaches the Raft log and is refused.
LEMMA CommitRejectedType ==
    ASSUME TypeInv, NEW c \in cmds, CommitRejected(c)
    PROVE  TypeInv'
<1> DEFINE t == Head(lane[c.leader])
           ts == IF CommitFenceHolds(c) THEN <<Failed(t)>> ELSE <<>>
<1>1. c \in Commits /\ c.leader \in Brokers
  BY DEF TypeInv, TypeOK, Commits
<1>2. AwaitingCommit(c) => t \in Tasks
  BY <1>1, LaneType DEF AwaitingCommit, AtHead
<1>3. AwaitingCommit(c) => ts \in Seq(Tasks)
  BY <1>2, FailedType, SingleTask, EmptySeq
<1>4. CommitAnswer(c, ts)
  BY DEF CommitRejected
<1>5. /\ lane' \in [Brokers -> Seq(Tasks)]
      /\ \A b \in Brokers : lane'[b] # <<>> => lane[b] # <<>>
  BY <1>1, <1>3, <1>4, CommitAnswerType
<1>6. /\ cmds' = cmds \ {c} /\ FSMUnchanged
      /\ UNCHANGED <<metaLog, proofs, used, committed, acked, dupAcked>>
  BY DEF CommitRejected
<1>7. TypeOK'
  BY <1>5, <1>6 DEF FSMUnchanged, TypeInv, TypeOK
<1>8. Indices'
  BY <1>5, <1>6 DEF FSMUnchanged, TypeInv, Indices
<1>9. QED
  BY <1>7, <1>8 DEF TypeInv

\* The metadata ComputeISR proposes.
LEMMA ComputedISRType ==
    ASSUME NEW m \in Metadata, NEW alive \in SUBSET Brokers
    PROVE  ComputedISR(m, alive) \in Metadata
<1>1. CASE m.leader \notin alive /\ alive # {}
  <2> DEFINE u == [m EXCEPT !.kind = "partition", !.isr = alive,
                            !.leader = Minimum(alive), !.epoch = @ + 1]
  <2>1. Minimum(alive) \in Brokers
    BY <1>1, MinimumInSet
  <2>2. m.epoch + 1 \in Nat \ {0}
    BY DEF Metadata
  <2>3. u \in Metadata
    BY <2>1, <2>2, Zenon DEF Metadata
  <2>4. QED
    BY <1>1, <2>3 DEF ComputedISR
<1>2. CASE ~(m.leader \notin alive /\ alive # {})
  BY <1>2 DEF ComputedISR, Metadata
<1>3. QED
  BY <1>1, <1>2

\* The steps of the ISR manager and of the administrator.
LEMMA ControllerType ==
    ASSUME TypeInv,
           \/ \E i \in DOMAIN metaLog : \E alive \in SUBSET metaLog[i].isr : ComputeISR(i, alive)
           \/ \E b \in Brokers : ElectLeader(b)
           \/ AlterTopic
    PROVE  TypeInv'
<1>1. ASSUME NEW i \in DOMAIN metaLog, NEW alive \in SUBSET metaLog[i].isr, ComputeISR(i, alive)
      PROVE  TypeInv'
  <2>1. metaLog[i] \in Metadata
    BY MetaType, LenProperties DEF TypeInv, TypeOK
  <2>2. alive \in SUBSET Brokers
    BY <2>1 DEF Metadata
  <2>3. ComputedISR(metaLog[i], alive) \in Metadata
    BY <2>1, <2>2, ComputedISRType
  <2>4. /\ RaftAppend(ComputedISR(metaLog[i], alive)) /\ FSMUnchanged
        /\ UNCHANGED <<lane, cmds, proofs, used, committed, acked, dupAcked>>
    BY <1>1 DEF ComputeISR
  <2>5. QED
    BY <2>3, <2>4, RaftStepType DEF TypeInv, TypeOK
<1>2. ASSUME NEW b \in Brokers, ElectLeader(b)
      PROVE  TypeInv'
  <2> DEFINE m == [Meta EXCEPT !.kind = "election", !.leader = b, !.epoch = @ + 1]
  <2>1. Meta \in Metadata /\ Meta.epoch + 1 \in Nat \ {0}
    BY MetaType DEF Metadata
  <2>2. m \in Metadata
    BY <2>1, Zenon DEF Metadata
  <2>3. /\ RaftAppend(m) /\ FSMUnchanged
        /\ UNCHANGED <<lane, cmds, proofs, used, committed, acked, dupAcked>>
    BY <1>2 DEF ElectLeader
  <2>4. QED
    BY <2>2, <2>3, RaftStepType DEF TypeInv, TypeOK
<1>3. ASSUME AlterTopic
      PROVE  TypeInv'
  <2> DEFINE m == [Meta EXCEPT !.kind = "topic"]
  <2>1. m \in Metadata
    BY MetaType DEF Metadata
  <2>2. /\ RaftAppend(m) /\ FSMUnchanged /\ Count("alter")
        /\ UNCHANGED <<lane, cmds, proofs, committed, acked, dupAcked>>
    BY <1>3 DEF AlterTopic
  <2>3. used' \in [Events -> Nat]
    BY <2>2, CountType DEF Events
  <2>4. QED
    BY <2>1, <2>2, <2>3, RaftStepType DEF TypeInv, TypeOK
<1>4. QED
  BY <1>1, <1>2, <1>3

\* A catch-up proof is built, and decides on re-admission when it is applied.
LEMMA ProofStepType ==
    ASSUME TypeInv,
           \/ \E n \in Brokers : BuildProof(n)
           \/ \E p \in proofs : ISRCatchup(p)
    PROVE  TypeInv'
<1>1. ASSUME NEW n \in Brokers, BuildProof(n)
      PROVE  TypeInv'
  <2> DEFINE p == [broker |-> n, hwm |-> View(n).hwm, epoch |-> View(n).epoch]
  <2>1. View(n) \in Metadata
    BY <1>1, MetaType DEF BuildProof, Serving
  <2>2. p \in Proofs
    BY <2>1 DEF Metadata, Proofs
  <2>3. proofs' = proofs \cup {p} /\ Count("proof")
    BY <1>1 DEF BuildProof
  <2>4. used' \in [Events -> Nat]
    BY <2>3, CountType DEF Events
  <2>5. QED
    BY <1>1, <2>2, <2>3, <2>4 DEF BuildProof, brokerVars, TypeInv, TypeOK, Indices
<1>2. ASSUME NEW p \in proofs, ISRCatchup(p)
      PROVE  TypeInv'
  <2> DEFINE m == [Meta EXCEPT !.kind = "isr", !.isr = @ \cup {p.broker}]
  <2>1. p \in Proofs /\ p.broker \in Brokers
    BY DEF Proofs, TypeInv, TypeOK
  <2>2. m \in Metadata
    BY <2>1, MetaType DEF Metadata
  <2>3. proofs' = proofs \ {p} /\ FSMUnchanged /\ UNCHANGED <<lane, cmds, used, committed, acked, dupAcked>>
    BY <1>2 DEF ISRCatchup
  <2>4. CASE RaftAppend(m)
    BY <2>2, <2>3, <2>4, RaftStepType DEF TypeInv, TypeOK
  <2>5. CASE UNCHANGED metaLog
    BY <2>3, <2>5 DEF FSMUnchanged, TypeInv, TypeOK, Indices
  <2>6. QED
    BY <1>2, <2>4, <2>5 DEF ISRCatchup
<1>3. QED
  BY <1>1, <1>2

\* Cutting a log at a boundary it reaches.
LEMMA CutType ==
    ASSUME NEW l \in Seq(Records), NEW h \in Nat, h <= Len(l)
    PROVE  SubSeq(l, 1, h) \in Seq(Records) /\ Len(SubSeq(l, 1, h)) = h
<1>1. Len(l) \in Nat
  BY LenProperties
<1>2. \A i \in 1..h : l[i] \in Records
  BY <1>1, ElementOfSeq
<1>3. QED
  BY <1>2, SubSeqProperties

\* A broker applies a command: its log is cut only where it is long enough.
LEMMA ApplyEntryType ==
    ASSUME TypeInv, NEW n \in Brokers, ApplyEntry(n)
    PROVE  TypeInv'
<1> DEFINE e == metaLog[applied[n] + 1]
<1>1. applied[n] \in Nat /\ Len(metaLog) \in Nat /\ applied[n] < Len(metaLog)
  BY MetaType DEF ApplyEntry, TypeInv, TypeOK
<1>2. e \in Metadata
  BY <1>1, MetaType
<1>3. e.hwm \in Nat
  BY <1>2 DEF Metadata
<1>4. LEO(n) >= e.hwm => SubSeq(log[n], 1, e.hwm) \in Seq(Records)
  <2>1. log[n] \in Seq(Records) /\ Len(log[n]) \in Nat
    BY LenProperties DEF TypeInv, TypeOK
  <2>2. QED
    BY <1>3, <2>1, CutType DEF LEO
<1>5. log' \in [Brokers -> Seq(Records)]
  BY <1>4 DEF ApplyEntry, TypeInv, TypeOK
<1>6. HWM' \in [Brokers -> Nat]
  BY <1>3 DEF ApplyEntry, Larger, TypeInv, TypeOK
<1>7. applied' = [applied EXCEPT ![n] = @ + 1]
  BY DEF ApplyEntry
<1>8. TypeOK'
  BY <1>5, <1>6, <1>7 DEF ApplyEntry, TypeInv, TypeOK
<1>9. Indices'
  BY <1>1, <1>7 DEF ApplyEntry, TypeInv, TypeOK, Indices
<1>10. QED
  BY <1>8, <1>9 DEF TypeInv

\* A scan that changes nothing but its own state, and perhaps the local log.
LEMMA ScanStepType ==
    ASSUME TypeInv, NEW n \in Brokers, NEW s \in Scans, SetScan(n, s), ScanUnchanged,
           log' \in [Brokers -> Seq(Records)], HWM' \in [Brokers -> Nat],
           used' \in [Events -> Nat]
    PROVE  TypeInv'
<1>1. scan' \in [Brokers -> Scans]
  BY DEF SetScan, TypeInv, TypeOK
<1>2. QED
  BY <1>1 DEF ScanUnchanged, TypeInv, TypeOK, Indices

\* The idle scan, and a scan in another phase.
LEMMA ScanType ==
    ASSUME TypeInv
    PROVE  /\ IdleScan \in Scans
           /\ \A n \in Brokers : scan[n] \in Scans /\ scan[n].meta \in Metadata /\ scan[n].next \in Nat
                                 /\ scan[n].meta.hwm \in Nat /\ scan[n].recs \in Seq(Records)
<1>1. metaLog[1] \in Metadata
  BY MetaType
<1>2. IdleScan \in Scans
  BY <1>1, EmptySeq DEF IdleScan, Scans
<1>3. QED
  BY <1>2 DEF TypeInv, TypeOK, Scans, Metadata

\* The steps of a catch-up scan.  What the leader sends is in its log because its
\* watermark is.
LEMMA ScanStepsType ==
    ASSUME TypeInv, VisibleWithinCommitted, NEW n \in Brokers, ScanStep(n)
    PROVE  TypeInv'
<1> DEFINE m == scan[n].meta
<1>1. /\ IdleScan \in Scans /\ scan[n] \in Scans /\ m \in Metadata /\ scan[n].next \in Nat
      /\ m.hwm \in Nat /\ scan[n].recs \in Seq(Records)
  BY ScanType
<1>2. log[n] \in Seq(Records) /\ LEO(n) \in Nat
  BY LenProperties DEF LEO, TypeInv, TypeOK
<1>3. CASE ScanCopy(n)
  <2> DEFINE s == [IdleScan EXCEPT !.phase = "copied", !.meta = View(n)]
  <2>1. View(n) \in Metadata
    BY <1>3, MetaType DEF ScanCopy, Serving
  <2>2. s \in Scans
    BY <1>1, <2>1 DEF Scans
  <2>3. used' \in [Events -> Nat]
    BY <1>3, CountType DEF ScanCopy, Events
  <2>4. SetScan(n, s) /\ ScanUnchanged /\ UNCHANGED <<log, HWM>>
    BY <1>3 DEF ScanCopy
  <2>5. QED
    BY <2>2, <2>3, <2>4, ScanStepType DEF TypeInv, TypeOK
<1>4. CASE ScanDecide(n)
  <2> DEFINE s == IF LEO(n) < m.hwm
                  THEN [scan[n] EXCEPT !.phase = "request", !.next = LEO(n)]
                  ELSE IF LEO(n) = m.hwm \/ n \notin m.isr
                  THEN [scan[n] EXCEPT !.phase = "reconcile"]
                  ELSE IdleScan
  <2>1. s \in Scans
    BY <1>1, <1>2 DEF Scans
  <2>2. SetScan(n, s) /\ ScanUnchanged /\ UNCHANGED <<log, HWM, used>>
    BY <1>4 DEF ScanDecide
  <2>3. QED
    BY <2>1, <2>2, ScanStepType DEF TypeInv, TypeOK
<1>5. CASE ScanReconcile(n)
  <2>1. LEO(n) >= m.hwm => SubSeq(log[n], 1, m.hwm) \in Seq(Records)
    BY <1>1, <1>2, CutType DEF LEO
  <2>2. log' \in [Brokers -> Seq(Records)] /\ HWM' \in [Brokers -> Nat]
    BY <1>1, <1>5, <2>1 DEF ScanReconcile, TypeInv, TypeOK
  <2>3. SetScan(n, IdleScan) /\ ScanUnchanged /\ UNCHANGED used
    BY <1>5 DEF ScanReconcile
  <2>4. QED
    BY <1>1, <2>2, <2>3, ScanStepType DEF TypeInv, TypeOK
<1>6. CASE ScanFetch(n)
  <2> DEFINE b == m.leader
             s == [scan[n] EXCEPT !.phase = "batch",
                                  !.recs = SubSeq(log[b], scan[n].next + 1, m.hwm)]
  <2>1. SetScan(n, s) /\ ScanUnchanged /\ UNCHANGED <<log, HWM, used>>
    BY <1>6 DEF ScanFetch
  <2>2. b \in Brokers /\ log[b] \in Seq(Records)
    BY <1>1 DEF Metadata, TypeInv, TypeOK
  <2>3. SubSeq(log[b], scan[n].next + 1, m.hwm) \in Seq(Records)
    <3>1. m.hwm <= Len(log[b]) /\ Len(log[b]) \in Nat
      <4>1. HWM[b] \in Nat /\ Len(log[b]) \in Nat
        BY <2>2, LenProperties DEF TypeInv, TypeOK
      <4>2. m.hwm <= HWM[b] /\ HWM[b] <= Len(log[b])
        BY <1>6, <2>2 DEF ScanFetch, VisibleWithinCommitted, LEO
      <4>3. QED
        BY <1>1, <4>1, <4>2
    <3>2. \A i \in scan[n].next + 1..m.hwm : log[b][i] \in Records
      BY <1>1, <2>2, <3>1, ElementOfSeq
    <3>3. QED
      BY <1>1, <3>2, SubSeqProperties
  <2>4. s \in Scans
    BY <1>1, <2>3 DEF Scans
  <2>5. QED
    BY <2>1, <2>4, ScanStepType DEF TypeInv, TypeOK
<1>7. CASE ScanApply(n)
  <2>1. log[n] \o scan[n].recs \in Seq(Records)
    BY <1>1, <1>2, ConcatProperties
  <2>2. log' \in [Brokers -> Seq(Records)] /\ HWM' \in [Brokers -> Nat]
    BY <1>1, <1>7, <2>1 DEF ScanApply, Larger, TypeInv, TypeOK
  <2>3. SetScan(n, IdleScan) /\ ScanUnchanged /\ UNCHANGED used
    BY <1>7 DEF ScanApply
  <2>4. QED
    BY <1>1, <2>2, <2>3, ScanStepType DEF TypeInv, TypeOK
<1>8. CASE ScanAbort(n)
  BY <1>1, <1>8, ScanStepType DEF ScanAbort, TypeInv, TypeOK
<1>9. QED
  BY <1>3, <1>4, <1>5, <1>6, <1>7, <1>8 DEF ScanStep

\* Snapshots, restarts and the end of a recovery.
LEMMA RecoveryStepType ==
    ASSUME TypeInv, NEW n \in Brokers, RecoveryStep(n)
    PROVE  TypeInv'
<1>1. CASE TakeSnapshot(n)
  BY <1>1 DEF TakeSnapshot, TypeInv, TypeOK, Indices
<1>2. ASSUME NEW target \in DOMAIN metaLog, Restart(n, target)
      PROVE  TypeInv'
  <2>1. target \in Nat
    BY LenProperties DEF TypeInv, TypeOK
  <2>2. snapshot[n] \in Nat /\ snapshot[n] <= Len(metaLog) /\ Len(metaLog) \in Nat
    BY MetaType DEF TypeInv, TypeOK, Indices
  <2>3. RestoredHWM(n) \in Nat
    <3>1. snapshot[n] > 0 => metaLog[snapshot[n]].hwm \in Nat
      BY <2>2, MetaType DEF Metadata
    <3>2. LEO(n) \in Nat
      BY LenProperties DEF LEO, TypeInv, TypeOK
    <3>3. QED
      BY <3>1, <3>2 DEF RestoredHWM, Smaller
  <2>4. /\ applied' = [applied EXCEPT ![n] = snapshot[n]]
        /\ replayTarget' = [replayTarget EXCEPT ![n] = IF snapshot[n] > 0 THEN target ELSE 0]
        /\ HWM' = [HWM EXCEPT ![n] = RestoredHWM(n)]
        /\ prepared' = [prepared EXCEPT ![n] = NoFence]
        /\ lane' = [lane EXCEPT ![n] = <<>>]
        /\ scan' = [scan EXCEPT ![n] = IdleScan]
        /\ net' \subseteq net
        /\ Count("restart")
        /\ UNCHANGED <<metaLog, log, cmds, proofs, snapshot, committed, acked, dupAcked>>
    BY <1>2 DEF Restart, SetScan
  <2>5. used' \in [Events -> Nat]
    BY <2>4, CountType DEF Events
  <2>6. IdleScan \in Scans /\ <<>> \in Seq(Tasks) /\ NoFence \in Fences
    BY ScanType, EmptySeq DEF Fences
  <2>7. /\ applied' \in [Brokers -> Nat] /\ replayTarget' \in [Brokers -> Nat]
        /\ HWM' \in [Brokers -> Nat] /\ prepared' \in [Brokers -> Fences]
        /\ lane' \in [Brokers -> Seq(Tasks)] /\ scan' \in [Brokers -> Scans]
    BY <2>1, <2>2, <2>3, <2>4, <2>6 DEF TypeInv, TypeOK
  <2>8. TypeOK'
    BY <2>4, <2>5, <2>7 DEF TypeInv, TypeOK
  <2>9. Indices'
    BY <2>2, <2>4 DEF TypeInv, TypeOK, Indices
  <2>10. QED
    BY <2>8, <2>9 DEF TypeInv
<1>3. CASE FinishRecovery(n)
  <2>1. applied[n] > 0
    <3>1. applied[n] \in Nat /\ replayTarget[n] \in Nat
      BY DEF TypeInv, TypeOK
    <3>2. replayTarget[n] > 0 /\ applied[n] >= replayTarget[n]
      BY <1>3 DEF FinishRecovery
    <3>3. QED
      BY <3>1, <3>2
  <2>2. View(n) \in Metadata /\ View(n).hwm \in Nat
    BY <2>1, MetaType DEF Metadata
  <2>3. log[n] \in Seq(Records) /\ LEO(n) \in Nat
    BY LenProperties DEF LEO, TypeInv, TypeOK
  <2>4. LEO(n) >= View(n).hwm => SubSeq(log[n], 1, View(n).hwm) \in Seq(Records)
    BY <2>2, <2>3, CutType DEF LEO
  <2>5. log' \in [Brokers -> Seq(Records)] /\ HWM' \in [Brokers -> Nat]
    <3>1. log \in [Brokers -> Seq(Records)] /\ HWM \in [Brokers -> Nat] /\ HWM[n] \in Nat
      BY DEF TypeInv, TypeOK
    <3>2. CASE LEO(n) < View(n).hwm
      <4>1. HWM' = [HWM EXCEPT ![n] = Smaller(@, LEO(n))] /\ log' = log
        BY <1>3, <3>2 DEF FinishRecovery
      <4>2. QED
        BY <2>3, <3>1, <4>1 DEF Smaller
    <3>3. CASE ~(LEO(n) < View(n).hwm)
      <4>1. HWM' = [HWM EXCEPT ![n] = View(n).hwm] /\ log' = [log EXCEPT ![n] = SubSeq(@, 1, View(n).hwm)]
        BY <1>3, <3>3 DEF FinishRecovery
      <4>2. LEO(n) >= View(n).hwm
        BY <2>2, <2>3, <3>3
      <4>3. QED
        BY <2>2, <2>4, <3>1, <4>1, <4>2
    <3>4. QED
      BY <3>2, <3>3
  <2>6. QED
    BY <1>3, <2>5 DEF FinishRecovery, TypeInv, TypeOK, Indices
<1>4. QED
  BY <1>1, <1>2, <1>3 DEF RecoveryStep

\* Every step keeps the types and the indices into the Raft log.
LEMMA TypeNext ==
    ASSUME TypeInv, VisibleWithinCommitted, [Next]_vars
    PROVE  TypeInv'
<1>1. ASSUME NEW n \in Brokers, ClientStep(n)
      PROVE  TypeInv'
  BY <1>1, PublishType, PublishDuplicateType, PublishFailsType, ClientCancelType DEF ClientStep
<1>2. ASSUME NEW n \in Brokers, LaneStep(n)
      PROVE  TypeInv'
  BY <1>2, LaneFencedType, LaneLeaderOutOfISRType, LaneStartType, LaneBarrierType, LaneSendType, LaneTimeoutType,
     LaneProposeType, LaneCommittedType, LaneFinishType DEF LaneStep
<1>3. CASE ReplicaStep
  BY <1>3, ReplicaAppendType, ReplicaRejectType, ReplicaFenceType DEF ReplicaStep
<1>4. CASE RaftStep
  <2>1. ASSUME NEW i \in Larger(1, Len(metaLog) - MaxISRLag)..Len(metaLog),
               NEW alive \in SUBSET metaLog[i].isr, ComputeISR(i, alive)
        PROVE  TypeInv'
    <3>1. Len(metaLog) \in Nat /\ DOMAIN metaLog = 1..Len(metaLog)
      BY LenProperties DEF TypeInv, TypeOK
    <3>2. i \in DOMAIN metaLog
      BY <3>1, BoundsAssumption DEF Larger
    <3>3. QED
      BY <2>1, <3>2, ControllerType
  <2>2. QED
    BY <1>4, <2>1, CommitAcceptedType, CommitRejectedType, ProofStepType, ControllerType DEF RaftStep
<1>5. CASE UNCHANGED vars
  BY <1>5 DEF vars, TypeInv, TypeOK, Indices
<1>6. QED
  BY <1>1, <1>2, <1>3, <1>4, <1>5, ApplyEntryType, ProofStepType, ScanStepsType,
     RecoveryStepType DEF Next

-----------------------------------------------------------------------------
(* Watermarks.                                                             *)

\* What a broker's possibly stale view says is committed, is committed.
LEMMA ViewBelowMeta ==
    ASSUME TypeInv, MetadataMonotone
    PROVE  /\ Meta.hwm \in Nat
           /\ \A i \in 1..Len(metaLog) : metaLog[i].hwm \in Nat /\ metaLog[i].hwm <= Meta.hwm
           /\ \A n \in Brokers : applied[n] > 0 => View(n).hwm \in Nat /\ View(n).hwm <= Meta.hwm
<1>1. Len(metaLog) \in Nat \ {0} /\ DOMAIN metaLog = 1..Len(metaLog)
  BY MetaType, LenProperties DEF TypeInv, TypeOK
<1>2. \A i \in 1..Len(metaLog) : metaLog[i].hwm \in Nat
  BY MetaType DEF Metadata
<1>3. ASSUME NEW i \in 1..Len(metaLog) PROVE metaLog[i].hwm <= Meta.hwm
  <2>1. CASE i = Len(metaLog)
    BY <1>1, <1>2, <2>1 DEF Meta
  <2>2. CASE i < Len(metaLog)
    <3>1. i \in DOMAIN metaLog /\ Len(metaLog) \in DOMAIN metaLog
      BY <1>1
    <3>2. QED
      BY <2>2, <3>1, Zenon DEF MetadataMonotone, Meta
  <2>3. i = Len(metaLog) \/ i < Len(metaLog)
    BY MetaType
  <2>4. QED
    BY <2>1, <2>2, <2>3
<1>4. \A n \in Brokers : applied[n] \in Nat /\ applied[n] <= Len(metaLog)
  BY DEF TypeInv, TypeOK, Indices
<1>5. QED
  BY <1>1, <1>2, <1>3, <1>4 DEF Meta, View

\* A command whose metadata is not behind the current one keeps the log monotone.
LEMMA MonotoneStep ==
    ASSUME TypeInv, MetadataMonotone, NEW m \in Metadata, RaftAppend(m),
           m.hwm >= Meta.hwm, m.epoch >= Meta.epoch,
           m.epoch = Meta.epoch => m.leader = Meta.leader
    PROVE  MetadataMonotone' /\ Meta'.hwm >= Meta.hwm
<1> DEFINE N == Len(metaLog)
<1>1. N \in Nat \ {0} /\ DOMAIN metaLog = 1..N
  BY MetaType, LenProperties DEF TypeInv, TypeOK
<1>2. /\ Len(metaLog') = N + 1 /\ metaLog'[N + 1] = m /\ DOMAIN metaLog' = 1..(N + 1)
      /\ \A i \in 1..N : metaLog'[i] = metaLog[i]
      /\ Meta' = m
  <2>1. metaLog' \in Seq(Metadata)
    BY RaftAppendType
  <2>2. QED
    BY <2>1, RaftAppendType, LenProperties
<1>3. \A i \in 1..N : metaLog[i].hwm \in Nat /\ metaLog[i].epoch \in Nat
  BY MetaType DEF Metadata
<1>4. Meta = metaLog[N] /\ m.hwm \in Nat /\ m.epoch \in Nat
  BY DEF Meta, Metadata
<1>5. ASSUME NEW i \in 1..(N + 1), NEW j \in 1..(N + 1), i < j
      PROVE  /\ metaLog'[i].hwm <= metaLog'[j].hwm
             /\ metaLog'[i].epoch <= metaLog'[j].epoch
             /\ metaLog'[i].epoch = metaLog'[j].epoch => metaLog'[i].leader = metaLog'[j].leader
  <2>1. i \in 1..N /\ metaLog'[i] = metaLog[i]
    BY <1>1, <1>2, <1>5
  <2>2. CASE j \in 1..N
    BY <1>1, <1>2, <1>5, <2>1, <2>2 DEF MetadataMonotone
  <2>3. CASE j = N + 1
    <3>1. /\ metaLog[i].hwm <= Meta.hwm /\ metaLog[i].epoch <= Meta.epoch
          /\ metaLog[i].epoch = Meta.epoch => metaLog[i].leader = Meta.leader
      <4>1. CASE i = N
        BY <1>3, <1>4, <2>1, <4>1
      <4>2. CASE i < N
        <5>1. i \in DOMAIN metaLog /\ N \in DOMAIN metaLog
          BY <1>1, <2>1
        <5>2. QED
          BY <1>4, <4>2, <5>1, Zenon DEF MetadataMonotone
      <4>3. i = N \/ i < N
        BY <2>1, MetaType
      <4>4. QED
        BY <4>1, <4>2, <4>3
    <3>2. metaLog'[j] = m /\ metaLog[i].hwm \in Nat /\ metaLog[i].epoch \in Nat
      BY <1>2, <1>3, <2>1, <2>3
    <3>3. Meta.hwm \in Nat /\ Meta.epoch \in Nat
      BY <1>1, <1>3, <1>4
    <3>4. QED
      BY <1>4, <2>1, <3>1, <3>2, <3>3
  <2>4. QED
    BY <1>1, <2>2, <2>3
<1>6. QED
  BY <1>2, <1>5 DEF MetadataMonotone

\* A step that leaves a part of the state alone keeps what is known of it, as long
\* as the committed HWM does not fall.
LEMMA Frame ==
    ASSUME TypeInv, TypeInv', SafeInv, Meta'.hwm >= Meta.hwm
    PROVE  /\ UNCHANGED lane => TaskEvidence'
           /\ net' \subseteq net => RequestEvidence'
           /\ UNCHANGED scan => ScanEvidence'
           /\ UNCHANGED <<log, HWM>> => VisibleWithinCommitted'
           /\ UNCHANGED acked => StrongAckCommitted'
<1>1. Meta.hwm \in Nat /\ Meta'.hwm \in Nat
  <2>1. Meta \in Metadata /\ Len(metaLog') \in Nat \ {0} /\ metaLog' \in Seq(Metadata)
    BY MetaType, EmptySeq DEF TypeInv, TypeOK
  <2>2. Meta' \in Metadata
    BY <2>1, ElementOfSeq DEF Meta
  <2>3. QED
    BY <2>1, <2>2 DEF Metadata
<1>2. ASSUME UNCHANGED lane PROVE TaskEvidence'
  <2>1. ASSUME NEW n \in Brokers, NEW i \in DOMAIN lane[n], PastCommit(lane[n][i])
        PROVE  lane[n][i].hwm <= Meta'.hwm
    <3>1. lane[n][i] \in Tasks
      BY LaneType, LenProperties, ElementOfSeq
    <3>2. lane[n][i].hwm \in Nat /\ lane[n][i].hwm <= Meta.hwm
      BY <2>1, <3>1 DEF Tasks, SafeInv, CommitEvidence, TaskEvidence
    <3>3. QED
      BY <1>1, <3>2
  <2>2. QED
    BY <1>2, <2>1 DEF TaskEvidence, PastCommit
<1>3. ASSUME net' \subseteq net PROVE RequestEvidence'
  <2>1. ASSUME NEW m \in net, m.commit
        PROVE  m.hwm <= Meta'.hwm
    <3>1. m.hwm \in Nat /\ m.hwm <= Meta.hwm
      BY <2>1 DEF TypeInv, TypeOK, Requests, SafeInv, CommitEvidence, RequestEvidence
    <3>2. QED
      BY <1>1, <3>1
  <2>2. QED
    BY <1>3, <2>1 DEF RequestEvidence
<1>4. ASSUME UNCHANGED scan PROVE ScanEvidence'
  <2>1. ASSUME NEW n \in Brokers
        PROVE  scan[n].meta.hwm <= Meta'.hwm
    <3>1. scan[n].meta.hwm \in Nat /\ scan[n].meta.hwm <= Meta.hwm
      BY ScanType DEF SafeInv, CommitEvidence, ScanEvidence
    <3>2. QED
      BY <1>1, <3>1
  <2>2. QED
    BY <1>4, <2>1 DEF ScanEvidence, SafeInv, CommitEvidence
<1>5. ASSUME UNCHANGED <<log, HWM>> PROVE VisibleWithinCommitted'
  <2>1. ASSUME NEW n \in Brokers
        PROVE  HWM[n] <= Meta'.hwm /\ HWM[n] <= LEO(n)
    <3>1. HWM[n] \in Nat /\ HWM[n] <= Meta.hwm /\ HWM[n] <= LEO(n)
      BY DEF TypeInv, TypeOK, SafeInv, VisibleWithinCommitted
    <3>2. QED
      BY <1>1, <3>1
  <2>2. QED
    BY <1>5, <2>1 DEF VisibleWithinCommitted, LEO
<1>6. ASSUME UNCHANGED acked PROVE StrongAckCommitted'
  <2>1. ASSUME NEW a \in acked
        PROVE  a[2] <= Meta'.hwm
    <3>1. a[2] \in Nat /\ a[2] <= Meta.hwm
      BY DEF TypeInv, TypeOK, SafeInv, StrongAckCommitted
    <3>2. QED
      BY <1>1, <3>1
  <2>2. QED
    BY <1>6, <2>1 DEF StrongAckCommitted
<1>7. QED
  BY <1>2, <1>3, <1>4, <1>5, <1>6

\* A step that leaves the Raft log alone leaves the committed HWM alone.
LEMMA SameMeta ==
    ASSUME TypeInv, SafeInv, UNCHANGED metaLog
    PROVE  MetadataMonotone' /\ Meta' = Meta /\ Meta'.hwm >= Meta.hwm /\ Meta.hwm \in Nat
<1>1. Meta.hwm \in Nat
  BY ViewBelowMeta DEF SafeInv
<1>2. QED
  BY <1>1 DEF SafeInv, MetadataMonotone, Meta

-----------------------------------------------------------------------------
(* Tasks in the lanes.                                                     *)

\* No task of the queue is past a commit above h.
QueueEvidence(q, h) == \A i \in DOMAIN q : PastCommit(q[i]) => q[i].hwm <= h

\* One task.
LEMMA SingleEvidence ==
    ASSUME NEW t \in Tasks, NEW h \in Nat, PastCommit(t) => t.hwm <= h
    PROVE  QueueEvidence(<<t>>, h)
<1>1. \A i \in DOMAIN <<t>> : <<t>>[i] = t
  OBVIOUS
<1>2. QED
  BY <1>1 DEF QueueEvidence

\* Replacing the head of a queue keeps the evidence of the rest.
LEMMA ReplaceEvidence ==
    ASSUME NEW q \in Seq(Tasks), q # <<>>, NEW ts \in Seq(Tasks), NEW h \in Nat,
           QueueEvidence(q, h), QueueEvidence(ts, h)
    PROVE  QueueEvidence(ts \o Tail(q), h)
<1> DEFINE r == ts \o Tail(q)
<1>1. Tail(q) \in Seq(Tasks) /\ Len(Tail(q)) = Len(q) - 1 /\ Len(q) \in Nat
  BY HeadTailProperties, LenProperties
<1>2. \A k \in 1..Len(Tail(q)) : Tail(q)[k] = q[k + 1]
  BY HeadTailProperties, <1>1
<1>3. /\ r \in Seq(Tasks) /\ Len(r) = Len(ts) + Len(Tail(q)) /\ Len(ts) \in Nat
      /\ \A i \in 1..Len(r) : r[i] = IF i <= Len(ts) THEN ts[i] ELSE Tail(q)[i - Len(ts)]
  BY <1>1, ConcatProperties, LenProperties
<1>4. DOMAIN r = 1..Len(r) /\ DOMAIN ts = 1..Len(ts) /\ DOMAIN q = 1..Len(q)
  BY <1>3, LenProperties
<1>5. ASSUME NEW i \in 1..Len(r), PastCommit(r[i]) PROVE r[i].hwm <= h
  <2>1. CASE i <= Len(ts)
    <3>1. r[i] = ts[i] /\ i \in DOMAIN ts
      BY <1>3, <1>4, <2>1
    <3>2. QED
      BY <1>5, <3>1 DEF QueueEvidence
  <2>2. CASE ~(i <= Len(ts))
    <3>1. r[i] = Tail(q)[i - Len(ts)] /\ i - Len(ts) \in 1..Len(Tail(q))
      BY <1>1, <1>3, <2>2
    <3>2. r[i] = q[i - Len(ts) + 1] /\ i - Len(ts) + 1 \in 1..Len(q)
      BY <1>1, <1>2, <3>1
    <3>3. QED
      BY <1>4, <1>5, <3>2 DEF QueueEvidence
  <2>3. QED
    BY <2>1, <2>2
<1>6. QED
  BY <1>4, <1>5 DEF QueueEvidence

\* A step that replaces the head of one lane by tasks with evidence of their own.
LEMMA LaneEvidence ==
    ASSUME TypeInv, TypeInv', SafeInv, Meta'.hwm >= Meta.hwm, NEW n \in Brokers, lane[n] # <<>>,
           NEW ts \in Seq(Tasks), QueueEvidence(ts, Meta'.hwm),
           lane' = [lane EXCEPT ![n] = ts \o Tail(@)]
    PROVE  TaskEvidence'
<1>1. Meta.hwm \in Nat /\ Meta'.hwm \in Nat
  <2>1. Meta \in Metadata /\ Len(metaLog') \in Nat \ {0} /\ metaLog' \in Seq(Metadata)
    BY MetaType, EmptySeq DEF TypeInv, TypeOK
  <2>2. Meta' \in Metadata
    BY <2>1, ElementOfSeq DEF Meta
  <2>3. QED
    BY <2>1, <2>2 DEF Metadata
<1>2. ASSUME NEW b \in Brokers PROVE QueueEvidence(lane[b], Meta'.hwm)
  <2>1. ASSUME NEW i \in DOMAIN lane[b], PastCommit(lane[b][i])
        PROVE  lane[b][i].hwm <= Meta'.hwm
    <3>1. lane[b][i] \in Tasks
      BY LaneType, LenProperties, ElementOfSeq
    <3>2. lane[b][i].hwm \in Nat /\ lane[b][i].hwm <= Meta.hwm
      BY <2>1, <3>1 DEF Tasks, SafeInv, CommitEvidence, TaskEvidence
    <3>3. QED
      BY <1>1, <3>2
  <2>2. QED
    BY <2>1 DEF QueueEvidence
<1>3. QueueEvidence(ts \o Tail(lane[n]), Meta'.hwm)
  BY <1>1, <1>2, LaneType, ReplaceEvidence
<1>4. ASSUME NEW b \in Brokers PROVE QueueEvidence(lane'[b], Meta'.hwm)
  BY <1>2, <1>3 DEF TypeInv, TypeOK
<1>5. QED
  BY <1>4 DEF QueueEvidence, TaskEvidence, PastCommit

\* A step of a worker is safe when the task it leaves at the head, if any, has its
\* evidence, and so have the requests, the watermarks and the acknowledgements.
LEMMA LaneSafe ==
    ASSUME TypeInv, TypeInv', SafeInv, NEW n \in Brokers, lane[n] # <<>>,
           NEW ts \in Seq(Tasks), QueueEvidence(ts, Meta.hwm),
           lane' = [lane EXCEPT ![n] = ts \o Tail(@)],
           UNCHANGED <<metaLog, log, scan>>,
           RequestEvidence', VisibleWithinCommitted', StrongAckCommitted'
    PROVE  SafeInv'
<1>1. MetadataMonotone' /\ Meta' = Meta /\ Meta'.hwm >= Meta.hwm
  BY SameMeta
<1>2. TaskEvidence'
  BY <1>1, LaneEvidence
<1>3. ScanEvidence'
  BY <1>1, Frame
<1>4. QED
  BY <1>1, <1>2, <1>3 DEF SafeInv, CommitEvidence

\* The same for the steps that only change the task at the head.
LEMMA HeadSafe ==
    ASSUME TypeInv, TypeInv', SafeInv, NEW n \in Brokers, lane[n] # <<>>,
           NEW t \in Tasks, PastCommit(t) => t.hwm <= Meta.hwm, SetHead(n, t),
           UNCHANGED <<metaLog, log, HWM, scan, acked>>, RequestEvidence'
    PROVE  SafeInv'
<1>1. Meta'.hwm >= Meta.hwm /\ Meta.hwm \in Nat
  BY SameMeta
<1>2. VisibleWithinCommitted' /\ StrongAckCommitted'
  BY <1>1, Frame
<1>3. <<t>> \in Seq(Tasks) /\ QueueEvidence(<<t>>, Meta.hwm)
  BY <1>1, SingleTask, SingleEvidence
<1>4. lane' = [lane EXCEPT ![n] = <<t>> \o Tail(@)]
  BY DEF SetHead
<1>5. QED
  BY <1>2, <1>3, <1>4, LaneSafe

\* The head is dropped.
LEMMA DropSafe ==
    ASSUME TypeInv, TypeInv', SafeInv, NEW n \in Brokers, lane[n] # <<>>, DropHead(n),
           UNCHANGED <<metaLog, log, HWM, scan>>, RequestEvidence', StrongAckCommitted'
    PROVE  SafeInv'
<1>1. Meta'.hwm >= Meta.hwm
  BY SameMeta
<1>2. VisibleWithinCommitted'
  BY <1>1, Frame
<1>3. <<>> \in Seq(Tasks) /\ QueueEvidence(<<>>, Meta.hwm)
  <2>1. DOMAIN <<>> = {}
    OBVIOUS
  <2>2. QED
    BY <2>1, EmptySeq DEF QueueEvidence
<1>4. <<>> \o Tail(lane[n]) = Tail(lane[n])
  BY LaneType, ConcatEmptySeq
<1>5. lane' = [lane EXCEPT ![n] = <<>> \o Tail(@)]
  BY <1>4 DEF DropHead
<1>6. QED
  BY <1>2, <1>3, <1>5, LaneSafe

\* A failed task carries no claim.
LEMMA FailedSafe ==
    ASSUME NEW t \in Tasks
    PROVE  Failed(t) \in Tasks /\ ~PastCommit(Failed(t))
BY FailedType DEF Failed, PastCommit, Tasks

\* The steps of a lane worker.
LEMMA LaneStepSafe ==
    ASSUME TypeInv, TypeInv', SafeInv, NEW n \in Brokers, LaneStep(n)
    PROVE  SafeInv'
<1> DEFINE t == Head(lane[n])
<1>1. lane[n] # <<>> /\ t \in Tasks
  <2>1. lane[n] # <<>>
    BY DEF LaneStep, LaneFenced, LaneLeaderOutOfISR, LaneStart, LaneBarrier, LaneSend, LaneTimeout,
           LanePropose, LaneCommitted, LaneFinish, AtSnapshot, AtHead
  <2>2. QED
    BY <2>1, LaneType
<1>2. UNCHANGED metaLog
  BY DEF LaneStep, LaneFenced, LaneLeaderOutOfISR, LaneStart, LaneBarrier, LaneSend, LaneTimeout,
         LanePropose, LaneCommitted, LaneFinish, LaneUnchanged
<1>3. Meta' = Meta /\ Meta'.hwm >= Meta.hwm /\ Meta.hwm \in Nat
  BY <1>2, SameMeta
<1>4. /\ net' \subseteq net => RequestEvidence'
      /\ UNCHANGED acked => StrongAckCommitted'
  BY <1>3, Frame
<1>5. PastCommit(t) => t.hwm <= Meta.hwm
  <2>1. 1 \in DOMAIN lane[n] /\ lane[n][1] = t
    BY <1>1, LaneType, LenProperties, EmptySeq
  <2>2. QED
    BY <2>1 DEF SafeInv, CommitEvidence, TaskEvidence
<1>6. CASE LaneFenced(n) \/ LaneBarrier(n)
  BY <1>1, <1>4, <1>6, DropSafe DEF LaneFenced, LaneBarrier, LaneUnchanged
<1>7. CASE LaneLeaderOutOfISR(n) \/ LaneTimeout(n)
  BY <1>1, <1>4, <1>7, FailedSafe, HeadSafe DEF LaneLeaderOutOfISR, LaneTimeout, LaneUnchanged
<1>8. CASE LaneStart(n)
  <2> DEFINE isr == IF t.acks = "all" THEN t.isr ELSE View(n).isr
             u == [t EXCEPT !.pc = "send", !.isr = isr, !.todo = isr \ {n}]
  <2>1. applied[n] > 0
    BY <1>1 DEF TypeInv, Indices
  <2>2. View(n) \in Metadata
    BY <2>1, MetaType
  <2>3. u \in Tasks /\ ~PastCommit(u)
    BY <1>1, <2>2 DEF Tasks, Metadata, PastCommit
  <2>4. SetHead(n, u) /\ LaneUnchanged /\ UNCHANGED <<net, cmds, acked>>
    BY <1>8 DEF LaneStart
  <2>5. QED
    BY <1>1, <1>4, <2>3, <2>4, HeadSafe DEF LaneUnchanged
<1>9. CASE LaneSend(n)
  <2> DEFINE u == [t EXCEPT !.pc = "wait"]
             r == RequestOf(n, t, Minimum(t.todo), FALSE)
  <2>1. u \in Tasks /\ ~PastCommit(u)
    BY <1>1 DEF Tasks, PastCommit
  <2>2. SetHead(n, u) /\ net' = net \cup {r} /\ LaneUnchanged /\ UNCHANGED <<cmds, acked>>
    BY <1>9 DEF LaneSend
  <2>3. ~r.commit
    BY DEF RequestOf
  <2>4. RequestEvidence'
    BY <1>3, <2>2, <2>3 DEF SafeInv, CommitEvidence, RequestEvidence
  <2>5. QED
    BY <1>1, <2>1, <2>2, <2>4, HeadSafe DEF LaneUnchanged
<1>10. CASE LanePropose(n)
  <2> DEFINE u == [t EXCEPT !.pc = "committing"]
  <2>1. u \in Tasks /\ ~PastCommit(u)
    BY <1>1 DEF Tasks, PastCommit
  <2>2. SetHead(n, u) /\ LaneUnchanged /\ UNCHANGED <<net, acked>>
    BY <1>10 DEF LanePropose
  <2>3. QED
    BY <1>1, <1>4, <2>1, <2>2, HeadSafe DEF LaneUnchanged
<1>11. CASE LaneCommitted(n)
  <2> DEFINE u == IF CanRaise(n, t.hwm) THEN [t EXCEPT !.pc = "finish"] ELSE Failed(t)
  <2>1. t.hwm <= Meta.hwm /\ t.hwm \in Nat
    BY <1>1, <1>5, <1>11 DEF LaneCommitted, AtHead, PastCommit, Tasks
  <2>2. u \in Tasks /\ u.hwm = t.hwm
    BY <1>1, FailedType DEF Tasks, Failed
  <2>3. SetHead(n, u) /\ UNCHANGED <<metaLog, log, scan, net, acked>>
    BY <1>11 DEF LaneCommitted
  <2>4. VisibleWithinCommitted'
    <3>1. ASSUME NEW b \in Brokers PROVE HWM'[b] <= Meta.hwm /\ HWM'[b] <= LEO(b)
      <4>1. HWM[b] \in Nat /\ HWM[b] <= Meta.hwm /\ HWM[b] <= LEO(b) /\ HWM \in [Brokers -> Nat]
        BY DEF TypeInv, TypeOK, SafeInv, VisibleWithinCommitted
      <4>2. CASE CanRaise(n, t.hwm)
        <5>1. HWM' = [HWM EXCEPT ![n] = Larger(@, t.hwm)]
          BY <1>11, <4>2 DEF LaneCommitted
        <5>2. t.hwm <= LEO(n)
          BY <4>2 DEF CanRaise
        <5>3. QED
          BY <2>1, <4>1, <5>1, <5>2 DEF Larger
      <4>3. CASE ~CanRaise(n, t.hwm)
        BY <1>11, <4>1, <4>3 DEF LaneCommitted
      <4>4. QED
        BY <4>2, <4>3
    <3>2. QED
      BY <1>3, <2>3, <3>1 DEF VisibleWithinCommitted, LEO
  <2>5. QueueEvidence(<<u>>, Meta.hwm) /\ <<u>> \in Seq(Tasks)
    BY <1>3, <2>1, <2>2, SingleEvidence, SingleTask
  <2>6. lane' = [lane EXCEPT ![n] = <<u>> \o Tail(@)]
    BY <2>3 DEF SetHead
  <2>7. QED
    BY <1>1, <1>4, <2>3, <2>4, <2>5, <2>6, LaneSafe
<1>12. CASE LaneFinish(n)
  <2>1. t.hwm <= Meta.hwm
    BY <1>1, <1>5, <1>12 DEF LaneFinish, AtHead, PastCommit
  <2>2. /\ acked' \subseteq acked \cup {<<t.rec, t.hwm>>}
        /\ net' = net \cup {RequestOf(n, t, b, TRUE) : b \in Brokers \ (t.isr \cup {n})}
        /\ DropHead(n) /\ LaneUnchanged
    BY <1>12 DEF LaneFinish
  <2>3. StrongAckCommitted'
    BY <1>3, <2>1, <2>2 DEF SafeInv, StrongAckCommitted
  <2>4. RequestEvidence'
    BY <1>3, <2>1, <2>2 DEF SafeInv, CommitEvidence, RequestEvidence, RequestOf
  <2>5. QED
    BY <1>1, <2>2, <2>3, <2>4, DropSafe DEF LaneUnchanged
<1>13. QED
  BY <1>6, <1>7, <1>8, <1>9, <1>10, <1>11, <1>12 DEF LaneStep

-----------------------------------------------------------------------------
(* Clients and followers.                                                  *)

\* One broker's log and watermark change together.
LEMMA VisibleAt ==
    ASSUME TypeInv, SafeInv, UNCHANGED metaLog, NEW n \in Brokers, NEW l, NEW h,
           log' = [log EXCEPT ![n] = l], HWM' = [HWM EXCEPT ![n] = h],
           h <= Len(l), h <= Meta.hwm
    PROVE  VisibleWithinCommitted'
<1>1. Meta' = Meta
  BY SameMeta
<1>2. ASSUME NEW b \in Brokers PROVE HWM'[b] <= Meta.hwm /\ HWM'[b] <= Len(log'[b])
  <2>1. /\ HWM[b] <= Meta.hwm /\ HWM[b] <= Len(log[b])
        /\ HWM \in [Brokers -> Nat] /\ log \in [Brokers -> Seq(Records)]
    BY DEF TypeInv, TypeOK, SafeInv, VisibleWithinCommitted, LEO
  <2>2. QED
    BY <2>1
<1>3. QED
  BY <1>1, <1>2 DEF VisibleWithinCommitted, LEO

\* Preparation leaves a watermark inside the log and below the committed HWM.
LEMMA PreparedVisible ==
    ASSUME TypeInv, SafeInv, NEW n \in Brokers, applied[n] > 0
    PROVE  /\ PreparedHWM(n) \in Nat
           /\ PreparedHWM(n) <= Len(PreparedLog(n))
           /\ PreparedHWM(n) <= Meta.hwm
<1>1. HWM[n] \in Nat /\ HWM[n] <= Meta.hwm /\ HWM[n] <= Len(log[n])
  BY DEF TypeInv, TypeOK, SafeInv, VisibleWithinCommitted, LEO
<1>2. View(n).hwm \in Nat /\ View(n).hwm <= Meta.hwm
  BY ViewBelowMeta DEF SafeInv
<1>3. /\ Unprepared(n) => Len(PreparedLog(n)) = View(n).hwm
      /\ ~Unprepared(n) => PreparedLog(n) = log[n]
  BY PreparedType
<1>4. QED
  BY <1>1, <1>2, <1>3 DEF PreparedHWM

\* A task that claims no commit joins a lane.
LEMMA AppendEvidence ==
    ASSUME TypeInv, SafeInv, UNCHANGED metaLog, NEW n \in Brokers, NEW t \in Tasks, ~PastCommit(t),
           lane' = [lane EXCEPT ![n] = Append(@, t)]
    PROVE  TaskEvidence'
<1> DEFINE q == Append(lane[n], t)
<1>1. Meta' = Meta
  BY SameMeta
<1>2. lane[n] \in Seq(Tasks) /\ Len(lane[n]) \in Nat /\ DOMAIN lane[n] = 1..Len(lane[n])
  BY LaneType, LenProperties
<1>3. /\ q \in Seq(Tasks) /\ Len(q) = Len(lane[n]) + 1
      /\ \A i \in 1..Len(lane[n]) : q[i] = lane[n][i]
      /\ q[Len(lane[n]) + 1] = t
  BY <1>2, AppendProperties
<1>4. DOMAIN q = 1..(Len(lane[n]) + 1)
  BY <1>3, LenProperties
<1>5. ASSUME NEW i \in DOMAIN q, PastCommit(q[i]) PROVE q[i].hwm <= Meta.hwm
  <2>1. i # Len(lane[n]) + 1
    BY <1>3, <1>5
  <2>2. i \in DOMAIN lane[n] /\ q[i] = lane[n][i]
    BY <1>2, <1>3, <1>4, <2>1
  <2>3. QED
    BY <1>5, <2>2 DEF SafeInv, CommitEvidence, TaskEvidence
<1>6. ASSUME NEW b \in Brokers, NEW i \in DOMAIN lane'[b], PastCommit(lane'[b][i])
      PROVE  lane'[b][i].hwm <= Meta.hwm
  <2>1. lane'[b] = IF b = n THEN q ELSE lane[b]
    BY DEF TypeInv, TypeOK
  <2>2. QED
    BY <1>5, <1>6, <2>1 DEF SafeInv, CommitEvidence, TaskEvidence
<1>7. QED
  BY <1>1, <1>6 DEF TaskEvidence, PastCommit

\* The steps of producers' requests.
LEMMA ClientStepSafe ==
    ASSUME TypeInv, TypeInv', SafeInv, NEW n \in Brokers, ClientStep(n)
    PROVE  SafeInv'
<1>1. UNCHANGED <<metaLog, net, scan, acked>>
  BY DEF ClientStep, Publish, PublishDuplicate, PublishFails, ClientCancel
<1>2. MetadataMonotone' /\ Meta' = Meta /\ Meta'.hwm >= Meta.hwm
  BY <1>1, SameMeta
<1>3. /\ UNCHANGED lane => TaskEvidence'
      /\ UNCHANGED <<log, HWM>> => VisibleWithinCommitted'
      /\ RequestEvidence' /\ ScanEvidence' /\ StrongAckCommitted'
  BY <1>1, <1>2, Frame
<1>4. ASSUME NEW acks \in AckModes, Publish(n, acks)
      PROVE  TaskEvidence' /\ VisibleWithinCommitted'
  <2> DEFINE rec == used["record"] + 1
             l == Append(PreparedLog(n), rec)
             t == NewTask(n, acks, rec, Len(l), FALSE)
             q == Append(lane[n], t)
  <2>1. applied[n] > 0
    BY <1>4 DEF Publish, CanLead, Serving
  <2>2. log' = [log EXCEPT ![n] = l] /\ HWM' = [HWM EXCEPT ![n] = PreparedHWM(n)] /\ lane' = [lane EXCEPT ![n] = q]
    BY <1>4 DEF Publish
  <2>3. PreparedLog(n) \in Seq(Records) /\ rec \in Records
    <3>1. rec \in Records
      BY <1>4, BoundsAssumption DEF Publish, TypeInv, TypeOK, Events, Records
    <3>2. QED
      BY <2>1, <3>1, PreparedType
  <2>4. Len(l) = Len(PreparedLog(n)) + 1 /\ Len(PreparedLog(n)) \in Nat
    BY <2>3, AppendProperties, LenProperties
  <2>5. PreparedHWM(n) <= Len(l) /\ PreparedHWM(n) <= Meta.hwm
    BY <2>1, <2>4, PreparedVisible
  <2>6. VisibleWithinCommitted'
    BY <1>1, <2>2, <2>5, VisibleAt
  <2>7. t.pc = "start"
    BY DEF NewTask
  <2>8. t \in Tasks
    <3>1. View(n) \in Metadata
      BY <2>1, MetaType
    <3>2. QED
      BY <2>3, <2>4, <3>1, BoundsAssumption DEF NewTask, Tasks, Metadata
  <2>9. TaskEvidence'
    BY <1>1, <2>2, <2>7, <2>8, AppendEvidence DEF PastCommit
  <2>10. QED
    BY <2>6, <2>9
<1>5. ASSUME NEW acks \in AckModes, PublishFails(n, acks)
      PROVE  TaskEvidence' /\ VisibleWithinCommitted'
  <2>1. applied[n] > 0
    BY <1>5 DEF PublishFails, CanLead, Serving
  <2>2. log' = [log EXCEPT ![n] = PreparedLog(n)] /\ HWM' = [HWM EXCEPT ![n] = PreparedHWM(n)] /\ lane' = lane
    BY <1>5 DEF PublishFails
  <2>3. VisibleWithinCommitted'
    BY <1>1, <2>1, <2>2, PreparedVisible, VisibleAt
  <2>4. QED
    BY <1>3, <2>2, <2>3
<1>6. ASSUME ClientCancel(n)
      PROVE  TaskEvidence' /\ VisibleWithinCommitted'
  <2> DEFINE q == [i \in DOMAIN lane[n] |-> [lane[n][i] EXCEPT !.waiting = FALSE]]
  <2>1. lane' = [lane EXCEPT ![n] = q] /\ UNCHANGED <<log, HWM>>
    BY <1>6 DEF ClientCancel
  <2>2. \A i \in DOMAIN lane[n] : lane[n][i] \in Tasks
    BY LaneType, LenProperties, ElementOfSeq
  <2>3. \A i \in DOMAIN lane[n] : q[i].pc = lane[n][i].pc /\ q[i].hwm = lane[n][i].hwm
    BY <2>2 DEF Tasks
  <2>4. ASSUME NEW b \in Brokers, NEW i \in DOMAIN lane'[b], PastCommit(lane'[b][i])
        PROVE  lane'[b][i].hwm <= Meta.hwm
    <3>1. lane'[b] = IF b = n THEN q ELSE lane[b]
      BY <2>1 DEF TypeInv, TypeOK
    <3>2. DOMAIN q = DOMAIN lane[n]
      OBVIOUS
    <3>3. QED
      BY <2>3, <2>4, <3>1, <3>2 DEF SafeInv, CommitEvidence, TaskEvidence, PastCommit
  <2>5. TaskEvidence'
    BY <1>2, <2>4 DEF TaskEvidence, PastCommit
  <2>6. QED
    BY <1>3, <2>1, <2>5
<1>7. ASSUME NEW k \in 1..LEO(n), PublishDuplicate(n, k)
      PROVE  TaskEvidence' /\ VisibleWithinCommitted'
  <2> DEFINE l == PreparedLog(n)
             t == NewTask(n, "all", l[k], k, TRUE)
  <2>1. applied[n] > 0
    BY <1>7 DEF PublishDuplicate, CanLead, Serving
  <2>2. log' = [log EXCEPT ![n] = l] /\ HWM' = [HWM EXCEPT ![n] = PreparedHWM(n)] /\ lane' = [lane EXCEPT ![n] = Append(@, t)]
    BY <1>7 DEF PublishDuplicate
  <2>3. VisibleWithinCommitted'
    BY <1>1, <2>1, <2>2, PreparedVisible, VisibleAt
  <2>4. l \in Seq(Records) /\ k \in DOMAIN l
    BY <1>7, <2>1, PreparedType DEF PublishDuplicate
  <2>5. l[k] \in Records /\ k \in Nat \ {0}
    BY <2>4, ElementOfSeq, LenProperties
  <2>6. View(n) \in Metadata
    BY <2>1, MetaType
  <2>7. t \in Tasks /\ ~PastCommit(t)
    BY <2>5, <2>6 DEF NewTask, Tasks, Metadata, PastCommit
  <2>8. TaskEvidence'
    BY <1>1, <2>2, <2>7, AppendEvidence
  <2>9. QED
    BY <2>3, <2>8
<1>8. TaskEvidence' /\ VisibleWithinCommitted'
  BY <1>4, <1>5, <1>6, <1>7 DEF ClientStep
<1>9. QED
  BY <1>2, <1>3, <1>8 DEF SafeInv, CommitEvidence

\* The answer to a request leaves at the leader a task that claims no commit.
LEMMA AnswerEvidence ==
    ASSUME TypeInv, TypeInv', SafeInv, UNCHANGED metaLog, NEW m \in Requests, NEW ts,
           Awaiting(m) => ts \in Seq(Tasks) /\ QueueEvidence(ts, Meta.hwm), Answer(m, ts)
    PROVE  TaskEvidence'
<1>1. m.leader \in Brokers
  BY DEF Requests
<1>2. Meta' = Meta /\ Meta'.hwm >= Meta.hwm
  BY SameMeta
<1>3. CASE Awaiting(m)
  <2>1. lane[m.leader] # <<>> /\ lane' = [lane EXCEPT ![m.leader] = ts \o Tail(@)]
    BY <1>3 DEF Answer, Awaiting, AtHead
  <2>2. QED
    BY <1>1, <1>2, <1>3, <2>1, LaneEvidence
<1>4. CASE ~Awaiting(m)
  BY <1>2, <1>4, Frame DEF Answer
<1>5. QED
  BY <1>3, <1>4

\* No tasks, no claims.
LEMMA EmptyEvidence ==
    ASSUME NEW h
    PROVE  <<>> \in Seq(Tasks) /\ QueueEvidence(<<>>, h)
<1>1. DOMAIN <<>> = {}
  OBVIOUS
<1>2. QED
  BY <1>1, EmptySeq DEF QueueEvidence

\* The steps of the followers.
LEMMA ReplicaStepSafe ==
    ASSUME TypeInv, TypeInv', SafeInv, ReplicaStep
    PROVE  SafeInv'
<1>1. PICK m \in net : ReplicaAppend(m) \/ ReplicaReject(m) \/ ReplicaFence(m)
  BY DEF ReplicaStep
<1> DEFINE n == m.to
           t == Head(lane[m.leader])
<1>2. m \in Requests /\ n \in Brokers /\ m.leader \in Brokers /\ m.hwm \in Nat
  BY DEF TypeInv, TypeOK, Requests
<1>3. UNCHANGED <<metaLog, scan, acked>> /\ net' \subseteq net
  BY <1>1 DEF ReplicaAppend, ReplicaReject, ReplicaFence, FollowerUnchanged
<1>4. MetadataMonotone' /\ Meta' = Meta /\ Meta'.hwm >= Meta.hwm /\ Meta.hwm \in Nat
  BY <1>3, SameMeta
<1>5. /\ RequestEvidence' /\ ScanEvidence' /\ StrongAckCommitted'
      /\ UNCHANGED <<log, HWM>> => VisibleWithinCommitted'
  BY <1>3, <1>4, Frame
<1>6. Awaiting(m) => t \in Tasks
  BY <1>2, LaneType DEF Awaiting, AtHead
<1>7. applied[n] > 0
  BY <1>1 DEF ReplicaAppend, ReplicaReject, ReplicaFence, Serving
<1>8. /\ PreparedLog(n) \in Seq(Records) /\ PreparedHWM(n) \in Nat
      /\ PreparedHWM(n) <= Len(PreparedLog(n)) /\ PreparedHWM(n) <= Meta.hwm
  BY <1>2, <1>7, PreparedType, PreparedVisible
<1>9. CASE ReplicaAppend(m)
  <2> DEFINE u == [t EXCEPT !.pc = "send", !.todo = @ \ {n}]
             l == Appended(PreparedLog(n), m)
             h == IF m.commit THEN Larger(PreparedHWM(n), m.hwm) ELSE PreparedHWM(n)
  <2>1. Awaiting(m) => u \in Tasks /\ ~PastCommit(u)
    BY <1>6 DEF Tasks, PastCommit
  <2>2. Awaiting(m) => <<u>> \in Seq(Tasks) /\ QueueEvidence(<<u>>, Meta.hwm)
    BY <1>4, <2>1, SingleTask, SingleEvidence
  <2>3. TaskEvidence'
    BY <1>2, <1>3, <1>9, <2>2, AnswerEvidence DEF ReplicaAppend
  <2>4. m.hwm <= Len(l) /\ Len(PreparedLog(n)) <= Len(l) /\ Len(l) \in Nat /\ Len(PreparedLog(n)) \in Nat
    BY <1>2, <1>8, <1>9, AppendedType, LenProperties DEF ReplicaAppend
  <2>5. m.commit => m.hwm <= Meta.hwm
    BY DEF SafeInv, CommitEvidence, RequestEvidence
  <2>6. h <= Len(l) /\ h <= Meta.hwm
    BY <1>2, <1>4, <1>8, <2>4, <2>5 DEF Larger
  <2>7. log' = [log EXCEPT ![n] = l] /\ HWM' = [HWM EXCEPT ![n] = h]
    BY <1>9 DEF ReplicaAppend
  <2>8. VisibleWithinCommitted'
    BY <1>2, <1>3, <2>6, <2>7, VisibleAt
  <2>9. QED
    BY <1>4, <1>5, <2>3, <2>8 DEF SafeInv, CommitEvidence
<1>10. CASE ReplicaReject(m)
  <2>1. Awaiting(m) => <<Failed(t)>> \in Seq(Tasks) /\ QueueEvidence(<<Failed(t)>>, Meta.hwm)
    BY <1>4, <1>6, FailedSafe, SingleTask, SingleEvidence
  <2>2. TaskEvidence'
    BY <1>2, <1>3, <1>10, <2>1, AnswerEvidence DEF ReplicaReject
  <2>3. log' = [log EXCEPT ![n] = PreparedLog(n)] /\ HWM' = [HWM EXCEPT ![n] = PreparedHWM(n)]
    BY <1>10 DEF ReplicaReject
  <2>4. VisibleWithinCommitted'
    BY <1>2, <1>3, <1>8, <2>3, VisibleAt
  <2>5. QED
    BY <1>4, <1>5, <2>2, <2>4 DEF SafeInv, CommitEvidence
<1>11. CASE ReplicaFence(m)
  <2>1. TaskEvidence'
    BY <1>2, <1>3, <1>11, EmptyEvidence, AnswerEvidence DEF ReplicaFence
  <2>2. UNCHANGED <<log, HWM>>
    BY <1>11 DEF ReplicaFence
  <2>3. QED
    BY <1>4, <1>5, <2>1, <2>2 DEF SafeInv, CommitEvidence
<1>12. QED
  BY <1>1, <1>9, <1>10, <1>11

-----------------------------------------------------------------------------
(* Raft commands.                                                          *)

\* A command that only touches the metadata is safe when it does not take it back.
LEMMA CommandSafe ==
    ASSUME TypeInv, TypeInv', SafeInv, NEW m \in Metadata, RaftAppend(m),
           m.hwm >= Meta.hwm, m.epoch >= Meta.epoch,
           m.epoch = Meta.epoch => m.leader = Meta.leader,
           FSMUnchanged, UNCHANGED <<lane, acked>>
    PROVE  SafeInv'
<1>1. MetadataMonotone' /\ Meta'.hwm >= Meta.hwm
  BY MonotoneStep DEF SafeInv
<1>2. net' \subseteq net /\ UNCHANGED <<lane, scan, log, HWM, acked>>
  BY DEF FSMUnchanged
<1>3. QED
  BY <1>1, <1>2, Frame DEF SafeInv, CommitEvidence

\* A PARTITION_COMMIT that is accepted raises the committed HWM before the worker
\* that waits for it may use the watermark.
LEMMA CommitAcceptedSafe ==
    ASSUME TypeInv, TypeInv', SafeInv, NEW c \in cmds, CommitAccepted(c)
    PROVE  SafeInv'
<1> DEFINE t == Head(lane[c.leader])
           u == [t EXCEPT !.pc = "committed"]
           m == [Meta EXCEPT !.kind = "commit", !.hwm = c.hwm]
<1>1. c \in Commits /\ c.leader \in Brokers /\ c.hwm \in Nat
  BY DEF TypeInv, TypeOK, Commits
<1>2. Meta \in Metadata /\ Meta.hwm \in Nat /\ Meta.epoch \in Nat
  BY MetaType DEF Metadata
<1>3. m \in Metadata /\ m.hwm = c.hwm /\ m.epoch = Meta.epoch /\ m.leader = Meta.leader
  BY <1>1, <1>2 DEF Metadata
<1>4. RaftAppend(m) /\ c.hwm >= Meta.hwm /\ FSMUnchanged /\ UNCHANGED acked
  BY DEF CommitAccepted
<1>5. MetadataMonotone' /\ Meta'.hwm >= Meta.hwm
  <2> HIDE DEF m
  <2>1. m.hwm >= Meta.hwm /\ m.epoch >= Meta.epoch /\ (m.epoch = Meta.epoch => m.leader = Meta.leader)
    BY <1>2, <1>3, <1>4
  <2>2. QED
    BY <1>3, <1>4, <2>1, MonotoneStep DEF SafeInv
<1>6. Meta'.hwm = c.hwm
  BY <1>3, <1>4, RaftAppendType
<1>7. /\ UNCHANGED lane => TaskEvidence'
      /\ RequestEvidence' /\ ScanEvidence' /\ VisibleWithinCommitted' /\ StrongAckCommitted'
  <2>1. net' \subseteq net /\ UNCHANGED <<scan, log, HWM, acked>>
    BY <1>4 DEF FSMUnchanged
  <2>2. QED
    BY <1>5, <2>1, Frame
<1>8. CommitAnswer(c, <<u>>)
  BY DEF CommitAccepted
<1>9. TaskEvidence'
  <2>1. CASE AwaitingCommit(c)
    <3>1. lane[c.leader] # <<>> /\ c = CommitOf(c.leader, t) /\ t \in Tasks
      BY <1>1, <2>1, LaneType DEF AwaitingCommit, AtHead
    <3>2. u \in Tasks /\ u.hwm = c.hwm
      <4>1. t.hwm = c.hwm
        BY <3>1 DEF CommitOf
      <4>2. QED
        BY <3>1, <4>1 DEF Tasks
    <3>3. <<u>> \in Seq(Tasks) /\ QueueEvidence(<<u>>, Meta'.hwm)
      <4> HIDE DEF u
      <4>1. Meta'.hwm \in Nat /\ u.hwm <= Meta'.hwm
        BY <1>1, <1>6, <3>2
      <4>2. QED
        BY <3>2, <4>1, SingleTask, SingleEvidence
    <3>4. lane' = [lane EXCEPT ![c.leader] = <<u>> \o Tail(@)]
      BY <1>8, <2>1 DEF CommitAnswer
    <3>5. QED
      BY <1>1, <1>5, <3>1, <3>3, <3>4, LaneEvidence
  <2>2. CASE ~AwaitingCommit(c)
    BY <1>7, <1>8, <2>2 DEF CommitAnswer
  <2>3. QED
    BY <2>1, <2>2
<1>10. QED
  BY <1>5, <1>7, <1>9 DEF SafeInv, CommitEvidence

\* A PARTITION_COMMIT that is refused.
LEMMA CommitRejectedSafe ==
    ASSUME TypeInv, TypeInv', SafeInv, NEW c \in cmds, CommitRejected(c)
    PROVE  SafeInv'
<1> DEFINE t == Head(lane[c.leader])
           ts == IF CommitFenceHolds(c) THEN <<Failed(t)>> ELSE <<>>
<1>1. c.leader \in Brokers
  BY DEF TypeInv, TypeOK, Commits
<1>2. UNCHANGED <<metaLog, net, scan, log, HWM, acked>> /\ CommitAnswer(c, ts)
  BY DEF CommitRejected, FSMUnchanged
<1>3. MetadataMonotone' /\ Meta' = Meta /\ Meta'.hwm >= Meta.hwm /\ Meta.hwm \in Nat
  BY <1>2, SameMeta
<1>4. /\ UNCHANGED lane => TaskEvidence'
      /\ RequestEvidence' /\ ScanEvidence' /\ VisibleWithinCommitted' /\ StrongAckCommitted'
  BY <1>2, <1>3, Frame
<1>5. TaskEvidence'
  <2>1. CASE AwaitingCommit(c)
    <3>1. lane[c.leader] # <<>> /\ t \in Tasks
      BY <1>1, <2>1, LaneType DEF AwaitingCommit, AtHead
    <3>2. ts \in Seq(Tasks) /\ QueueEvidence(ts, Meta.hwm)
      BY <1>3, <3>1, FailedSafe, SingleTask, SingleEvidence, EmptyEvidence
    <3>3. lane' = [lane EXCEPT ![c.leader] = ts \o Tail(@)]
      BY <1>2, <2>1 DEF CommitAnswer
    <3>4. QED
      BY <1>1, <1>3, <3>1, <3>2, <3>3, LaneEvidence
  <2>2. CASE ~AwaitingCommit(c)
    BY <1>2, <1>4, <2>2 DEF CommitAnswer
  <2>3. QED
    BY <2>1, <2>2
<1>6. QED
  BY <1>3, <1>4, <1>5 DEF SafeInv, CommitEvidence

\* The steps of the Raft log.
LEMMA RaftStepSafe ==
    ASSUME TypeInv, TypeInv', SafeInv, RaftStep
    PROVE  SafeInv'
<1>1. Meta \in Metadata /\ Meta.hwm \in Nat /\ Meta.epoch \in Nat
  BY MetaType DEF Metadata
<1>2. ASSUME NEW i \in Larger(1, Len(metaLog) - MaxISRLag)..Len(metaLog),
             NEW alive \in SUBSET metaLog[i].isr, ComputeISR(i, alive)
      PROVE  SafeInv'
  <2> DEFINE m == ComputedISR(metaLog[i], alive)
  <2>1. Len(metaLog) \in Nat
    BY MetaType
  <2>2. i \in 1..Len(metaLog)
    BY <2>1, BoundsAssumption DEF Larger
  <2>3. metaLog[i] \in Metadata
    BY <2>2, MetaType
  <2>4. m \in Metadata
    BY <2>3, ComputedISRType DEF Metadata
  <2>5. PartitionAccepted(m) /\ RaftAppend(m) /\ FSMUnchanged /\ UNCHANGED <<lane, acked>>
    BY <1>2 DEF ComputeISR
  <2>6. m.hwm >= Meta.hwm /\ m.epoch >= Meta.epoch /\ (m.epoch = Meta.epoch => m.leader = Meta.leader)
    <3>1. m.epoch \in Nat
      BY <2>4 DEF Metadata
    <3>2. QED
      BY <1>1, <2>5, <3>1 DEF PartitionAccepted
  <2>7. QED
    BY <2>4, <2>5, <2>6, CommandSafe
<1>3. ASSUME NEW b \in Brokers, ElectLeader(b)
      PROVE  SafeInv'
  <2> DEFINE m == [Meta EXCEPT !.kind = "election", !.leader = b, !.epoch = @ + 1]
  <2>1. Meta.epoch + 1 \in Nat \ {0}
    BY <1>1
  <2>2. m \in Metadata
    BY <1>1, <2>1, Zenon DEF Metadata
  <2>3. m.hwm = Meta.hwm /\ m.epoch = Meta.epoch + 1
    BY <1>1 DEF Metadata
  <2>4. RaftAppend(m) /\ FSMUnchanged /\ UNCHANGED <<lane, acked>>
    BY <1>3 DEF ElectLeader
  <2>5. m.hwm >= Meta.hwm /\ m.epoch >= Meta.epoch /\ m.epoch # Meta.epoch
    BY <1>1, <2>3
  <2>6. QED
    BY <2>2, <2>4, <2>5, CommandSafe
<1>4. ASSUME AlterTopic
      PROVE  SafeInv'
  <2> DEFINE m == [Meta EXCEPT !.kind = "topic"]
  <2>1. m \in Metadata /\ m.hwm = Meta.hwm /\ m.epoch = Meta.epoch /\ m.leader = Meta.leader
    BY <1>1 DEF Metadata
  <2>2. RaftAppend(m) /\ FSMUnchanged /\ UNCHANGED <<lane, acked>>
    BY <1>4 DEF AlterTopic
  <2> HIDE DEF m
  <2>3. m.hwm >= Meta.hwm /\ m.epoch >= Meta.epoch
    BY <1>1, <2>1
  <2>4. QED
    BY <2>1, <2>2, <2>3, CommandSafe
<1>5. ASSUME NEW p \in proofs, ISRCatchup(p)
      PROVE  SafeInv'
  <2> DEFINE m == [Meta EXCEPT !.kind = "isr", !.isr = @ \cup {p.broker}]
  <2>1. p.broker \in Brokers
    BY DEF Proofs, TypeInv, TypeOK
  <2>2. m \in Metadata /\ m.hwm = Meta.hwm /\ m.epoch = Meta.epoch /\ m.leader = Meta.leader
    BY <1>1, <2>1 DEF Metadata
  <2>3. FSMUnchanged /\ UNCHANGED <<lane, acked>>
    BY <1>5 DEF ISRCatchup
  <2>4. CASE RaftAppend(m)
    <3> HIDE DEF m
    <3>1. m.hwm >= Meta.hwm /\ m.epoch >= Meta.epoch
      BY <1>1, <2>2
    <3>2. QED
      BY <2>2, <2>3, <2>4, <3>1, CommandSafe
  <2>5. CASE UNCHANGED metaLog
    <3>1. MetadataMonotone' /\ Meta'.hwm >= Meta.hwm
      BY <2>5, SameMeta
    <3>2. net' \subseteq net /\ UNCHANGED <<lane, scan, log, HWM, acked>>
      BY <2>3 DEF FSMUnchanged
    <3>3. QED
      BY <3>1, <3>2, Frame DEF SafeInv, CommitEvidence
  <2>6. QED
    BY <1>5, <2>4, <2>5 DEF ISRCatchup
<1>6. QED
  BY <1>2, <1>3, <1>4, <1>5, CommitAcceptedSafe, CommitRejectedSafe DEF RaftStep

-----------------------------------------------------------------------------
(* Brokers applying commands, catching up and restarting.                  *)

\* A log cut at a committed watermark it reaches.
LEMMA CutVisible ==
    ASSUME TypeInv, SafeInv, UNCHANGED metaLog, NEW n \in Brokers, NEW h \in Nat,
           h <= LEO(n), h <= Meta.hwm,
           log' = [log EXCEPT ![n] = SubSeq(@, 1, h)], HWM' = [HWM EXCEPT ![n] = h]
    PROVE  VisibleWithinCommitted'
<1>1. log[n] \in Seq(Records) /\ Meta.hwm \in Nat
  BY SameMeta DEF TypeInv, TypeOK
<1> DEFINE l == SubSeq(log[n], 1, h)
<1>2. Len(l) = h
  BY <1>1, CutType DEF LEO
<1>3. log' = [log EXCEPT ![n] = l]
  OBVIOUS
<1> HIDE DEF l
<1>4. h <= Len(l)
  BY <1>2
<1>5. QED
  BY <1>3, <1>4, VisibleAt

\* A watermark raised to a committed one that the log reaches.
LEMMA RaiseVisible ==
    ASSUME TypeInv, SafeInv, UNCHANGED <<metaLog, log>>, NEW n \in Brokers, NEW h \in Nat,
           h <= LEO(n), h <= Meta.hwm, HWM' = [HWM EXCEPT ![n] = h]
    PROVE  VisibleWithinCommitted'
<1>1. log' = [log EXCEPT ![n] = log[n]]
  BY DEF TypeInv, TypeOK
<1>2. QED
  BY <1>1, VisibleAt DEF LEO

\* A broker applies the next command.
LEMMA ApplyEntrySafe ==
    ASSUME TypeInv, TypeInv', SafeInv, NEW n \in Brokers, ApplyEntry(n)
    PROVE  SafeInv'
<1> DEFINE e == metaLog[applied[n] + 1]
<1>1. UNCHANGED <<metaLog, lane, net, scan, acked>>
  BY DEF ApplyEntry
<1>2. MetadataMonotone' /\ Meta' = Meta /\ Meta'.hwm >= Meta.hwm /\ Meta.hwm \in Nat
  BY <1>1, SameMeta
<1>3. /\ TaskEvidence' /\ RequestEvidence' /\ ScanEvidence' /\ StrongAckCommitted'
      /\ UNCHANGED <<log, HWM>> => VisibleWithinCommitted'
  BY <1>1, <1>2, Frame
<1>4. e.hwm \in Nat /\ e.hwm <= Meta.hwm
  <2>1. applied[n] \in Nat /\ Len(metaLog) \in Nat /\ applied[n] < Len(metaLog)
    BY MetaType DEF ApplyEntry, TypeInv, TypeOK
  <2>2. applied[n] + 1 \in 1..Len(metaLog)
    BY <2>1
  <2>3. QED
    BY <2>2, ViewBelowMeta DEF SafeInv
<1>5. LEO(n) \in Nat /\ HWM[n] \in Nat /\ HWM[n] <= LEO(n) /\ HWM[n] <= Meta.hwm
  BY LenProperties DEF LEO, TypeInv, TypeOK, SafeInv, VisibleWithinCommitted
<1>6. VisibleWithinCommitted'
  <2>1. CASE e.kind = "topic" /\ replayTarget[n] = 0 /\ LEO(n) >= e.hwm
    <3>1. log' = [log EXCEPT ![n] = SubSeq(@, 1, e.hwm)] /\ HWM' = [HWM EXCEPT ![n] = e.hwm]
      BY <2>1 DEF ApplyEntry
    <3>2. e.hwm <= LEO(n)
      BY <1>4, <1>5, <2>1
    <3>3. QED
      BY <1>1, <1>4, <3>1, <3>2, CutVisible
  <2>2. CASE /\ ~(e.kind = "topic" /\ replayTarget[n] = 0 /\ LEO(n) >= e.hwm)
             /\ e.kind = "commit" /\ CanRaise(n, e.hwm)
    <3> DEFINE h == Larger(HWM[n], e.hwm)
    <3>1. log' = log /\ HWM' = [HWM EXCEPT ![n] = h]
      BY <2>2 DEF ApplyEntry
    <3>2. h \in Nat /\ h <= LEO(n) /\ h <= Meta.hwm
      BY <1>4, <1>5, <2>2 DEF CanRaise, Larger
    <3> HIDE DEF h
    <3>3. QED
      BY <1>1, <3>1, <3>2, RaiseVisible
  <2>3. CASE /\ ~(e.kind = "topic" /\ replayTarget[n] = 0 /\ LEO(n) >= e.hwm)
             /\ ~(e.kind = "commit" /\ CanRaise(n, e.hwm))
    BY <1>3, <2>3 DEF ApplyEntry
  <2>4. QED
    BY <2>1, <2>2, <2>3
<1>7. QED
  BY <1>2, <1>3, <1>6 DEF SafeInv, CommitEvidence

\* A scan moves on with a boundary that is committed.
LEMMA ScanAt ==
    ASSUME TypeInv, SafeInv, UNCHANGED metaLog, NEW n \in Brokers, NEW s, SetScan(n, s),
           s.meta.hwm <= Meta.hwm,
           s.phase = "request" => s.next <= s.meta.hwm,
           s.phase = "batch" => s.next + Len(s.recs) = s.meta.hwm
    PROVE  ScanEvidence'
<1>1. Meta' = Meta
  BY SameMeta
<1>2. \A b \in Brokers : scan'[b] = IF b = n THEN s ELSE scan[b]
  BY DEF SetScan, TypeInv, TypeOK
<1>3. QED
  BY <1>1, <1>2 DEF SafeInv, CommitEvidence, ScanEvidence

\* The scan ends.
LEMMA IdleEvidence ==
    ASSUME TypeInv, SafeInv, UNCHANGED metaLog, NEW n \in Brokers, SetScan(n, IdleScan)
    PROVE  ScanEvidence'
<1>1. Len(metaLog) \in Nat \ {0}
  BY MetaType
<1>2. metaLog[1].hwm <= Meta.hwm
  BY <1>1, ViewBelowMeta DEF SafeInv
<1>3. IdleScan.meta = metaLog[1] /\ IdleScan.phase = "idle"
  BY DEF IdleScan
<1>4. QED
  BY <1>2, <1>3, ScanAt

\* The steps of a catch-up scan.
LEMMA ScanStepSafe ==
    ASSUME TypeInv, TypeInv', SafeInv, NEW n \in Brokers, ScanStep(n)
    PROVE  SafeInv'
<1> DEFINE m == scan[n].meta
<1>1. UNCHANGED <<metaLog, lane, net, acked>>
  BY DEF ScanStep, ScanCopy, ScanDecide, ScanReconcile, ScanFetch, ScanApply, ScanAbort, ScanUnchanged
<1>2. MetadataMonotone' /\ Meta' = Meta /\ Meta'.hwm >= Meta.hwm /\ Meta.hwm \in Nat
  BY <1>1, SameMeta
<1>3. /\ TaskEvidence' /\ RequestEvidence' /\ StrongAckCommitted'
      /\ UNCHANGED <<log, HWM>> => VisibleWithinCommitted'
  BY <1>1, <1>2, Frame
<1>4. /\ scan[n] \in Scans /\ m \in Metadata /\ scan[n].next \in Nat /\ m.hwm \in Nat
      /\ scan[n].recs \in Seq(Records) /\ Len(scan[n].recs) \in Nat
  BY ScanType, LenProperties
<1>5. /\ m.hwm <= Meta.hwm
      /\ scan[n].phase = "request" => scan[n].next <= m.hwm
      /\ scan[n].phase = "batch" => scan[n].next + Len(scan[n].recs) = m.hwm
  BY DEF SafeInv, CommitEvidence, ScanEvidence
<1>6. /\ log[n] \in Seq(Records) /\ LEO(n) \in Nat /\ HWM[n] \in Nat
      /\ HWM[n] <= LEO(n) /\ HWM[n] <= Meta.hwm
  BY LenProperties DEF LEO, TypeInv, TypeOK, SafeInv, VisibleWithinCommitted
<1>7. CASE ScanCopy(n)
  <2> DEFINE s == [IdleScan EXCEPT !.phase = "copied", !.meta = View(n)]
  <2>1. SetScan(n, s) /\ UNCHANGED <<log, HWM>> /\ applied[n] > 0
    BY <1>7 DEF ScanCopy, Serving
  <2>2. s.meta = View(n) /\ s.phase = "copied"
    BY DEF IdleScan
  <2>3. View(n).hwm <= Meta.hwm
    BY <2>1, ViewBelowMeta DEF SafeInv
  <2> HIDE DEF s
  <2>4. ScanEvidence'
    BY <1>1, <2>1, <2>2, <2>3, ScanAt
  <2>5. QED
    BY <1>2, <1>3, <2>1, <2>4 DEF SafeInv, CommitEvidence
<1>8. CASE ScanDecide(n)
  <2> DEFINE s == IF LEO(n) < m.hwm
                  THEN [scan[n] EXCEPT !.phase = "request", !.next = LEO(n)]
                  ELSE IF LEO(n) = m.hwm \/ n \notin m.isr
                  THEN [scan[n] EXCEPT !.phase = "reconcile"]
                  ELSE IdleScan
  <2>1. SetScan(n, s) /\ UNCHANGED <<log, HWM>>
    BY <1>8 DEF ScanDecide
  <2>2. ASSUME LEO(n) < m.hwm PROVE ScanEvidence'
    <3>1. s.meta = m /\ s.phase = "request" /\ s.next = LEO(n)
      BY <1>4, <2>2 DEF Scans
    <3> HIDE DEF s
    <3>2. QED
      BY <1>1, <1>4, <1>5, <1>6, <2>1, <2>2, <3>1, ScanAt
  <2>3. ASSUME ~(LEO(n) < m.hwm), LEO(n) = m.hwm \/ n \notin m.isr PROVE ScanEvidence'
    <3>1. s.meta = m /\ s.phase = "reconcile"
      BY <1>4, <2>3 DEF Scans
    <3> HIDE DEF s
    <3>2. QED
      BY <1>1, <1>5, <2>1, <3>1, ScanAt
  <2>4. ASSUME ~(LEO(n) < m.hwm), ~(LEO(n) = m.hwm \/ n \notin m.isr) PROVE ScanEvidence'
    BY <1>1, <2>1, <2>4, IdleEvidence
  <2>5. ScanEvidence'
    BY <2>2, <2>3, <2>4
  <2>6. QED
    BY <1>2, <1>3, <2>1, <2>5 DEF SafeInv, CommitEvidence
<1>9. CASE ScanReconcile(n)
  <2>1. ScanEvidence'
    BY <1>1, <1>9, IdleEvidence DEF ScanReconcile
  <2>2. VisibleWithinCommitted'
    <3>1. CASE LEO(n) >= m.hwm
      <4>1. log' = [log EXCEPT ![n] = SubSeq(@, 1, m.hwm)] /\ HWM' = [HWM EXCEPT ![n] = m.hwm]
        BY <1>9, <3>1 DEF ScanReconcile
      <4>2. m.hwm <= LEO(n)
        BY <1>4, <1>6, <3>1
      <4>3. QED
        BY <1>1, <1>4, <1>5, <4>1, <4>2, CutVisible
    <3>2. CASE ~(LEO(n) >= m.hwm)
      BY <1>3, <1>9, <3>2 DEF ScanReconcile
    <3>3. QED
      BY <3>1, <3>2
  <2>3. QED
    BY <1>2, <1>3, <2>1, <2>2 DEF SafeInv, CommitEvidence
<1>10. CASE ScanFetch(n)
  <2> DEFINE b == m.leader
             r == SubSeq(log[b], scan[n].next + 1, m.hwm)
             s == [scan[n] EXCEPT !.phase = "batch", !.recs = r]
  <2>1. SetScan(n, s) /\ UNCHANGED <<log, HWM>> /\ scan[n].phase = "request"
    BY <1>10 DEF ScanFetch
  <2>2. b \in Brokers /\ log[b] \in Seq(Records)
    BY <1>4 DEF Metadata, TypeInv, TypeOK
  <2>3. Len(r) = m.hwm - scan[n].next
    <3>1. m.hwm <= Len(log[b]) /\ Len(log[b]) \in Nat
      <4>1. HWM[b] \in Nat /\ Len(log[b]) \in Nat
        BY <2>2, LenProperties DEF TypeInv, TypeOK
      <4>2. m.hwm <= HWM[b] /\ HWM[b] <= Len(log[b])
        BY <1>10, <2>2 DEF ScanFetch, SafeInv, VisibleWithinCommitted, LEO
      <4>3. QED
        BY <1>4, <4>1, <4>2
    <3>2. \A i \in scan[n].next + 1..m.hwm : log[b][i] \in Records
      BY <1>4, <2>2, <3>1, ElementOfSeq
    <3>3. Len(r) = IF scan[n].next + 1 <= m.hwm THEN m.hwm - (scan[n].next + 1) + 1 ELSE 0
      BY <1>4, <3>2, SubSeqProperties
    <3>4. scan[n].next <= m.hwm
      BY <1>5, <2>1
    <3>5. QED
      BY <1>4, <3>3, <3>4
  <2>4. s.meta = m /\ s.phase = "batch" /\ s.next = scan[n].next /\ s.recs = r
    BY <1>4 DEF Scans
  <2> HIDE DEF s, r
  <2>5. s.next + Len(s.recs) = s.meta.hwm
    BY <1>4, <2>3, <2>4
  <2>6. ScanEvidence'
    BY <1>1, <1>5, <2>1, <2>4, <2>5, ScanAt
  <2>7. QED
    BY <1>2, <1>3, <2>1, <2>6 DEF SafeInv, CommitEvidence
<1>11. CASE ScanApply(n)
  <2> DEFINE l == log[n] \o scan[n].recs
             h == Larger(HWM[n], m.hwm)
  <2>1. /\ log' = [log EXCEPT ![n] = l] /\ HWM' = [HWM EXCEPT ![n] = h]
        /\ LEO(n) = scan[n].next /\ scan[n].phase = "batch" /\ SetScan(n, IdleScan)
    BY <1>11 DEF ScanApply
  <2>2. Len(l) = LEO(n) + Len(scan[n].recs)
    BY <1>4, <1>6, ConcatProperties DEF LEO
  <2>3. h <= Len(l) /\ h <= Meta.hwm
    BY <1>2, <1>4, <1>5, <1>6, <2>1, <2>2 DEF Larger
  <2> HIDE DEF l, h
  <2>4. VisibleWithinCommitted'
    BY <1>1, <2>1, <2>3, VisibleAt
  <2>5. ScanEvidence'
    BY <1>1, <2>1, IdleEvidence
  <2>6. QED
    BY <1>2, <1>3, <2>4, <2>5 DEF SafeInv, CommitEvidence
<1>12. CASE ScanAbort(n)
  <2>1. SetScan(n, IdleScan) /\ UNCHANGED <<log, HWM>>
    BY <1>12 DEF ScanAbort
  <2>2. ScanEvidence'
    BY <1>1, <2>1, IdleEvidence
  <2>3. QED
    BY <1>2, <1>3, <2>1, <2>2 DEF SafeInv, CommitEvidence
<1>13. QED
  BY <1>7, <1>8, <1>9, <1>10, <1>11, <1>12 DEF ScanStep

\* Snapshots, restarts and the end of a recovery.
LEMMA RecoveryStepSafe ==
    ASSUME TypeInv, TypeInv', SafeInv, NEW n \in Brokers, RecoveryStep(n)
    PROVE  SafeInv'
<1>1. UNCHANGED <<metaLog, acked>> /\ net' \subseteq net
  BY DEF RecoveryStep, TakeSnapshot, Restart, FinishRecovery
<1>2. MetadataMonotone' /\ Meta' = Meta /\ Meta'.hwm >= Meta.hwm /\ Meta.hwm \in Nat
  BY <1>1, SameMeta
<1>3. /\ UNCHANGED lane => TaskEvidence'
      /\ RequestEvidence' /\ StrongAckCommitted'
      /\ UNCHANGED scan => ScanEvidence'
      /\ UNCHANGED <<log, HWM>> => VisibleWithinCommitted'
  BY <1>1, <1>2, Frame
<1>4. LEO(n) \in Nat /\ HWM[n] \in Nat /\ HWM[n] <= LEO(n) /\ HWM[n] <= Meta.hwm
  BY LenProperties DEF LEO, TypeInv, TypeOK, SafeInv, VisibleWithinCommitted
<1>5. CASE TakeSnapshot(n)
  BY <1>2, <1>3, <1>5 DEF TakeSnapshot, SafeInv, CommitEvidence
<1>6. ASSUME NEW target \in DOMAIN metaLog, Restart(n, target)
      PROVE  SafeInv'
  <2> DEFINE h == RestoredHWM(n)
  <2>1. lane' = [lane EXCEPT ![n] = <<>>] /\ HWM' = [HWM EXCEPT ![n] = h] /\ log' = log /\ SetScan(n, IdleScan)
    BY <1>6 DEF Restart
  <2>2. h \in Nat /\ h <= LEO(n) /\ h <= Meta.hwm
    <3>1. snapshot[n] \in Nat /\ snapshot[n] <= Len(metaLog) /\ Len(metaLog) \in Nat
      BY MetaType DEF TypeInv, TypeOK, Indices
    <3>2. snapshot[n] > 0 => metaLog[snapshot[n]].hwm \in Nat /\ metaLog[snapshot[n]].hwm <= Meta.hwm
      BY <3>1, ViewBelowMeta DEF SafeInv
    <3>3. QED
      BY <1>2, <1>4, <3>2 DEF RestoredHWM, Smaller
  <2> HIDE DEF h
  <2>3. VisibleWithinCommitted'
    BY <1>1, <2>1, <2>2, RaiseVisible
  <2>4. ScanEvidence'
    BY <1>1, <2>1, IdleEvidence
  <2>5. ASSUME NEW b \in Brokers, NEW i \in DOMAIN lane'[b], PastCommit(lane'[b][i])
        PROVE  lane'[b][i].hwm <= Meta.hwm
    <3>1. lane'[b] = IF b = n THEN <<>> ELSE lane[b]
      BY <2>1 DEF TypeInv, TypeOK
    <3>2. b # n
      BY <2>5, <3>1
    <3>3. QED
      BY <2>5, <3>1, <3>2 DEF SafeInv, CommitEvidence, TaskEvidence
  <2>6. TaskEvidence'
    BY <1>2, <2>5 DEF TaskEvidence, PastCommit
  <2>7. QED
    BY <1>2, <1>3, <2>3, <2>4, <2>6 DEF SafeInv, CommitEvidence
<1>7. CASE FinishRecovery(n)
  <2>1. applied[n] > 0
    <3>1. applied[n] \in Nat /\ replayTarget[n] \in Nat
      BY DEF TypeInv, TypeOK
    <3>2. replayTarget[n] > 0 /\ applied[n] >= replayTarget[n]
      BY <1>7 DEF FinishRecovery
    <3>3. QED
      BY <3>1, <3>2
  <2>2. View(n).hwm \in Nat /\ View(n).hwm <= Meta.hwm
    BY <2>1, ViewBelowMeta DEF SafeInv
  <2>3. UNCHANGED <<lane, scan>>
    BY <1>7 DEF FinishRecovery
  <2>4. VisibleWithinCommitted'
    <3>1. CASE LEO(n) < View(n).hwm
      <4> DEFINE h == Smaller(HWM[n], LEO(n))
      <4>1. HWM' = [HWM EXCEPT ![n] = h] /\ log' = log
        BY <1>7, <3>1 DEF FinishRecovery
      <4>2. h \in Nat /\ h <= LEO(n) /\ h <= Meta.hwm
        BY <1>4 DEF Smaller
      <4> HIDE DEF h
      <4>3. QED
        BY <1>1, <4>1, <4>2, RaiseVisible
    <3>2. CASE ~(LEO(n) < View(n).hwm)
      <4>1. HWM' = [HWM EXCEPT ![n] = View(n).hwm] /\ log' = [log EXCEPT ![n] = SubSeq(@, 1, View(n).hwm)]
        BY <1>7, <3>2 DEF FinishRecovery
      <4>2. View(n).hwm <= LEO(n)
        BY <1>4, <2>2, <3>2
      <4>3. QED
        BY <1>1, <2>2, <4>1, <4>2, CutVisible
    <3>3. QED
      BY <3>1, <3>2
  <2>5. QED
    BY <1>2, <1>3, <2>3, <2>4 DEF SafeInv, CommitEvidence
<1>8. QED
  BY <1>5, <1>6, <1>7 DEF RecoveryStep

-----------------------------------------------------------------------------
(* Theorems.                                                               *)

\* The initial state: nothing is committed and nothing is in flight.
LEMMA InitSafe ==
    ASSUME Init
    PROVE  SafeInv
<1>1. TypeInv
  BY InitType
<1>2. Len(metaLog) = 1 /\ metaLog[1].hwm = 0 /\ DOMAIN metaLog = 1..1
  BY DEF Init
<1>3. Meta.hwm = 0
  BY <1>2 DEF Meta
<1>4. MetadataMonotone
  BY <1>2 DEF MetadataMonotone
<1>5. TaskEvidence
  <2>1. DOMAIN <<>> = {}
    OBVIOUS
  <2>2. QED
    BY <2>1 DEF Init, TaskEvidence
<1>6. RequestEvidence
  BY DEF Init, RequestEvidence
<1>7. ScanEvidence
  BY <1>2, <1>3 DEF Init, IdleScan, ScanEvidence
<1>8. VisibleWithinCommitted
  BY <1>3, EmptySeq DEF Init, VisibleWithinCommitted, LEO
<1>9. StrongAckCommitted
  BY DEF Init, StrongAckCommitted
<1>10. QED
  BY <1>4, <1>5, <1>6, <1>7, <1>8, <1>9 DEF SafeInv, CommitEvidence

\* Every step keeps the invariant.
LEMMA SafeNext ==
    ASSUME TypeInv, SafeInv, [Next]_vars
    PROVE  TypeInv' /\ SafeInv'
<1>1. TypeInv'
  BY TypeNext DEF SafeInv
<1>2. CASE UNCHANGED vars
  <2>1. UNCHANGED <<metaLog, lane, net, scan, log, HWM, acked>>
    BY <1>2 DEF vars
  <2>2. MetadataMonotone' /\ Meta'.hwm >= Meta.hwm
    BY <2>1, SameMeta
  <2>3. QED
    BY <1>1, <2>1, <2>2, Frame DEF SafeInv, CommitEvidence
<1>3. ASSUME NEW n \in Brokers, BuildProof(n)
      PROVE  SafeInv'
  <2>1. UNCHANGED <<metaLog, lane, net, scan, log, HWM, acked>>
    BY <1>3 DEF BuildProof, brokerVars
  <2>2. MetadataMonotone' /\ Meta'.hwm >= Meta.hwm
    BY <2>1, SameMeta
  <2>3. QED
    BY <1>1, <2>1, <2>2, Frame DEF SafeInv, CommitEvidence
<1>4. SafeInv'
  BY <1>1, <1>2, <1>3, ClientStepSafe, LaneStepSafe, ReplicaStepSafe, RaftStepSafe,
     ApplyEntrySafe, ScanStepSafe, RecoveryStepSafe DEF Next
<1>5. QED
  BY <1>1, <1>4

\* The inductive invariant holds in every reachable state.
THEOREM Invariance == Spec => [](TypeInv /\ SafeInv)
<1>1. Init => TypeInv /\ SafeInv
  BY InitType, InitSafe
<1>2. (TypeInv /\ SafeInv) /\ [Next]_vars => (TypeInv /\ SafeInv)'
  BY SafeNext
<1>3. QED
  BY <1>1, <1>2, PTL DEF Spec

\* Every variable keeps its type, through failovers, lost answers and restarts.
THEOREM TypeCorrect == Spec => []TypeOK
<1>1. TypeInv /\ SafeInv => TypeOK
  BY DEF TypeInv
<1>2. QED
  BY <1>1, Invariance, PTL

\* The FSM's checks keep the committed HWM and the epoch from falling, and give an
\* epoch one leader, whatever stale command reaches the Raft log.
THEOREM MetadataNeverRegresses == Spec => []MetadataMonotone
<1>1. TypeInv /\ SafeInv => MetadataMonotone
  BY DEF SafeInv
<1>2. QED
  BY <1>1, Invariance, PTL

\* No replica's watermark is above the committed HWM or above its own log.
THEOREM OnlyCommittedVisible == Spec => []VisibleWithinCommitted
<1>1. TypeInv /\ SafeInv => VisibleWithinCommitted
  BY DEF SafeInv
<1>2. QED
  BY <1>1, Invariance, PTL

\* An acks=all response names an offset below the committed HWM, for good.
THEOREM StrongAcksCommitted == Spec => []StrongAckCommitted
<1>1. TypeInv /\ SafeInv => StrongAckCommitted
  BY DEF SafeInv
<1>2. QED
  BY <1>1, Invariance, PTL

\* A watermark in a task, a request or a scan was committed before it was sent.
THEOREM WatermarksHaveEvidence == Spec => []CommitEvidence
<1>1. TypeInv /\ SafeInv => CommitEvidence
  BY DEF SafeInv
<1>2. QED
  BY <1>1, Invariance, PTL

-----------------------------------------------------------------------------
(* Facts about the Raft log and the views.                                 *)

\* The Raft log read through its type and its monotonicity.
LEMMA LogFacts ==
    ASSUME TypeInv, MetadataMonotone
    PROVE  /\ Len(metaLog) \in Nat \ {0} /\ DOMAIN metaLog = 1..Len(metaLog)
           /\ Meta = metaLog[Len(metaLog)] /\ Len(metaLog) \in DOMAIN metaLog
           /\ \A i \in DOMAIN metaLog :
                 /\ metaLog[i].hwm \in Nat /\ metaLog[i].epoch \in Nat \ {0}
                 /\ metaLog[i].leader \in Brokers /\ metaLog[i].isr \in SUBSET Brokers
                 /\ Core(i) \subseteq Brokers
                 /\ metaLog[i].hwm <= Meta.hwm /\ metaLog[i].epoch <= Meta.epoch
                 /\ metaLog[i].epoch = Meta.epoch => metaLog[i].leader = Meta.leader
           /\ \A i, j \in DOMAIN metaLog : i <= j =>
                 /\ metaLog[i].hwm <= metaLog[j].hwm /\ metaLog[i].epoch <= metaLog[j].epoch
                 /\ metaLog[i].epoch = metaLog[j].epoch => metaLog[i].leader = metaLog[j].leader
<1>1. Len(metaLog) \in Nat \ {0} /\ DOMAIN metaLog = 1..Len(metaLog)
  BY MetaType, LenProperties DEF TypeInv, TypeOK
<1>2. Meta = metaLog[Len(metaLog)] /\ Len(metaLog) \in DOMAIN metaLog
  BY <1>1 DEF Meta
<1>3. ASSUME NEW i \in DOMAIN metaLog
      PROVE  /\ metaLog[i].hwm \in Nat /\ metaLog[i].epoch \in Nat \ {0}
             /\ metaLog[i].leader \in Brokers /\ metaLog[i].isr \in SUBSET Brokers
             /\ Core(i) \subseteq Brokers
  BY <1>1, MetaType DEF Metadata, Core
<1>4. ASSUME NEW i \in DOMAIN metaLog, NEW j \in DOMAIN metaLog, i <= j
      PROVE  /\ metaLog[i].hwm <= metaLog[j].hwm /\ metaLog[i].epoch <= metaLog[j].epoch
             /\ metaLog[i].epoch = metaLog[j].epoch => metaLog[i].leader = metaLog[j].leader
  <2>1. CASE i = j
    BY <1>3, <2>1
  <2>2. CASE i < j
    BY <2>2, Zenon DEF MetadataMonotone
  <2>3. QED
    BY <1>1, <1>4, <2>1, <2>2
<1>5. \A i \in DOMAIN metaLog :
          /\ metaLog[i].hwm <= Meta.hwm /\ metaLog[i].epoch <= Meta.epoch
          /\ metaLog[i].epoch = Meta.epoch => metaLog[i].leader = Meta.leader
  <2>1. \A i \in DOMAIN metaLog : i <= Len(metaLog)
    BY <1>1
  <2>2. QED
    BY <1>2, <1>4, <2>1
<1>6. QED
  BY <1>1, <1>2, <1>3, <1>4, <1>5

\* The logs, the fences and the counter of records.
LEMMA StateFacts ==
    ASSUME TypeInv
    PROVE  /\ \A n \in Brokers :
                 /\ log[n] \in Seq(Records) /\ LEO(n) \in Nat /\ DOMAIN log[n] = 1..LEO(n)
                 /\ \A k \in 1..LEO(n) : log[n][k] \in Nat /\ log[n][k] \in Records
                 /\ prepared[n] \in Fences /\ prepared[n].epoch \in Nat
                 /\ HWM[n] \in Nat /\ applied[n] \in Nat
           /\ Len(committed) \in Nat /\ DOMAIN committed = 1..Len(committed)
           /\ \A k \in 1..Len(committed) : committed[k] \in Nat
           /\ used["record"] \in Nat
<1>1. ASSUME NEW n \in Brokers
      PROVE  /\ log[n] \in Seq(Records) /\ LEO(n) \in Nat /\ DOMAIN log[n] = 1..LEO(n)
             /\ \A k \in 1..LEO(n) : log[n][k] \in Nat /\ log[n][k] \in Records
             /\ prepared[n] \in Fences /\ prepared[n].epoch \in Nat
             /\ HWM[n] \in Nat /\ applied[n] \in Nat
  <2>1. log[n] \in Seq(Records) /\ prepared[n] \in Fences /\ HWM[n] \in Nat /\ applied[n] \in Nat
    BY DEF TypeInv, TypeOK
  <2>2. LEO(n) \in Nat /\ DOMAIN log[n] = 1..LEO(n)
    BY <2>1, LenProperties DEF LEO
  <2>3. \A k \in 1..LEO(n) : log[n][k] \in Records
    BY <2>1, ElementOfSeq DEF LEO
  <2>4. Records \subseteq Nat
    BY BoundsAssumption DEF Records
  <2>5. prepared[n].epoch \in Nat
    BY <2>1 DEF Fences, NoFence
  <2>6. QED
    BY <2>1, <2>2, <2>3, <2>4, <2>5
<1>2. committed \in Seq(Records \cup {0})
  BY DEF TypeInv, TypeOK
<1>3. Len(committed) \in Nat /\ DOMAIN committed = 1..Len(committed)
  BY <1>2, LenProperties
<1>4. \A k \in 1..Len(committed) : committed[k] \in Nat
  <2>1. \A k \in 1..Len(committed) : committed[k] \in Records \cup {0}
    BY <1>2, ElementOfSeq
  <2>2. QED
    BY <2>1, BoundsAssumption DEF Records
<1>5. used["record"] \in Nat
  BY DEF TypeInv, TypeOK, Events
<1>6. QED
  BY <1>1, <1>3, <1>4, <1>5

\* A fence a replica has not prepared for is newer than the one it has.
LEMMA ViewFacts ==
    ASSUME TypeInv, MetadataMonotone, Calm, PreparedPast, NEW n \in Brokers
    PROVE  /\ applied[n] \in DOMAIN metaLog /\ View(n) = metaLog[applied[n]]
           /\ prepared[n].epoch <= View(n).epoch
           /\ prepared[n] # FenceOf(View(n)) => prepared[n].epoch < View(n).epoch
           /\ View(n).epoch <= Meta.epoch /\ prepared[n].epoch <= Meta.epoch
           /\ View(n).epoch = Meta.epoch => FenceOf(View(n)) = FenceOf(Meta)
           /\ FenceOf(View(n)) = FenceOf(Meta) => View(n).epoch = Meta.epoch
           /\ Prepared(n) => FenceOf(View(n)) = FenceOf(Meta)
           /\ prepared[n].epoch = Meta.epoch <=> Prepared(n)
<1>1. applied[n] \in DOMAIN metaLog /\ View(n) = metaLog[applied[n]]
  BY LogFacts, StateFacts DEF Calm, TypeInv, Indices, View
<1>2. /\ View(n).epoch \in Nat \ {0} /\ View(n).epoch <= Meta.epoch /\ Meta.epoch \in Nat \ {0}
      /\ View(n).epoch = Meta.epoch => View(n).leader = Meta.leader
  BY <1>1, LogFacts
<1>3. View(n).epoch = Meta.epoch <=> FenceOf(View(n)) = FenceOf(Meta)
  BY <1>2 DEF FenceOf
<1>4. prepared[n] = NoFence \/ \E i \in 1..applied[n] : prepared[n] = FenceOf(metaLog[i])
  BY DEF PreparedPast
<1>5. CASE prepared[n] = NoFence
  <2>1. prepared[n].epoch = 0
    BY <1>5 DEF NoFence
  <2>2. prepared[n] # FenceOf(Meta)
    BY <1>2, <2>1 DEF FenceOf
  <2>3. QED
    BY <1>1, <1>2, <1>3, <2>1, <2>2 DEF Prepared
<1>6. ASSUME NEW i \in 1..applied[n], prepared[n] = FenceOf(metaLog[i])
      PROVE  /\ prepared[n].epoch <= View(n).epoch
             /\ prepared[n] # FenceOf(View(n)) => prepared[n].epoch < View(n).epoch
             /\ prepared[n].epoch <= Meta.epoch
             /\ Prepared(n) => FenceOf(View(n)) = FenceOf(Meta)
             /\ prepared[n].epoch = Meta.epoch <=> Prepared(n)
  <2>1. i \in DOMAIN metaLog /\ i <= applied[n]
    BY <1>1, LogFacts
  <2>2. prepared[n].epoch = metaLog[i].epoch /\ prepared[n].leader = metaLog[i].leader
    BY <1>6 DEF FenceOf
  <2>3. /\ metaLog[i].epoch <= View(n).epoch /\ metaLog[i].epoch \in Nat
        /\ metaLog[i].epoch = View(n).epoch => metaLog[i].leader = View(n).leader
        /\ metaLog[i].epoch = Meta.epoch => metaLog[i].leader = Meta.leader
    BY <1>1, <2>1, LogFacts
  <2>4. metaLog[i].epoch = View(n).epoch => FenceOf(metaLog[i]) = FenceOf(View(n))
    BY <2>3 DEF FenceOf
  <2>5. metaLog[i].epoch = Meta.epoch <=> FenceOf(metaLog[i]) = FenceOf(Meta)
    BY <2>3 DEF FenceOf
  <2>6. QED
    BY <1>2, <1>3, <1>6, <2>2, <2>3, <2>4, <2>5 DEF Prepared
<1>7. QED
  BY <1>1, <1>2, <1>3, <1>4, <1>5, <1>6

-----------------------------------------------------------------------------
(* What preparation leaves of a log.                                       *)

\* Preparation keeps a prefix of the log, which holds everything that was committed
\* while the replica mattered; what it cuts was left behind by an older fence.  Under
\* the current fence a replica that matters keeps exactly the committed records.
LEMMA PreparedFacts ==
    ASSUME TypeInv, MetadataMonotone, Calm, PreparedPast, CoreHolds, NEW n \in Brokers
    PROVE  /\ PreparedLog(n) \in Seq(Records) /\ Len(PreparedLog(n)) \in Nat
           /\ Len(PreparedLog(n)) <= LEO(n)
           /\ \A k \in 1..Len(PreparedLog(n)) : PreparedLog(n)[k] = log[n][k]
           /\ Len(PreparedLog(n)) < LEO(n) =>
                 /\ prepared[n].epoch < View(n).epoch
                 /\ View(n).hwm = Len(PreparedLog(n))
           /\ Prepared(n) => PreparedLog(n) = log[n]
           /\ \A i \in DOMAIN metaLog : n \in Core(i) => metaLog[i].hwm <= Len(PreparedLog(n))
           /\ n \in Core(Len(metaLog)) /\ ~Prepared(n) /\ FenceOf(View(n)) = FenceOf(Meta)
                 => Len(PreparedLog(n)) = Meta.hwm
<1> DEFINE P == PreparedLog(n)
           v == View(n)
<1>1. applied[n] \in DOMAIN metaLog /\ v = metaLog[applied[n]] /\ v.hwm \in Nat /\ applied[n] > 0
  BY ViewFacts, LogFacts DEF Calm
<1>2. log[n] \in Seq(Records) /\ LEO(n) \in Nat
  BY StateFacts
<1>3. P \in Seq(Records) /\ Len(P) \in Nat
  BY <1>1, PreparedType, LenProperties
<1>4. CASE ~Unprepared(n)
  <2>1. P = log[n] /\ Len(P) = LEO(n)
    BY <1>4 DEF PreparedLog, LEO
  <2>2. \A i \in DOMAIN metaLog : n \in Core(i) => metaLog[i].hwm <= LEO(n)
    BY DEF CoreHolds, Agrees
  <2>3. ASSUME n \in Core(Len(metaLog)), ~Prepared(n), FenceOf(v) = FenceOf(Meta)
        PROVE  FALSE
    <3>1. prepared[n] # FenceOf(v)
      BY <2>3 DEF Prepared
    <3>2. Meta.hwm <= LEO(n) /\ v.hwm <= Meta.hwm /\ Meta.hwm \in Nat
      BY <1>1, <2>2, <2>3, LogFacts
    <3>3. QED
      BY <1>1, <1>2, <1>4, <3>1, <3>2 DEF Unprepared
  <2>4. QED
    BY <1>2, <1>3, <2>1, <2>2, <2>3
<1>5. CASE Unprepared(n)
  <2>1. P = SubSeq(log[n], 1, v.hwm) /\ prepared[n] # FenceOf(v) /\ v.hwm <= LEO(n)
    BY <1>1, <1>2, <1>5 DEF Unprepared, PreparedLog
  <2>2. Len(P) = v.hwm
    BY <1>1, <1>5, PreparedType
  <2>3. \A k \in 1..v.hwm : P[k] = log[n][k]
    <3>1. \A k \in 1..v.hwm : log[n][k] \in Records
      BY <1>1, <1>2, <2>1, StateFacts
    <3>2. QED
      BY <1>1, <2>1, <3>1, SubSeqProperties
  <2>4. prepared[n].epoch < v.epoch /\ ~Prepared(n)
    <3>1. Prepared(n) => FenceOf(v) = FenceOf(Meta)
      BY ViewFacts
    <3>2. QED
      BY <2>1, <3>1, ViewFacts DEF Prepared
  <2>5. ASSUME NEW i \in DOMAIN metaLog, n \in Core(i)
        PROVE  metaLog[i].hwm <= v.hwm
    <3>1. CASE i <= applied[n]
      BY <1>1, <3>1, LogFacts
    <3>2. CASE applied[n] <= i
      <4>1. applied[n] \in 1..i
        BY <1>1, <3>2, LogFacts
      <4>2. v.epoch > prepared[n].epoch
        BY <1>1, <2>4, LogFacts, StateFacts
      <4>3. v.hwm = metaLog[i].hwm
        BY <1>1, <2>5, <4>1, <4>2 DEF CoreHolds
      <4>4. QED
        BY <1>1, <4>3
    <3>3. QED
      BY <1>1, <3>1, <3>2, LogFacts
  <2>6. n \in Core(Len(metaLog)) => Meta.hwm <= v.hwm
    BY <2>5, LogFacts
  <2>7. v.hwm <= Meta.hwm /\ Meta.hwm \in Nat
    BY <1>1, LogFacts
  <2>8. QED
    BY <1>1, <1>3, <2>1, <2>2, <2>3, <2>4, <2>5, <2>6, <2>7
<1>6. QED
  BY <1>4, <1>5

-----------------------------------------------------------------------------
(* Steps that move one log: preparation, and perhaps one record more.      *)

\* The log of n becomes l, under the fence of its view.
Moves(n, l) ==
    /\ log' = [log EXCEPT ![n] = l]
    /\ prepared' = [prepared EXCEPT ![n] = FenceOf(View(n))]
    /\ UNCHANGED <<metaLog, applied, committed>>

\* A replica prepares when it leads or when its leader sent it a record.
Entitled(n) ==
    View(n).leader = n \/ \E h \in Nat, r \in Nat : Sound(View(n).leader, View(n).epoch, h, r)

\* What the log of n becomes: its prepared log, or one record more.
Gains(n, l) ==
    \/ l = PreparedLog(n) /\ used'["record"] = used["record"]
    \/ /\ View(n).leader = n
       /\ l = Append(PreparedLog(n), used["record"] + 1)
       /\ used'["record"] = used["record"] + 1
    \/ \E r \in Records : /\ l = Append(PreparedLog(n), r)
                          /\ Sound(View(n).leader, View(n).epoch, Len(PreparedLog(n)) + 1, r)
                          /\ used'["record"] = used["record"]

\* The logs after the step.
LEMMA MoveFacts ==
    ASSUME TypeInv, TypeInv', MetadataMonotone, Calm, PreparedPast, CoreHolds,
           NEW n \in Brokers, NEW l, Moves(n, l), Gains(n, l)
    PROVE  /\ Meta' = Meta /\ Len(committed') = Len(committed)
           /\ \A i \in DOMAIN metaLog : Core(i)' = Core(i)
           /\ log'[n] = l /\ prepared'[n] = FenceOf(View(n)) /\ LEO(n)' = Len(l) /\ Len(l) \in Nat
           /\ prepared[n].epoch <= prepared'[n].epoch /\ prepared'[n].epoch = View(n).epoch
           /\ Prepared(n)' <=> View(n).epoch = Meta.epoch
           /\ \A b \in Brokers \ {n} :
                 /\ log'[b] = log[b] /\ prepared'[b] = prepared[b] /\ LEO(b)' = LEO(b)
                 /\ Prepared(b)' <=> Prepared(b)
           /\ Len(PreparedLog(n)) <= Len(l) /\ Len(l) <= Len(PreparedLog(n)) + 1
           /\ \A k \in 1..Len(PreparedLog(n)) : l[k] = log[n][k]
           /\ Len(l) = Len(PreparedLog(n)) + 1 =>
                 \/ View(n).leader = n /\ l[Len(l)] = used["record"] + 1
                    /\ used'["record"] = used["record"] + 1
                 \/ /\ Sound(View(n).leader, View(n).epoch, Len(l), l[Len(l)])
                    /\ used'["record"] = used["record"]
           /\ used["record"] <= used'["record"] /\ used'["record"] \in Nat
<1> DEFINE P == PreparedLog(n)
<1>1. /\ P \in Seq(Records) /\ Len(P) \in Nat /\ \A k \in 1..Len(P) : P[k] = log[n][k]
      /\ used["record"] \in Nat /\ used'["record"] \in Nat
  BY PreparedFacts, StateFacts DEF TypeInv, TypeOK, Events
<1>2. /\ Meta' = Meta /\ Len(committed') = Len(committed)
      /\ \A i \in DOMAIN metaLog : Core(i)' = Core(i)
  BY DEF Moves, Meta, Core
<1>3. log'[n] = l /\ prepared'[n] = FenceOf(View(n)) /\ LEO(n)' = Len(l)
  BY DEF Moves, TypeInv, TypeOK, LEO
<1>4. prepared'[n].epoch = View(n).epoch /\ prepared[n].epoch <= View(n).epoch
  BY <1>3, ViewFacts DEF FenceOf
<1>5. Prepared(n)' <=> View(n).epoch = Meta.epoch
  BY <1>2, <1>3, ViewFacts DEF Prepared
<1>6. ASSUME NEW b \in Brokers \ {n}
      PROVE  /\ log'[b] = log[b] /\ prepared'[b] = prepared[b] /\ LEO(b)' = LEO(b)
             /\ Prepared(b)' <=> Prepared(b)
  BY <1>2 DEF Moves, TypeInv, TypeOK, LEO, Prepared
<1> HIDE DEF P
<1>7. CASE l = P /\ used'["record"] = used["record"]
  <2>1. Len(l) = Len(P) /\ (\A k \in 1..Len(P) : l[k] = log[n][k])
    BY <1>1, <1>7
  <2>2. QED
    BY <1>1, <1>2, <1>3, <1>4, <1>5, <1>6, <1>7, <2>1 DEF P
<1>8. ASSUME NEW r, l = Append(P, r)
      PROVE  /\ Len(l) = Len(P) + 1 /\ l[Len(l)] = r
             /\ \A k \in 1..Len(P) : l[k] = log[n][k]
  BY <1>1, <1>8
<1>9. CASE /\ View(n).leader = n /\ l = Append(P, used["record"] + 1)
           /\ used'["record"] = used["record"] + 1
  <2>1. /\ Len(l) = Len(P) + 1 /\ l[Len(l)] = used["record"] + 1
        /\ \A k \in 1..Len(P) : l[k] = log[n][k]
    BY <1>8, <1>9
  <2>2. QED
    BY <1>1, <1>2, <1>3, <1>4, <1>5, <1>6, <1>9, <2>1 DEF P
<1>10. ASSUME NEW r \in Records, l = Append(P, r), used'["record"] = used["record"],
              Sound(View(n).leader, View(n).epoch, Len(P) + 1, r)
       PROVE  /\ Len(l) = Len(P) + 1 /\ used'["record"] = used["record"]
              /\ Sound(View(n).leader, View(n).epoch, Len(l), l[Len(l)])
              /\ \A k \in 1..Len(P) : l[k] = log[n][k]
  <2>1. /\ Len(l) = Len(P) + 1 /\ l[Len(l)] = r
        /\ \A k \in 1..Len(P) : l[k] = log[n][k]
    BY <1>8, <1>10
  <2>2. QED
    BY <1>10, <2>1
<1>11. CASE \E r \in Records : /\ l = Append(P, r)
                               /\ Sound(View(n).leader, View(n).epoch, Len(P) + 1, r)
                               /\ used'["record"] = used["record"]
  <2>1. /\ Len(l) = Len(P) + 1 /\ used'["record"] = used["record"]
        /\ Sound(View(n).leader, View(n).epoch, Len(l), l[Len(l)])
        /\ \A k \in 1..Len(P) : l[k] = log[n][k]
    BY <1>10, <1>11
  <2>2. QED
    BY <1>1, <1>2, <1>3, <1>4, <1>5, <1>6, <2>1 DEF P
<1>12. QED
  BY <1>7, <1>9, <1>11 DEF Gains, P

\* Under the current fence the leader gains only new records, after the committed
\* ones, and a follower only what the leader's log holds at the same place.
LEMMA MoveLine ==
    ASSUME TypeInv, TypeInv', MetadataMonotone, Calm, PreparedPast, CoreHolds, OneLine,
           NEW n \in Brokers, NEW l, Moves(n, l), Gains(n, l), Entitled(n),
           View(n).epoch = Meta.epoch
    PROVE  /\ Prepared(Meta.leader)'
           /\ n = Meta.leader => /\ Prepared(n) \/ Len(PreparedLog(n)) = Meta.hwm
                                 /\ Len(l) = Len(PreparedLog(n)) + 1 =>
                                       /\ l[Len(l)] = used["record"] + 1
                                       /\ used'["record"] = used["record"] + 1
           /\ n # Meta.leader => /\ Prepared(Meta.leader)
                                 /\ Len(l) = Len(PreparedLog(n)) + 1 =>
                                       /\ Len(l) <= LEO(Meta.leader)
                                       /\ log[Meta.leader][Len(l)] = l[Len(l)]
<1>1. View(n).leader = Meta.leader /\ FenceOf(View(n)) = FenceOf(Meta)
  BY ViewFacts DEF FenceOf
<1>2. Meta.leader \in Core(Len(metaLog)) /\ Meta.leader \in Brokers
  BY LogFacts DEF Core
<1>3. Len(l) = Len(PreparedLog(n)) + 1 =>
          \/ n = Meta.leader /\ l[Len(l)] = used["record"] + 1
             /\ used'["record"] = used["record"] + 1
          \/ /\ Prepared(Meta.leader) /\ Len(l) <= LEO(Meta.leader)
             /\ log[Meta.leader][Len(l)] = l[Len(l)]
  BY <1>1, MoveFacts DEF Sound, Leads
<1>4. CASE n = Meta.leader
  <2>1. Prepared(n)'
    BY MoveFacts
  <2>2. Prepared(n) \/ Len(PreparedLog(n)) = Meta.hwm
    BY <1>1, <1>2, <1>4, PreparedFacts
  <2>3. Prepared(n) => Len(PreparedLog(n)) = LEO(n)
    BY PreparedFacts DEF LEO
  <2>4. Len(l) = Len(PreparedLog(n)) + 1 => ~(Prepared(n) /\ Len(l) <= LEO(n))
    <3>1. Len(PreparedLog(n)) \in Nat /\ LEO(n) \in Nat
      BY PreparedFacts, StateFacts
    <3>2. QED
      BY <2>3, <3>1
  <2>5. Meta' = Meta
    BY MoveFacts
  <2>6. Prepared(Meta.leader)'
    BY <1>4, <2>1, <2>5 DEF Prepared
  <2>7. QED
    BY <1>3, <1>4, <2>2, <2>4, <2>6
<1>5. CASE n # Meta.leader
  <2>1. Prepared(Meta.leader)
    BY <1>1, <1>5 DEF Entitled, Sound, Leads
  <2>2. Meta' = Meta /\ (Prepared(Meta.leader)' <=> Prepared(Meta.leader))
    <3>1. Meta' = Meta
      BY MoveFacts
    <3>2. prepared'[Meta.leader] = prepared[Meta.leader]
      BY <1>2, <1>5, MoveFacts
    <3>3. QED
      BY <3>1, <3>2 DEF Prepared
  <2>3. QED
    BY <1>3, <1>5, <2>1, <2>2
<1>6. QED
  BY <1>4, <1>5

\* The replicas that matter keep what was committed.
LEMMA MoveCore ==
    ASSUME TypeInv, TypeInv', MetadataMonotone, Calm, PreparedPast, CoreHolds,
           NEW n \in Brokers, NEW l, Moves(n, l), Gains(n, l)
    PROVE  CoreHolds'
<1>1. UNCHANGED <<metaLog, committed>> /\ Meta' = Meta
  BY MoveFacts DEF Moves
<1>2. ASSUME NEW i \in DOMAIN metaLog, NEW b \in Core(i)
      PROVE  /\ Agrees(b, metaLog[i].hwm)'
             /\ \A j \in 1..i : metaLog[j].epoch > prepared'[b].epoch => metaLog[j].hwm = metaLog[i].hwm
  <2>1. b \in Brokers /\ metaLog[i].hwm \in Nat
    BY LogFacts
  <2>2. /\ Agrees(b, metaLog[i].hwm)
        /\ \A j \in 1..i : metaLog[j].epoch > prepared[b].epoch => metaLog[j].hwm = metaLog[i].hwm
    BY DEF CoreHolds
  <2>3. CASE b # n
    <3>1. log'[b] = log[b] /\ prepared'[b] = prepared[b] /\ LEO(b)' = LEO(b)
      BY <2>1, <2>3, MoveFacts
    <3>2. QED
      BY <1>1, <2>2, <3>1 DEF Agrees
  <2>4. CASE b = n
    <3>1. /\ log'[n] = l /\ LEO(n)' = Len(l) /\ Len(l) \in Nat /\ Len(PreparedLog(n)) <= Len(l)
          /\ \A k \in 1..Len(PreparedLog(n)) : l[k] = log[n][k]
          /\ prepared[n].epoch <= prepared'[n].epoch /\ prepared'[n].epoch = View(n).epoch
      BY MoveFacts
    <3>2. metaLog[i].hwm <= Len(PreparedLog(n)) /\ Len(PreparedLog(n)) \in Nat
      BY <2>4, PreparedFacts
    <3>3. Agrees(n, metaLog[i].hwm)'
      BY <1>1, <2>1, <2>2, <2>4, <3>1, <3>2 DEF Agrees
    <3>4. prepared[n].epoch \in Nat /\ View(n).epoch \in Nat
      BY StateFacts, ViewFacts, LogFacts
    <3>5. ASSUME NEW j \in 1..i, metaLog[j].epoch > prepared'[n].epoch
          PROVE  metaLog[j].hwm = metaLog[i].hwm
      <4>1. metaLog[j].epoch \in Nat
        BY LogFacts
      <4>2. metaLog[j].epoch > prepared[n].epoch
        BY <3>1, <3>4, <3>5, <4>1
      <4>3. QED
        BY <2>2, <2>4, <4>2
    <3>6. QED
      BY <2>4, <3>3, <3>5
  <2>5. QED
    BY <2>3, <2>4
<1>3. Len(committed') = Meta'.hwm
  BY <1>1 DEF CoreHolds
<1>4. \A i \in DOMAIN metaLog : Core(i)' = Core(i)
  BY MoveFacts
<1>5. QED
  BY <1>1, <1>2, <1>3, <1>4 DEF CoreHolds

\* The logs stay on the leader's line.
LEMMA MoveOneLine ==
    ASSUME TypeInv, TypeInv', MetadataMonotone, Calm, PreparedPast, CoreHolds, OneLine,
           NEW n \in Brokers, NEW l, Moves(n, l), Gains(n, l), Entitled(n)
    PROVE  OneLine'
<1>0. PICK L : L = Meta.leader
  OBVIOUS
<1> DEFINE P == PreparedLog(n)
<1>1. UNCHANGED metaLog /\ Meta' = Meta /\ Core(Len(metaLog))' = Core(Len(metaLog))
  BY MoveFacts, LogFacts DEF Moves
<1>2. L \in Brokers /\ L \in Core(Len(metaLog)) /\ Meta.hwm \in Nat
  BY <1>0, LogFacts DEF Core
<1>3. /\ log'[n] = l /\ LEO(n)' = Len(l) /\ Len(l) \in Nat /\ Len(P) <= Len(l) /\ Len(l) <= Len(P) + 1
      /\ \A k \in 1..Len(P) : l[k] = log[n][k]
      /\ Prepared(n)' <=> View(n).epoch = Meta.epoch
  BY MoveFacts
<1>4. Prepared(n) => View(n).epoch = Meta.epoch /\ P = log[n] /\ Len(P) = LEO(n)
  BY PreparedFacts, ViewFacts DEF LEO
<1>5. Len(P) \in Nat /\ \A b \in Brokers : LEO(b) \in Nat
  BY PreparedFacts, StateFacts
<1>6. ASSUME NEW b \in Brokers, Prepared(b)'
      PROVE  Prepared(L)' /\ (b \in Core(Len(metaLog)) => Behind(b, L)')
  <2>1. CASE b = n /\ n = L
    BY <1>3, <1>5, <1>6, <2>1 DEF Behind
  <2>2. CASE b = n /\ n # L
    <3>1. View(n).epoch = Meta.epoch
      BY <1>3, <1>6, <2>2
    <3>2. /\ Prepared(L)' /\ Prepared(L)
          /\ Len(l) = Len(P) + 1 => Len(l) <= LEO(L) /\ log[L][Len(l)] = l[Len(l)]
      BY <1>0, <1>1, <2>2, <3>1, MoveLine
    <3>3. log'[L] = log[L] /\ LEO(L)' = LEO(L)
      BY <1>2, <2>2, MoveFacts
    <3>4. ASSUME n \in Core(Len(metaLog))
          PROVE  Len(P) <= LEO(L) /\ \A k \in 1..Len(P) : l[k] = log[L][k]
      <4>1. CASE Prepared(n)
        BY <1>0, <1>3, <1>4, <3>4, <4>1 DEF OneLine, Behind
      <4>2. CASE ~Prepared(n)
        <5>1. Len(P) = Meta.hwm
          BY <3>1, <3>4, <4>2, PreparedFacts, ViewFacts
        <5>2. Agrees(n, Meta.hwm) /\ Agrees(L, Meta.hwm)
          BY <1>2, <3>4, LogFacts DEF CoreHolds
        <5>3. QED
          BY <1>2, <1>3, <5>1, <5>2 DEF Agrees
      <4>3. QED
        BY <4>1, <4>2
    <3>5. ASSUME n \in Core(Len(metaLog))
          PROVE  Behind(n, L)'
      <4>1. Len(l) <= LEO(L)
        BY <1>3, <1>5, <3>2, <3>4, <3>5, <1>2
      <4>2. \A k \in 1..Len(l) : l[k] = log[L][k]
        <5>1. SUFFICES ASSUME NEW k \in 1..Len(l) PROVE l[k] = log[L][k]
          OBVIOUS
        <5>2. k \in 1..Len(P) \/ (k = Len(l) /\ Len(l) = Len(P) + 1)
          BY <1>3, <1>5
        <5>3. QED
          BY <3>2, <3>4, <3>5, <5>2
      <4>3. QED
        BY <1>3, <3>3, <4>1, <4>2 DEF Behind
    <3>6. QED
      BY <2>2, <3>2, <3>5
  <2>3. CASE b # n /\ n = L
    <3>1. Prepared(b) /\ log'[b] = log[b] /\ LEO(b)' = LEO(b)
      BY <1>6, <2>3, MoveFacts
    <3>2. Prepared(L) /\ (b \in Core(Len(metaLog)) => Behind(b, L))
      BY <1>0, <3>1 DEF OneLine
    <3>3. Prepared(L)' /\ P = log[L] /\ Len(P) = LEO(L)
      BY <1>3, <1>4, <2>3, <3>2
    <3>4. ASSUME Behind(b, L) PROVE Behind(b, L)'
      <4>1. LEO(b) <= LEO(L) /\ \A k \in 1..LEO(b) : log[b][k] = log[L][k]
        BY <3>4 DEF Behind
      <4>2. LEO(b) <= Len(l) /\ \A k \in 1..LEO(b) : log[b][k] = l[k]
        BY <1>2, <1>3, <1>5, <2>3, <3>3, <4>1
      <4>3. QED
        BY <1>3, <2>3, <3>1, <4>2 DEF Behind
    <3>5. QED
      BY <3>2, <3>3, <3>4
  <2>4. CASE b # n /\ n # L
    <3>1. /\ Prepared(b) /\ log'[b] = log[b] /\ LEO(b)' = LEO(b)
          /\ Prepared(L)' <=> Prepared(L)
          /\ log'[L] = log[L] /\ LEO(L)' = LEO(L)
      BY <1>2, <1>6, <2>4, MoveFacts
    <3>2. Prepared(L) /\ (b \in Core(Len(metaLog)) => Behind(b, L))
      BY <1>0, <3>1 DEF OneLine
    <3>3. QED
      BY <3>1, <3>2 DEF Behind
  <2>5. QED
    BY <2>1, <2>2, <2>3, <2>4
<1>7. QED
  BY <1>0, <1>1, <1>6 DEF OneLine

\* Under a later epoch less is claimed.
LEMMA LostLater ==
    ASSUME TypeInv, MetadataMonotone, NEW e \in Nat, NEW f \in Nat, e <= f, NEW h, NEW r, Lost(e, h, r)
    PROVE  Lost(f, h, r)
<1>1. \A i \in DOMAIN metaLog : metaLog[i].epoch \in Nat
  BY LogFacts
<1>2. Meta.epoch \in Nat
  BY LogFacts
<1>3. QED
  BY <1>1, <1>2 DEF Lost

\* A record that was left behind stays behind: the leader adds new records only.
LEMMA MoveLost ==
    ASSUME TypeInv, TypeInv', MetadataMonotone, Calm, PreparedPast, CoreHolds, OneLine,
           NEW n \in Brokers, NEW l, Moves(n, l), Gains(n, l), Entitled(n),
           NEW e \in Nat, NEW h \in Nat \ {0}, NEW r \in Nat, r <= used["record"], Lost(e, h, r)
    PROVE  Lost(e, h, r)'
<1>0. PICK L : L = Meta.leader
  OBVIOUS
<1> DEFINE P == PreparedLog(n)
<1>1. UNCHANGED <<metaLog, committed>> /\ Meta' = Meta
  BY MoveFacts DEF Moves
<1>2. L \in Brokers /\ L \in Core(Len(metaLog)) /\ Meta.hwm \in Nat
  BY <1>0, LogFacts DEF Core
<1>3. /\ log'[n] = l /\ LEO(n)' = Len(l) /\ Len(l) \in Nat /\ Len(P) <= Len(l) /\ Len(l) <= Len(P) + 1
      /\ \A k \in 1..Len(P) : l[k] = log[n][k]
      /\ Prepared(n)' <=> View(n).epoch = Meta.epoch
  BY MoveFacts
<1>4. Prepared(n) => P = log[n] /\ Len(P) = LEO(n)
  BY PreparedFacts DEF LEO
<1>5. Len(P) \in Nat /\ LEO(L) \in Nat /\ used["record"] \in Nat
  BY <1>2, PreparedFacts, StateFacts
<1>6. ASSUME e < Meta.epoch, Prepared(L)', Meta.hwm < h, h <= LEO(L)', log'[L][h] = r
      PROVE  FALSE
  <2>1. CASE n # L
    <3>1. (Prepared(L)' <=> Prepared(L)) /\ log'[L] = log[L] /\ LEO(L)' = LEO(L)
      BY <1>2, <2>1, MoveFacts
    <3>2. QED
      BY <1>0, <1>6, <3>1 DEF Lost
  <2>2. CASE n = L
    <3>1. View(n).epoch = Meta.epoch
      BY <1>3, <1>6, <2>2
    <3>2. /\ Prepared(n) \/ Len(P) = Meta.hwm
          /\ Len(l) = Len(P) + 1 => l[Len(l)] = used["record"] + 1
      BY <1>0, <2>2, <3>1, MoveLine
    <3>3. h <= Len(l) /\ l[h] = r
      BY <1>3, <1>6, <2>2
    <3>4. CASE h <= Len(P)
      <4>1. Prepared(L)
        BY <1>2, <1>5, <1>6, <2>2, <3>2, <3>4
      <4>2. h <= LEO(L) /\ log[L][h] = r
        BY <1>3, <1>4, <2>2, <3>3, <3>4, <4>1
      <4>3. QED
        BY <1>0, <1>6, <4>1, <4>2 DEF Lost
    <3>5. CASE ~(h <= Len(P))
      <4>1. h = Len(l) /\ Len(l) = Len(P) + 1
        BY <1>3, <1>5, <3>3, <3>5
      <4>2. QED
        BY <1>5, <3>2, <3>3, <4>1
    <3>6. QED
      BY <3>4, <3>5
  <2>3. QED
    BY <2>1, <2>2
<1>7. \A i \in DOMAIN metaLog' :
          metaLog'[i].epoch > e /\ metaLog'[i].hwm < h /\ h <= Len(committed') => committed'[h] # r
  BY <1>1 DEF Lost
<1>8. QED
  BY <1>0, <1>1, <1>6, <1>7 DEF Lost

\* What left a leader stays sound, and what was copied stays copied.
LEMMA MoveSound ==
    ASSUME TypeInv, TypeInv', MetadataMonotone, Calm, PreparedPast, CoreHolds, OneLine,
           NEW n \in Brokers, NEW l, Moves(n, l), Gains(n, l), Entitled(n),
           NEW e \in Nat, NEW h \in Nat \ {0}, NEW r \in Nat
    PROVE  /\ \A b : Sound(b, e, h, r) => Sound(b, e, h, r)'
           /\ \A S : Copied(e, h, S) => Copied(e, h, S)'
<1>0. PICK L : L = Meta.leader
  OBVIOUS
<1> DEFINE P == PreparedLog(n)
<1>1. UNCHANGED metaLog /\ Meta' = Meta /\ Core(Len(metaLog))' = Core(Len(metaLog))
  BY MoveFacts, LogFacts DEF Moves
<1>2. L \in Brokers /\ Core(Len(metaLog)) \subseteq Brokers
  BY <1>0, LogFacts
<1>3. /\ log'[n] = l /\ LEO(n)' = Len(l) /\ Len(l) \in Nat /\ Len(P) <= Len(l)
      /\ \A k \in 1..Len(P) : l[k] = log[n][k]
      /\ Prepared(n)' <=> View(n).epoch = Meta.epoch
  BY MoveFacts
<1>4. ASSUME NEW x \in Brokers, Prepared(x)
      PROVE  /\ Prepared(x)' /\ LEO(x) <= LEO(x)'
             /\ \A k \in 1..LEO(x) : log'[x][k] = log[x][k]
  <2>1. LEO(x) \in Nat
    BY StateFacts
  <2>2. CASE x # n
    BY <1>4, <2>1, <2>2, MoveFacts
  <2>3. CASE x = n
    <3>1. P = log[n] /\ Len(P) = LEO(n) /\ View(n).epoch = Meta.epoch
      BY <1>4, <2>3, PreparedFacts, ViewFacts DEF LEO
    <3>2. QED
      BY <1>3, <2>3, <3>1
  <2>4. QED
    BY <2>2, <2>3
<1>5. ASSUME NEW b, Sound(b, e, h, r) PROVE Sound(b, e, h, r)'
  <2>1. Issued(b, e)'
    BY <1>1, <1>5 DEF Sound, Issued
  <2>2. Leads(e, h, r)'
    <3>1. SUFFICES ASSUME e = Meta.epoch
                   PROVE  Prepared(L)' /\ h <= LEO(L)' /\ log'[L][h] = r
      BY <1>0, <1>1 DEF Leads
    <3>2. Prepared(L) /\ h <= LEO(L) /\ log[L][h] = r
      BY <1>0, <1>5, <3>1 DEF Sound, Leads
    <3>3. LEO(L) \in Nat /\ LEO(L)' \in Nat
      BY <1>2, StateFacts, LenProperties DEF TypeInv, TypeOK, LEO
    <3>4. QED
      BY <1>2, <1>4, <3>2, <3>3
  <2>3. r <= used["record"] /\ Lost(e, h, r)
    BY <1>5 DEF Sound
  <2>4. Lost(e, h, r)'
    BY <2>3, MoveLost
  <2>5. r <= used'["record"]
    <3>1. used["record"] <= used'["record"] /\ used["record"] \in Nat /\ used'["record"] \in Nat
      BY MoveFacts, StateFacts
    <3>2. QED
      BY <2>3, <3>1
  <2>6. QED
    BY <2>1, <2>2, <2>4, <2>5 DEF Sound
<1>6. ASSUME NEW S, Copied(e, h, S) PROVE Copied(e, h, S)'
  <2>1. ASSUME e = Meta.epoch, NEW x \in Core(Len(metaLog)), x \notin S
        PROVE  Prepared(x)' /\ h <= LEO(x)'
    <3>1. x \in Brokers /\ Prepared(x) /\ h <= LEO(x)
      BY <1>2, <1>6, <2>1 DEF Copied
    <3>2. LEO(x) \in Nat /\ LEO(x)' \in Nat
      BY <3>1, StateFacts, LenProperties DEF TypeInv, TypeOK, LEO
    <3>3. QED
      BY <1>4, <3>1, <3>2
  <2>2. QED
    BY <1>1, <2>1 DEF Copied
<1>7. QED
  BY <1>5, <1>6

\* No log brings back what was left behind.
LEMMA MoveLog ==
    ASSUME TypeInv, TypeInv', MetadataMonotone, Calm, PreparedPast, CoreHolds, OneLine, LogOK,
           NEW n \in Brokers, NEW l, Moves(n, l), Gains(n, l), Entitled(n)
    PROVE  LogOK'
<1> DEFINE P == PreparedLog(n)
<1>1. UNCHANGED <<metaLog, committed>> /\ Meta' = Meta
  BY MoveFacts DEF Moves
<1>2. /\ log'[n] = l /\ LEO(n)' = Len(l) /\ Len(l) \in Nat /\ Len(P) <= Len(l) /\ Len(l) <= Len(P) + 1
      /\ \A k \in 1..Len(P) : l[k] = log[n][k]
      /\ prepared[n].epoch <= prepared'[n].epoch /\ prepared'[n].epoch = View(n).epoch
      /\ Prepared(n)' <=> View(n).epoch = Meta.epoch
  BY MoveFacts
<1>3. /\ used["record"] \in Nat /\ used'["record"] \in Nat /\ used["record"] <= used'["record"]
      /\ Len(P) \in Nat /\ Len(P) <= LEO(n) /\ LEO(n) \in Nat
  BY MoveFacts, StateFacts, PreparedFacts
<1>4. prepared[n].epoch \in Nat /\ View(n).epoch \in Nat
  BY StateFacts, ViewFacts, LogFacts
<1>5. ASSUME NEW b \in Brokers, NEW k \in 1..LEO(b)
      PROVE  /\ prepared[b].epoch \in Nat /\ k \in Nat \ {0} /\ log[b][k] \in Nat
             /\ log[b][k] <= used["record"] /\ log[b][k] <= used'["record"]
             /\ Lost(prepared[b].epoch, k, log[b][k])
  <2>1. prepared[b].epoch \in Nat /\ k \in Nat \ {0} /\ log[b][k] \in Nat
    BY StateFacts
  <2>2. log[b][k] <= used["record"] /\ Lost(prepared[b].epoch, k, log[b][k])
    BY DEF LogOK
  <2>3. QED
    BY <1>3, <2>1, <2>2
<1>6. ASSUME NEW b \in Brokers \ {n}, NEW k \in 1..LEO(b)
      PROVE  Lost(prepared[b].epoch, k, log[b][k])' /\ log'[b][k] <= used'["record"]
  <2>1. PICK e \in Nat, r \in Nat : e = prepared[b].epoch /\ r = log[b][k]
    BY <1>5
  <2>2. Lost(e, k, r)'
    BY <1>5, <2>1, MoveLost
  <2>3. prepared'[b].epoch = e /\ log'[b][k] = r
    BY <2>1, MoveFacts
  <2>4. QED
    BY <1>5, <2>1, <2>2, <2>3
<1>7. ASSUME NEW k \in 1..Len(l)
      PROVE  Lost(prepared[n].epoch, k, log[n][k])' /\ log'[n][k] <= used'["record"]
  <2>1. PICK e \in Nat : e = View(n).epoch
    BY <1>4
  <2>2. prepared'[n].epoch = e /\ log'[n][k] = l[k] /\ k \in Nat \ {0}
    BY <1>2, <2>1
  <2>3. CASE k <= Len(P)
    <3>1. k \in 1..LEO(n) /\ l[k] = log[n][k]
      BY <1>2, <1>3, <2>3
    <3>2. PICK r \in Nat : r = log[n][k]
      BY <1>5, <3>1
    <3>3. Lost(e, k, r)
      BY <1>2, <1>4, <1>5, <2>1, <3>1, <3>2, LostLater
    <3>4. Lost(e, k, r)'
      BY <1>5, <2>2, <3>1, <3>2, <3>3, MoveLost
    <3>5. QED
      BY <1>5, <2>2, <3>1, <3>2, <3>4
  <2>4. CASE ~(k <= Len(P))
    <3>1. k = Len(l) /\ Len(l) = Len(P) + 1
      BY <1>2, <1>3, <2>4
    <3>2. CASE Sound(View(n).leader, View(n).epoch, Len(l), l[Len(l)])
      <4>1. Lost(e, k, l[k]) /\ l[k] <= used["record"]
        BY <2>1, <3>1, <3>2 DEF Sound
      <4>2. l[k] \in Nat
        <5>1. log'[n] \in Seq(Records)
          BY DEF TypeInv, TypeOK
        <5>2. l[k] \in Records
          BY <1>2, <5>1, ElementOfSeq
        <5>3. QED
          BY <5>2, BoundsAssumption DEF Records
      <4>3. PICK r \in Nat : r = l[k]
        BY <4>2
      <4>4. Lost(e, k, r)'
        BY <2>2, <4>1, <4>3, MoveLost
      <4>5. r <= used'["record"]
        BY <1>3, <4>1, <4>3
      <4>6. QED
        BY <2>2, <4>3, <4>4, <4>5
    <3>3. CASE l[Len(l)] = used["record"] + 1 /\ used'["record"] = used["record"] + 1
      <4>1. PICK r \in Nat : r = used["record"] + 1
        BY <1>3
      <4>2. \A c \in 1..Len(committed) : committed[c] <= used["record"] /\ committed[c] \in Nat
        BY StateFacts DEF LogOK
      <4>3. \A i \in DOMAIN metaLog' :
                metaLog'[i].epoch > e /\ metaLog'[i].hwm < k /\ k <= Len(committed') => committed'[k] # r
        BY <1>1, <1>3, <2>2, <4>1, <4>2
      <4>4. PICK L : L = Meta.leader
        OBVIOUS
      <4>5. L \in Brokers
        BY <4>4, LogFacts
      <4>6. ASSUME e < Meta.epoch, Prepared(L)', k <= LEO(L)', log'[L][k] = r
            PROVE  FALSE
        <5>1. L # n
          BY <1>2, <1>4, <2>1, <4>6, LogFacts
        <5>2. log'[L] = log[L] /\ LEO(L)' = LEO(L)
          BY <4>5, <5>1, MoveFacts
        <5>3. k \in 1..LEO(L)
          BY <2>2, <4>5, <4>6, <5>2, StateFacts
        <5>4. QED
          BY <1>3, <1>5, <4>1, <4>5, <4>6, <5>2, <5>3
      <4>7. Lost(e, k, r)'
        BY <1>1, <4>3, <4>4, <4>6 DEF Lost
      <4>8. QED
        BY <1>3, <2>2, <3>1, <3>3, <4>1, <4>7
    <3>4. QED
      BY <3>1, <3>2, <3>3, MoveFacts
  <2>5. QED
    BY <2>3, <2>4
<1>8. \A k \in 1..Len(committed') : committed'[k] <= used'["record"]
  <2>1. \A c \in 1..Len(committed) : committed[c] <= used["record"] /\ committed[c] \in Nat
    BY StateFacts DEF LogOK
  <2>2. QED
    BY <1>1, <1>3, <2>1
<1>9. \A b \in Brokers \ {n} : LEO(b)' = LEO(b)
  BY MoveFacts
<1>10. QED
  BY <1>2, <1>6, <1>7, <1>8, <1>9 DEF LogOK

\* The fences prepared for are still those of applied commands.
LEMMA MovePast ==
    ASSUME TypeInv, TypeInv', MetadataMonotone, Calm, PreparedPast,
           NEW n \in Brokers, NEW l, Moves(n, l)
    PROVE  PreparedPast'
<1>1. UNCHANGED <<metaLog, applied>>
  BY DEF Moves
<1>2. applied[n] \in 1..applied[n] /\ View(n) = metaLog[applied[n]]
  BY ViewFacts, LogFacts
<1>3. prepared'[n] = FenceOf(metaLog[applied[n]])
  BY <1>2 DEF Moves, TypeInv, TypeOK
<1>4. \A b \in Brokers \ {n} : prepared'[b] = prepared[b]
  BY DEF Moves, TypeInv, TypeOK
<1>5. ASSUME NEW b \in Brokers
      PROVE  prepared'[b] = NoFence \/ \E i \in 1..applied[b] : prepared'[b] = FenceOf(metaLog[i])
  <2>1. CASE b = n
    BY <1>2, <1>3, <2>1
  <2>2. CASE b # n
    BY <1>4, <2>2 DEF PreparedPast
  <2>3. QED
    BY <2>1, <2>2
<1>6. QED
  BY <1>1, <1>5 DEF PreparedPast, FenceOf

-----------------------------------------------------------------------------
(* Work in flight.                                                         *)

\* Every task, request and commit that was in order still is.
Carries ==
    /\ \A b \in Brokers, t \in Tasks : TaskOK(b, t) => TaskOK(b, t)'
    /\ \A m \in Requests : RequestOK(m) => RequestOK(m)'
    /\ \A c \in Commits : CommitOK(c) => CommitOK(c)'

\* The Raft log and the committed records only grow.
Prolongs ==
    /\ \A i \in DOMAIN metaLog : i \in DOMAIN metaLog' /\ metaLog'[i] = metaLog[i]
    /\ Meta'.isr \subseteq Meta.isr
    /\ Len(committed) <= Len(committed')
    /\ \A k \in 1..Len(committed) : committed'[k] = committed[k]

\* It follows from the parts.
LEMMA CarriesParts ==
    ASSUME TypeInv, TypeInv', Prolongs,
           \A e \in Nat, h \in Nat \ {0}, r \in Nat :
               \A b : Sound(b, e, h, r) =>
                   Sound(b, e, h, r)' /\ \A S : Copied(e, h, S) => Copied(e, h, S)'
    PROVE  Carries
<1>1. Records \subseteq Nat
  BY BoundsAssumption DEF Records
<1>2. Len(committed) \in Nat /\ Len(committed') \in Nat
  BY LenProperties DEF TypeInv, TypeOK
<1>3. ASSUME NEW b \in Brokers, NEW t \in Tasks, TaskOK(b, t)
      PROVE  TaskOK(b, t)'
  <2>1. t.epoch \in Nat /\ t.hwm \in Nat \ {0} /\ t.rec \in Nat
    BY <1>1 DEF Tasks
  <2>2. CASE t.barrier
    BY <1>3, <2>2 DEF TaskOK
  <2>3. CASE ~t.barrier
    <3>1. /\ Sound(b, t.epoch, t.hwm, t.rec) /\ Meta.isr \subseteq t.isr
          /\ t.pc # "start" => Copied(t.epoch, t.hwm, t.todo)
          /\ PastCommit(t) => TaskDone(b, t)
          /\ \E i \in DOMAIN metaLog : metaLog[i].epoch = t.epoch /\ t.isr = metaLog[i].isr
      BY <1>3, <2>3 DEF TaskOK
    <3>2. /\ Sound(b, t.epoch, t.hwm, t.rec)'
          /\ t.pc # "start" => Copied(t.epoch, t.hwm, t.todo)'
      BY <2>1, <3>1
    <3>3. TaskDone(b, t) => TaskDone(b, t)'
      BY <1>2, <2>1 DEF Prolongs, TaskDone
    <3>4. /\ (Meta.isr)' \subseteq t.isr
          /\ \E i \in DOMAIN metaLog' : metaLog'[i].epoch = t.epoch /\ t.isr = metaLog'[i].isr
      BY <3>1 DEF Prolongs
    <3>5. QED
      BY <2>3, <3>1, <3>2, <3>3, <3>4 DEF TaskOK, PastCommit
  <2>4. QED
    BY <2>2, <2>3
<1>4. ASSUME NEW m \in Requests, RequestOK(m)
      PROVE  RequestOK(m)'
  <2>1. m.epoch \in Nat /\ m.hwm \in Nat \ {0} /\ m.rec \in Nat
    BY <1>1 DEF Requests
  <2>2. Sound(m.leader, m.epoch, m.hwm, m.rec)'
    BY <1>4, <2>1 DEF RequestOK
  <2>3. \A i \in DOMAIN metaLog : Core(i)' = Core(i)
    BY DEF Prolongs, Core
  <2>4. m.commit => \E i \in DOMAIN metaLog' : metaLog'[i].epoch = m.epoch /\ m.to \notin Core(i)'
    BY <1>4, <2>3 DEF RequestOK, Prolongs
  <2>5. QED
    BY <2>2, <2>4 DEF RequestOK
<1>5. ASSUME NEW c \in Commits, CommitOK(c)
      PROVE  CommitOK(c)'
  <2>1. c.epoch \in Nat /\ c.hwm \in Nat \ {0} /\ c.rec \in Nat
    BY <1>1 DEF Commits
  <2>2. QED
    BY <1>5, <2>1 DEF CommitOK
<1>6. QED
  BY <1>3, <1>4, <1>5 DEF Carries

\* A step that moves one log.
LEMMA MoveGrounds ==
    ASSUME TypeInv, TypeInv', MetadataMonotone, Grounds,
           NEW n \in Brokers, NEW l, Moves(n, l), Gains(n, l), Entitled(n),
           UNCHANGED <<replayTarget, scan>>
    PROVE  Grounds' /\ Carries
<1>1. Calm'
  BY DEF Grounds, Calm, Moves, Core
<1>2. PreparedPast' /\ CoreHolds' /\ OneLine' /\ LogOK'
  BY MovePast, MoveCore, MoveOneLine, MoveLog DEF Grounds
<1>3. Prolongs
  <2>1. Len(committed) \in Nat
    BY StateFacts
  <2>2. QED
    BY <2>1 DEF Prolongs, Moves, Meta
<1>4. \A e \in Nat, h \in Nat \ {0}, r \in Nat :
          /\ \A b : Sound(b, e, h, r) => Sound(b, e, h, r)'
          /\ \A S : Copied(e, h, S) => Copied(e, h, S)'
  BY MoveSound DEF Grounds
<1>5. Carries
  BY <1>3, <1>4, CarriesParts
<1>6. QED
  BY <1>1, <1>2, <1>5 DEF Grounds

\* A step that moves no log.
LEMMA StillGrounds ==
    ASSUME TypeInv, TypeInv', MetadataMonotone, Grounds,
           UNCHANGED <<metaLog, log, prepared, committed, replayTarget, scan>>,
           used'["record"] = used["record"],
           \A n \in Brokers : applied[n] <= applied'[n]
    PROVE  Grounds' /\ Carries
<1>1. /\ Meta' = Meta /\ \A i : Core(i)' = Core(i)
      /\ \A n : LEO(n)' = LEO(n) /\ Prepared(n)' = Prepared(n)
  BY DEF Meta, Core, LEO, Prepared
<1>2. \A n \in Brokers : applied[n] \in Nat /\ applied'[n] \in Nat
  BY DEF TypeInv, TypeOK
<1>3. Calm'
  <2>1. \A n \in Brokers : applied'[n] > 0
    BY <1>2 DEF Grounds, Calm
  <2>2. QED
    BY <1>1, <2>1 DEF Grounds, Calm
<1>4. PreparedPast'
  <2>1. \A n \in Brokers : 1..applied[n] \subseteq 1..applied'[n]
    BY <1>2
  <2>2. QED
    BY <2>1 DEF Grounds, PreparedPast, FenceOf
<1>5. \A n, h : Agrees(n, h) => Agrees(n, h)'
  BY <1>1 DEF Agrees
<1>6. CoreHolds'
  BY <1>1, <1>5 DEF Grounds, CoreHolds
<1>7. OneLine'
  BY <1>1 DEF Grounds, OneLine, Behind
<1>8. \A e, h, r : Lost(e, h, r) => Lost(e, h, r)'
  BY <1>1 DEF Lost
<1>9. LogOK'
  BY <1>1, <1>8 DEF Grounds, LogOK
<1>10. Prolongs
  <2>1. Len(committed) \in Nat
    BY StateFacts
  <2>2. QED
    BY <1>1, <2>1 DEF Prolongs
<1>11. ASSUME NEW e, NEW h, NEW r
       PROVE  /\ \A b : Sound(b, e, h, r) => Sound(b, e, h, r)'
              /\ \A S : Copied(e, h, S) => Copied(e, h, S)'
  <2>1. Leads(e, h, r) => Leads(e, h, r)'
    BY <1>1 DEF Leads
  <2>2. \A b : Issued(b, e) => Issued(b, e)'
    BY DEF Issued
  <2>3. \A S : Copied(e, h, S) => Copied(e, h, S)'
    BY <1>1 DEF Copied
  <2>4. QED
    BY <1>8, <2>1, <2>2, <2>3 DEF Sound
<1>12. Carries
  BY <1>10, <1>11, CarriesParts
<1>13. QED
  BY <1>3, <1>4, <1>6, <1>7, <1>9, <1>12 DEF Grounds

-----------------------------------------------------------------------------
(* Raft commands.                                                          *)

\* A command that does not take the partition back, and raises its watermark only
\* over records that every replica that matters has copied from the leader.
Commands(m) ==
    /\ RaftAppend(m)
    /\ m.kind # "topic" /\ m.isr \subseteq Meta.isr /\ m.leader \in Core(Len(metaLog))
    /\ m.epoch >= Meta.epoch /\ (m.epoch = Meta.epoch => m.leader = Meta.leader)
    /\ \/ m.hwm = Meta.hwm /\ UNCHANGED committed
       \/ /\ m.epoch = Meta.epoch /\ m.hwm >= Meta.hwm /\ Len(committed') = m.hwm
          /\ \A n \in Core(Len(metaLog)) : Prepared(n) /\ m.hwm <= LEO(n)
          /\ \A k \in 1..m.hwm : committed'[k] = log[Meta.leader][k]

\* The Raft log after the command.
LEMMA CommandFacts ==
    ASSUME TypeInv, TypeInv', MetadataMonotone, CoreHolds, OneLine, NEW m \in Metadata, Commands(m)
    PROVE  /\ Len(metaLog') = Len(metaLog) + 1 /\ DOMAIN metaLog' = 1..(Len(metaLog) + 1)
           /\ metaLog'[Len(metaLog) + 1] = m /\ Meta' = m
           /\ \A i \in DOMAIN metaLog : metaLog'[i] = metaLog[i] /\ Core(i)' = Core(i)
           /\ \A i : i = Len(metaLog) + 1 => Core(i)' = m.isr \cup {m.leader}
           /\ m.isr \cup {m.leader} \subseteq Core(Len(metaLog))
           /\ Core(Len(metaLog))' = m.isr \cup {m.leader}
           /\ Len(committed') = m.hwm /\ m.hwm \in Nat /\ m.hwm >= Meta.hwm
           /\ \A k \in 1..Len(committed) : committed'[k] = committed[k]
           /\ Prolongs
<1> DEFINE N == Len(metaLog)
<1>1. N \in Nat \ {0} /\ DOMAIN metaLog = 1..N /\ Meta = metaLog[N] /\ N \in DOMAIN metaLog
  BY LogFacts
<1>2. /\ Len(metaLog') = N + 1 /\ metaLog'[N + 1] = m /\ DOMAIN metaLog' = 1..(N + 1)
      /\ \A i \in 1..N : metaLog'[i] = metaLog[i]
      /\ Meta' = m
  <2>1. metaLog' \in Seq(Metadata) /\ RaftAppend(m)
    BY RaftAppendType DEF Commands
  <2>2. QED
    BY <2>1, RaftAppendType, LenProperties
<1>3. \A i \in DOMAIN metaLog : metaLog'[i] = metaLog[i] /\ Core(i)' = Core(i)
  BY <1>1, <1>2 DEF Core
<1>4. /\ \A i : i = N + 1 => Core(i)' = m.isr \cup {m.leader}
      /\ Core(Len(metaLog))' = m.isr \cup {m.leader}
  BY <1>2 DEF Core
<1>5. m.isr \cup {m.leader} \subseteq Core(N)
  BY <1>1 DEF Commands, Core
<1>6. m.hwm \in Nat /\ Meta.hwm \in Nat /\ Len(committed) = Meta.hwm /\ Meta.leader \in Core(N)
  BY <1>1, LogFacts DEF Metadata, CoreHolds, Core
<1>7. Len(committed') = m.hwm /\ m.hwm >= Meta.hwm
  BY <1>6 DEF Commands
<1>8. \A k \in 1..Len(committed) : committed'[k] = committed[k]
  <2>1. CASE UNCHANGED committed
    BY <2>1
  <2>2. CASE m.hwm >= Meta.hwm /\ \A k \in 1..m.hwm : committed'[k] = log[Meta.leader][k]
    <3>1. Agrees(Meta.leader, Meta.hwm)
      BY <1>1, <1>6 DEF CoreHolds
    <3>2. QED
      BY <1>6, <2>2, <3>1 DEF Agrees
  <2>3. QED
    BY <2>1, <2>2 DEF Commands
<1>9. Prolongs
  BY <1>1, <1>2, <1>3, <1>6, <1>7, <1>8 DEF Prolongs, Commands
<1>10. QED
  BY <1>1, <1>2, <1>3, <1>4, <1>5, <1>6, <1>7, <1>8, <1>9

\* The replicas that matter hold what the command commits.
LEMMA CommandCore ==
    ASSUME TypeInv, TypeInv', MetadataMonotone, Calm, PreparedPast, CoreHolds, OneLine,
           NEW m \in Metadata, Commands(m), UNCHANGED <<log, prepared, applied>>
    PROVE  CoreHolds'
<1> DEFINE N == Len(metaLog)
<1>1. N \in Nat \ {0} /\ DOMAIN metaLog = 1..N /\ Meta = metaLog[N] /\ N \in DOMAIN metaLog
  BY LogFacts
<1>2. /\ DOMAIN metaLog' = 1..(N + 1) /\ metaLog'[N + 1] = m /\ Meta' = m
      /\ \A i \in DOMAIN metaLog : metaLog'[i] = metaLog[i] /\ Core(i)' = Core(i)
      /\ \A i : i = N + 1 => Core(i)' = m.isr \cup {m.leader}
      /\ m.isr \cup {m.leader} \subseteq Core(N)
      /\ Len(committed') = m.hwm /\ m.hwm \in Nat /\ m.hwm >= Meta.hwm
      /\ \A k \in 1..Len(committed) : committed'[k] = committed[k]
  BY CommandFacts
<1>3. \A b \in Brokers : LEO(b)' = LEO(b) /\ LEO(b) \in Nat
  BY StateFacts DEF LEO
<1>4. /\ Len(committed) = Meta.hwm /\ Meta.hwm \in Nat
      /\ \A i \in DOMAIN metaLog : metaLog[i].hwm \in Nat /\ metaLog[i].epoch \in Nat /\ Core(i) \subseteq Brokers
  BY LogFacts DEF CoreHolds
<1>5. ASSUME NEW h \in Nat, NEW b \in Brokers, Agrees(b, h)
      PROVE  Agrees(b, h)'
  <2>1. h <= LEO(b) /\ h <= Len(committed) /\ \A k \in 1..h : log[b][k] = committed[k]
    BY <1>5 DEF Agrees
  <2>2. h <= Len(committed') /\ \A k \in 1..h : committed'[k] = committed[k]
    BY <1>2, <1>4, <2>1
  <2>3. QED
    BY <1>3, <2>1, <2>2 DEF Agrees
<1>6. ASSUME NEW b \in m.isr \cup {m.leader}
      PROVE  /\ Agrees(b, m.hwm)'
             /\ \A j \in DOMAIN metaLog : metaLog[j].epoch > prepared[b].epoch => metaLog[j].hwm = m.hwm
  <2>1. b \in Core(N) /\ b \in Brokers
    BY <1>1, <1>2, <1>4
  <2>2. CASE m.hwm = Meta.hwm
    <3>1. Agrees(b, Meta.hwm)
      BY <1>1, <2>1 DEF CoreHolds
    <3>2. Agrees(b, m.hwm)'
      BY <1>2, <1>5, <2>1, <2>2, <3>1
    <3>3. \A j \in 1..N : metaLog[j].epoch > prepared[b].epoch => metaLog[j].hwm = metaLog[N].hwm
      BY <1>1, <2>1 DEF CoreHolds
    <3>4. QED
      BY <1>1, <2>2, <3>2, <3>3
  <2>3. CASE /\ m.epoch = Meta.epoch
             /\ \A n \in Core(N) : Prepared(n) /\ m.hwm <= LEO(n)
             /\ \A k \in 1..m.hwm : committed'[k] = log[Meta.leader][k]
    <3>1. Prepared(b) /\ m.hwm <= LEO(b)
      BY <2>1, <2>3
    <3>2. Behind(b, Meta.leader)
      BY <2>1, <3>1 DEF OneLine
    <3>3. \A k \in 1..m.hwm : log[b][k] = committed'[k]
      BY <1>2, <1>3, <2>1, <2>3, <3>1, <3>2 DEF Behind
    <3>4. Agrees(b, m.hwm)'
      BY <1>2, <1>3, <2>1, <3>1, <3>3 DEF Agrees
    <3>5. prepared[b].epoch = Meta.epoch
      BY <3>1 DEF Prepared, FenceOf
    <3>6. \A j \in DOMAIN metaLog : ~(metaLog[j].epoch > prepared[b].epoch)
      BY <1>1, <1>4, <3>5, LogFacts
    <3>7. QED
      BY <3>4, <3>6
  <2>4. QED
    BY <2>2, <2>3 DEF Commands
<1>7. ASSUME NEW i \in 1..(N + 1), NEW b \in Core(i)'
      PROVE  /\ Agrees(b, metaLog[i].hwm)'
             /\ \A j \in 1..i : metaLog'[j].epoch > prepared[b].epoch => metaLog'[j].hwm = metaLog'[i].hwm
  <2>1. CASE i \in DOMAIN metaLog
    <3>1. /\ b \in Core(i) /\ b \in Brokers /\ metaLog'[i] = metaLog[i]
          /\ \A j \in 1..i : metaLog'[j] = metaLog[j]
      BY <1>1, <1>2, <1>4, <1>7, <2>1
    <3>2. /\ Agrees(b, metaLog[i].hwm)
          /\ \A j \in 1..i : metaLog[j].epoch > prepared[b].epoch => metaLog[j].hwm = metaLog[i].hwm
      BY <2>1, <3>1 DEF CoreHolds
    <3>3. PICK h \in Nat : h = metaLog[i].hwm
      BY <1>4, <2>1
    <3>4. Agrees(b, h)'
      BY <1>5, <3>1, <3>2, <3>3
    <3>5. QED
      BY <3>1, <3>2, <3>3, <3>4 DEF Agrees
  <2>2. CASE i = N + 1
    <3>1. b \in m.isr \cup {m.leader} /\ metaLog'[i] = m
      BY <1>2, <1>7, <2>2
    <3>2. \A j \in 1..i : j \in DOMAIN metaLog \/ j = N + 1
      BY <1>1, <2>2
    <3>3. \A j \in 1..i : metaLog'[j].epoch > prepared[b].epoch => metaLog'[j].hwm = metaLog'[i].hwm
      BY <1>2, <1>6, <3>1, <3>2
    <3>4. Agrees(b, m.hwm)'
      BY <1>6, <3>1
    <3>5. QED
      BY <3>1, <3>3, <3>4 DEF Agrees
  <2>3. QED
    BY <1>1, <2>1, <2>2
<1>8. QED
  BY <1>2, <1>7 DEF CoreHolds, Agrees

\* The line is the same one, or nobody has prepared for the new fence.
LEMMA CommandLine ==
    ASSUME TypeInv, TypeInv', MetadataMonotone, Calm, PreparedPast, CoreHolds, OneLine,
           NEW m \in Metadata, Commands(m), UNCHANGED <<log, prepared, applied>>
    PROVE  /\ OneLine'
           /\ \A b \in Brokers : Prepared(b)' => Prepared(b) /\ m.epoch = Meta.epoch
           /\ m.epoch = Meta.epoch => FenceOf(m) = FenceOf(Meta) /\ m.leader = Meta.leader
<1>1. /\ Meta' = m /\ Core(Len(metaLog))' = m.isr \cup {m.leader}
      /\ m.isr \cup {m.leader} \subseteq Core(Len(metaLog))
  BY CommandFacts
<1>2. m.epoch \in Nat /\ Meta.epoch \in Nat /\ m.epoch >= Meta.epoch
  BY LogFacts DEF Metadata, Commands
<1>3. m.epoch = Meta.epoch => FenceOf(m) = FenceOf(Meta) /\ m.leader = Meta.leader
  BY DEF Commands, FenceOf
<1>4. ASSUME NEW b \in Brokers, Prepared(b)' PROVE Prepared(b) /\ m.epoch = Meta.epoch
  <2>1. prepared[b] = FenceOf(m)
    BY <1>1, <1>4 DEF Prepared
  <2>2. prepared[b].epoch = m.epoch
    BY <2>1 DEF FenceOf
  <2>3. prepared[b].epoch <= Meta.epoch
    BY ViewFacts
  <2>4. m.epoch = Meta.epoch
    BY <1>2, <2>2, <2>3
  <2>5. QED
    BY <1>3, <2>1, <2>4 DEF Prepared
<1>5. ASSUME NEW b \in Brokers, Prepared(b)'
      PROVE  /\ Prepared(Meta.leader)'
             /\ b \in m.isr \cup {m.leader} => Behind(b, Meta.leader)'
  <2>1. Prepared(b) /\ FenceOf(m) = FenceOf(Meta) /\ m.leader = Meta.leader
    BY <1>3, <1>4, <1>5
  <2>2. Prepared(Meta.leader) /\ (b \in m.isr \cup {m.leader} => Behind(b, Meta.leader))
    BY <1>1, <2>1 DEF OneLine
  <2>3. QED
    BY <1>1, <2>1, <2>2 DEF Prepared, Behind, LEO
<1>6. QED
  BY <1>1, <1>3, <1>4, <1>5 DEF OneLine

\* A record that was left behind stays behind.
LEMMA CommandLost ==
    ASSUME TypeInv, TypeInv', MetadataMonotone, Calm, PreparedPast, CoreHolds, OneLine,
           NEW m \in Metadata, Commands(m), UNCHANGED <<log, prepared, applied>>,
           NEW e \in Nat, NEW h \in Nat \ {0}, NEW r, Lost(e, h, r)
    PROVE  Lost(e, h, r)'
<1> DEFINE N == Len(metaLog)
<1>1. /\ DOMAIN metaLog' = 1..(N + 1) /\ metaLog'[N + 1] = m /\ Meta' = m
      /\ \A i \in DOMAIN metaLog : metaLog'[i] = metaLog[i]
      /\ Len(committed') = m.hwm /\ m.hwm \in Nat /\ m.hwm >= Meta.hwm
      /\ \A k \in 1..Len(committed) : committed'[k] = committed[k]
  BY CommandFacts
<1>2. /\ N \in Nat \ {0} /\ DOMAIN metaLog = 1..N /\ Meta.hwm \in Nat /\ Meta.epoch \in Nat
      /\ Meta.leader \in Brokers /\ Meta.leader \in Core(N)
      /\ Len(committed) = Meta.hwm
      /\ \A i \in DOMAIN metaLog : metaLog[i].epoch \in Nat /\ metaLog[i].epoch <= Meta.epoch
  BY LogFacts DEF CoreHolds, Core
<1>3. ASSUME NEW i \in 1..(N + 1), metaLog'[i].epoch > e, metaLog'[i].hwm < h, h <= m.hwm,
             committed'[h] = r
      PROVE  FALSE
  <2>1. i \in DOMAIN metaLog /\ metaLog'[i] = metaLog[i]
    <3>1. i # N + 1
      BY <1>1, <1>3
    <3>2. QED
      BY <1>1, <1>2, <3>1
  <2>2. CASE h <= Len(committed)
    BY <1>1, <1>2, <1>3, <2>1, <2>2 DEF Lost
  <2>3. CASE ~(h <= Len(committed))
    <3>1. m.hwm # Meta.hwm
      BY <1>1, <1>2, <1>3, <2>3
    <3>2. /\ \A n \in Core(N) : Prepared(n) /\ m.hwm <= LEO(n)
          /\ \A k \in 1..m.hwm : committed'[k] = log[Meta.leader][k]
      BY <3>1 DEF Commands
    <3>3. Prepared(Meta.leader) /\ m.hwm <= LEO(Meta.leader) /\ log[Meta.leader][h] = r
      BY <1>1, <1>2, <1>3, <3>2
    <3>4. e < Meta.epoch /\ Meta.hwm < h /\ h <= LEO(Meta.leader)
      BY <1>1, <1>2, <1>3, <2>1, <2>3, <3>3, StateFacts
    <3>5. QED
      BY <3>3, <3>4 DEF Lost
  <2>4. QED
    BY <2>2, <2>3
<1>4. PICK L : L = m.leader
  OBVIOUS
<1>5. ASSUME e < m.epoch, Prepared(L)', m.hwm < h, h <= LEO(L)', log'[L][h] = r
      PROVE  FALSE
  <2>1. L \in Brokers
    BY <1>4 DEF Metadata
  <2>2. Prepared(L) /\ m.epoch = Meta.epoch /\ L = Meta.leader
    BY <1>4, <1>5, <2>1, CommandLine
  <2>3. Meta.hwm < h /\ h <= LEO(L) /\ log[L][h] = r
    BY <1>1, <1>2, <1>5 DEF LEO
  <2>4. QED
    BY <1>5, <2>2, <2>3 DEF Lost
<1>6. QED
  BY <1>1, <1>3, <1>4, <1>5 DEF Lost

\* A command keeps the grounds and everything in flight.
LEMMA CommandGrounds ==
    ASSUME TypeInv, TypeInv', MetadataMonotone, Grounds, NEW m \in Metadata, Commands(m),
           UNCHANGED <<log, prepared, applied, replayTarget, scan>>,
           used'["record"] = used["record"]
    PROVE  Grounds' /\ Carries
<1> DEFINE N == Len(metaLog)
<1>0. Calm /\ PreparedPast /\ CoreHolds /\ OneLine /\ LogOK
  BY DEF Grounds
<1>1. /\ DOMAIN metaLog' = 1..(N + 1) /\ metaLog'[N + 1] = m /\ Meta' = m
      /\ \A i \in DOMAIN metaLog : metaLog'[i] = metaLog[i] /\ Core(i)' = Core(i)
      /\ \A i : i = N + 1 => Core(i)' = m.isr \cup {m.leader}
      /\ m.isr \cup {m.leader} \subseteq Core(N) /\ Core(Len(metaLog))' = m.isr \cup {m.leader}
      /\ Len(committed') = m.hwm /\ m.hwm \in Nat /\ m.hwm >= Meta.hwm
      /\ \A k \in 1..Len(committed) : committed'[k] = committed[k]
      /\ Prolongs
  BY <1>0, CommandFacts
<1>2. /\ N \in Nat \ {0} /\ DOMAIN metaLog = 1..N /\ N \in DOMAIN metaLog
      /\ Meta.hwm \in Nat /\ Meta.leader \in Brokers /\ Len(committed) = Meta.hwm
      /\ Core(N) \subseteq Brokers
  BY <1>0, LogFacts DEF CoreHolds
<1>3. Calm'
  <2>1. \A i \in DOMAIN metaLog' : i > 1 => metaLog'[i].kind # "topic"
    <3>1. \A i \in DOMAIN metaLog' : i \in DOMAIN metaLog \/ i = N + 1
      BY <1>1, <1>2
    <3>2. QED
      BY <1>0, <1>1, <3>1 DEF Calm, Commands
  <2>2. ASSUME NEW i \in DOMAIN metaLog', NEW j \in DOMAIN metaLog', i <= j
        PROVE  Core(j)' \subseteq Core(i)'
    <3>1. CASE j \in DOMAIN metaLog
      <4>1. i \in DOMAIN metaLog
        BY <1>1, <1>2, <2>2, <3>1
      <4>2. QED
        BY <1>0, <1>1, <2>2, <3>1, <4>1 DEF Calm
    <3>2. CASE j = N + 1 /\ i \in DOMAIN metaLog
      <4>1. Core(N) \subseteq Core(i)
        BY <1>0, <1>2, <3>2 DEF Calm
      <4>2. QED
        BY <1>1, <3>2, <4>1
    <3>3. CASE j = N + 1 /\ i = N + 1
      BY <3>3
    <3>4. QED
      BY <1>1, <1>2, <2>2, <3>1, <3>2, <3>3
  <2>3. QED
    BY <1>0, <2>1, <2>2 DEF Calm
<1>4. PreparedPast'
  <2>1. \A n \in Brokers : \A i \in 1..applied[n] : metaLog'[i] = metaLog[i]
    BY <1>0, <1>1, <1>2, ViewFacts
  <2>2. QED
    BY <1>0, <2>1 DEF PreparedPast, FenceOf
<1>5. CoreHolds' /\ OneLine'
  BY <1>0, CommandCore, CommandLine
<1>6. LogOK'
  <2>1. \A n \in Brokers : LEO(n)' = LEO(n)
    BY DEF LEO
  <2>2. ASSUME NEW n \in Brokers, NEW k \in 1..LEO(n)
        PROVE  Lost(prepared[n].epoch, k, log[n][k])' /\ log[n][k] <= used["record"]
    <3>1. PICK e \in Nat, r \in Nat : e = prepared[n].epoch /\ r = log[n][k]
      BY StateFacts
    <3>2. k \in Nat \ {0}
      BY StateFacts
    <3>3. Lost(e, k, r) /\ r <= used["record"]
      BY <1>0, <3>1 DEF LogOK
    <3>4. Lost(e, k, r)'
      BY <1>0, <3>2, <3>3, CommandLost
    <3>5. QED
      BY <3>1, <3>3, <3>4
  <2>3. ASSUME NEW k \in 1..Len(committed') PROVE committed'[k] <= used["record"]
    <3>1. CASE UNCHANGED committed
      BY <1>0, <2>3, <3>1 DEF LogOK
    <3>2. CASE /\ \A n \in Core(N) : Prepared(n) /\ m.hwm <= LEO(n)
               /\ \A j \in 1..m.hwm : committed'[j] = log[Meta.leader][j]
      <4>1. Meta.leader \in Core(N)
        BY LogFacts DEF Core
      <4>2. k \in 1..LEO(Meta.leader) /\ committed'[k] = log[Meta.leader][k]
        BY <1>1, <1>2, <2>3, <3>2, <4>1, StateFacts
      <4>3. QED
        BY <1>2, <2>2, <4>2
    <3>3. QED
      BY <3>1, <3>2 DEF Commands
  <2>4. QED
    BY <2>1, <2>2, <2>3 DEF LogOK
<1>7. ASSUME NEW e \in Nat, NEW h \in Nat \ {0}, NEW r \in Nat, NEW b, Sound(b, e, h, r)
      PROVE  Sound(b, e, h, r)' /\ \A S : Copied(e, h, S) => Copied(e, h, S)'
  <2>1. Issued(b, e) /\ e <= Meta.epoch
    <3>1. Issued(b, e)
      BY <1>7 DEF Sound
    <3>2. QED
      BY <3>1, LogFacts DEF Issued
  <2>2. Issued(b, e)'
    BY <1>1, <1>2, <2>1 DEF Issued
  <2>3. e = m.epoch => /\ m.epoch = Meta.epoch /\ m.leader = Meta.leader
                       /\ FenceOf(m) = FenceOf(Meta)
    <3>1. m.epoch >= Meta.epoch /\ m.epoch \in Nat /\ Meta.epoch \in Nat
      BY LogFacts DEF Commands, Metadata
    <3>2. QED
      BY <1>0, <2>1, <3>1, CommandLine
  <2>4. \A n : LEO(n)' = LEO(n)
    BY DEF LEO
  <2>5. e = m.epoch => \A n : Prepared(n)' = Prepared(n)
    BY <1>1, <2>3 DEF Prepared
  <2>6. Leads(e, h, r)'
    BY <1>1, <1>7, <2>3, <2>4, <2>5 DEF Leads, Sound
  <2>7. Lost(e, h, r)'
    BY <1>0, <1>7, CommandLost DEF Sound
  <2>8. \A S : Copied(e, h, S) => Copied(e, h, S)'
    BY <1>1, <2>3, <2>4, <2>5 DEF Copied
  <2>9. QED
    BY <1>7, <2>2, <2>6, <2>7, <2>8 DEF Sound
<1>8. Carries
  BY <1>1, <1>7, CarriesParts
<1>9. QED
  BY <1>3, <1>4, <1>5, <1>6, <1>8 DEF Grounds

-----------------------------------------------------------------------------
(* What leaders show.                                                      *)

\* A watermark taken from the view, or from any command the view has not passed, is
\* one the replica may be trusted with if it may lead.
LEMMA ViewTrusted ==
    ASSUME TypeInv, MetadataMonotone, Calm, PreparedPast, NEW n \in Brokers, MayLead(n)
    PROVE  \E i \in DOMAIN metaLog : n \in Core(i) /\ View(n).hwm <= metaLog[i].hwm
<1>1. applied[n] \in DOMAIN metaLog /\ View(n) = metaLog[applied[n]]
  BY ViewFacts
<1>2. CASE n \in Core(Len(metaLog))
  BY <1>1, <1>2, LogFacts
<1>3. ASSUME NEW i \in DOMAIN metaLog, applied[n] <= i, metaLog[i].leader = n
      PROVE  n \in Core(i) /\ View(n).hwm <= metaLog[i].hwm
  BY <1>1, <1>3, LogFacts DEF Core
<1>4. QED
  BY <1>2, <1>3 DEF MayLead

\* A step that changes one watermark.
LEMMA ShownMove ==
    ASSUME TypeInv, ShownOK, NEW n \in Brokers, NEW h \in Nat, HWM' = [HWM EXCEPT ![n] = h],
           UNCHANGED <<metaLog, applied>>,
           MayLead(n) => \/ h <= HWM[n]
                         \/ \E i \in DOMAIN metaLog : n \in Core(i) /\ h <= metaLog[i].hwm
    PROVE  ShownOK'
<1>1. ASSUME NEW b \in Brokers, MayLead(b)' PROVE Trusted(b)'
  <2>1. MayLead(b)
    BY <1>1 DEF MayLead, Core
  <2>2. Trusted(b)
    BY <2>1 DEF ShownOK
  <2>3. HWM'[b] = IF b = n THEN h ELSE HWM[b]
    BY DEF TypeInv, TypeOK
  <2>4. PICK i \in DOMAIN metaLog : b \in Core(i) /\ HWM[b] <= metaLog[i].hwm
    BY <2>2 DEF Trusted
  <2>5. metaLog[i].hwm \in Nat /\ HWM[b] \in Nat
    <3>1. DOMAIN metaLog = 1..Len(metaLog)
      BY LenProperties DEF TypeInv, TypeOK
    <3>2. metaLog[i] \in Metadata
      BY <2>4, <3>1, MetaType
    <3>3. QED
      BY <3>2, StateFacts DEF Metadata
  <2>6. \E j \in DOMAIN metaLog : b \in Core(j) /\ HWM'[b] <= metaLog[j].hwm
    BY <2>1, <2>3, <2>4, <2>5
  <2>7. QED
    BY <2>6 DEF Trusted, Core
<1>2. QED
  BY <1>1 DEF ShownOK

\* Preparation shows no more than before or than the view.
LEMMA ShownPrepared ==
    ASSUME TypeInv, MetadataMonotone, Calm, PreparedPast, ShownOK, NEW n \in Brokers,
           HWM' = [HWM EXCEPT ![n] = PreparedHWM(n)], UNCHANGED <<metaLog, applied>>
    PROVE  ShownOK'
<1>1. PreparedHWM(n) \in Nat /\ HWM[n] \in Nat
  <2>1. applied[n] > 0
    BY DEF Calm
  <2>2. QED
    BY <2>1, PreparedType, StateFacts
<1>2. PICK h \in Nat : h = PreparedHWM(n)
  BY <1>1
<1>3. h = HWM[n] \/ h = View(n).hwm
  BY <1>2 DEF PreparedHWM
<1>4. MayLead(n) => \/ h <= HWM[n]
                    \/ \E i \in DOMAIN metaLog : n \in Core(i) /\ h <= metaLog[i].hwm
  BY <1>1, <1>3, ViewTrusted
<1>5. QED
  BY <1>2, <1>4, ShownMove

\* A step that changes no watermark and appends no command.
LEMMA ShownStill ==
    ASSUME TypeInv, ShownOK, UNCHANGED <<metaLog, HWM, applied>>
    PROVE  ShownOK'
BY DEF ShownOK, MayLead, Trusted, Core

\* A command makes nobody a leader who did not matter.
LEMMA ShownCommand ==
    ASSUME TypeInv, TypeInv', MetadataMonotone, CoreHolds, OneLine, ShownOK,
           NEW m \in Metadata, Commands(m), UNCHANGED <<HWM, applied>>
    PROVE  ShownOK'
<1>1. /\ DOMAIN metaLog' = 1..(Len(metaLog) + 1) /\ metaLog'[Len(metaLog) + 1] = m
      /\ \A i \in DOMAIN metaLog : metaLog'[i] = metaLog[i] /\ Core(i)' = Core(i)
      /\ m.isr \cup {m.leader} \subseteq Core(Len(metaLog))
      /\ Core(Len(metaLog))' = m.isr \cup {m.leader}
  BY CommandFacts
<1>2. DOMAIN metaLog = 1..Len(metaLog) /\ Len(metaLog) \in Nat
  BY LogFacts
<1>3. ASSUME NEW b \in Brokers, MayLead(b)' PROVE MayLead(b)
  <2>1. CASE b \in Core(Len(metaLog))'
    BY <1>1, <2>1 DEF MayLead
  <2>2. ASSUME NEW i \in DOMAIN metaLog', applied[b] <= i, metaLog'[i].leader = b
        PROVE  MayLead(b)
    <3>1. CASE i \in DOMAIN metaLog
      BY <1>1, <2>2, <3>1 DEF MayLead
    <3>2. CASE i = Len(metaLog) + 1
      BY <1>1, <2>2, <3>2 DEF MayLead
    <3>3. QED
      BY <1>1, <1>2, <3>1, <3>2
  <2>3. QED
    BY <1>3, <2>1, <2>2 DEF MayLead
<1>4. ASSUME NEW b \in Brokers, Trusted(b) PROVE Trusted(b)'
  BY <1>1, <1>2, <1>4 DEF Trusted
<1>5. QED
  BY <1>3, <1>4 DEF ShownOK

-----------------------------------------------------------------------------
(* Lanes.                                                                  *)

\* The members of a queue whose head is replaced.
LEMMA ReplaceMembers ==
    ASSUME NEW q \in Seq(Tasks), q # <<>>, NEW ts \in Seq(Tasks),
           NEW i \in DOMAIN (ts \o Tail(q))
    PROVE  \/ \E j \in DOMAIN ts : (ts \o Tail(q))[i] = ts[j]
           \/ \E j \in DOMAIN q : (ts \o Tail(q))[i] = q[j]
<1> DEFINE r == ts \o Tail(q)
<1>1. Tail(q) \in Seq(Tasks) /\ Len(Tail(q)) = Len(q) - 1 /\ Len(q) \in Nat
  BY HeadTailProperties, LenProperties
<1>2. \A k \in 1..Len(Tail(q)) : Tail(q)[k] = q[k + 1]
  BY HeadTailProperties, <1>1
<1>3. /\ r \in Seq(Tasks) /\ Len(r) = Len(ts) + Len(Tail(q)) /\ Len(ts) \in Nat
      /\ \A k \in 1..Len(r) : r[k] = IF k <= Len(ts) THEN ts[k] ELSE Tail(q)[k - Len(ts)]
  BY <1>1, ConcatProperties, LenProperties
<1>4. DOMAIN r = 1..Len(r) /\ DOMAIN ts = 1..Len(ts) /\ DOMAIN q = 1..Len(q)
  BY <1>3, LenProperties
<1>5. CASE i <= Len(ts)
  <2>1. r[i] = ts[i] /\ i \in DOMAIN ts
    BY <1>3, <1>4, <1>5
  <2>2. QED
    BY <2>1
<1>6. CASE ~(i <= Len(ts))
  <2>1. r[i] = Tail(q)[i - Len(ts)] /\ i - Len(ts) \in 1..Len(Tail(q))
    BY <1>1, <1>3, <1>4, <1>6
  <2>2. PICK k \in 1..Len(Tail(q)) : k = i - Len(ts)
    BY <2>1
  <2>3. r[i] = q[k + 1] /\ k + 1 \in 1..Len(q)
    <3>1. Tail(q)[k] = q[k + 1]
      BY <1>2
    <3>2. r[i] = Tail(q)[k]
      BY <2>1, <2>2
    <3>3. k + 1 \in 1..Len(q)
      BY <1>1
    <3>4. QED
      BY <3>1, <3>2, <3>3
  <2>4. QED
    BY <1>4, <2>3
<1>7. QED
  BY <1>5, <1>6

\* The lanes stay in order when the tasks that are new to them are.
LEMMA LaneFrom ==
    ASSUME TypeInv, TypeInv', LaneOK, Carries,
           \A b \in Brokers : \A i \in DOMAIN lane'[b] :
               \/ \E j \in DOMAIN lane[b] : lane'[b][i] = lane[b][j]
               \/ \E t : t = lane'[b][i] /\ TaskOK(b, t)'
    PROVE  LaneOK'
<1>1. ASSUME NEW b \in Brokers, NEW i \in DOMAIN lane'[b]
      PROVE  TaskOK(b, lane[b][i])'
  <2>1. CASE \E t : t = lane'[b][i] /\ TaskOK(b, t)'
    <3>1. PICK t : t = lane'[b][i] /\ TaskOK(b, t)'
      BY <2>1
    <3>2. QED
      BY <3>1 DEF TaskOK, PastCommit, TaskDone
  <2>2. ASSUME NEW j \in DOMAIN lane[b], lane'[b][i] = lane[b][j]
        PROVE  \E t : t = lane'[b][i] /\ TaskOK(b, t)'
    <3>1. PICK t : t = lane[b][j]
      OBVIOUS
    <3>2. lane[b] \in Seq(Tasks)
      BY LaneType
    <3>3. t \in Tasks
      BY <2>2, <3>1, <3>2, LenProperties, ElementOfSeq
    <3>4. TaskOK(b, t)
      BY <3>1 DEF LaneOK
    <3>5. QED
      BY <2>2, <3>1, <3>3, <3>4 DEF Carries
  <2>3. QED
    BY <2>1, <2>2
<1>2. QED
  BY <1>1 DEF LaneOK

\* The head of one lane is replaced by tasks in order.
LEMMA LaneReplaced ==
    ASSUME TypeInv, TypeInv', LaneOK, Carries, NEW n \in Brokers, lane[n] # <<>>,
           NEW ts \in Seq(Tasks), \A j \in DOMAIN ts : TaskOK(n, ts[j])',
           lane' = [lane EXCEPT ![n] = ts \o Tail(@)]
    PROVE  LaneOK'
<1>1. ASSUME NEW b \in Brokers, NEW i \in DOMAIN lane'[b]
      PROVE  \/ \E j \in DOMAIN lane[b] : lane'[b][i] = lane[b][j]
             \/ \E t : t = lane'[b][i] /\ TaskOK(b, t)'
  <2>1. CASE b # n
    <3>1. lane'[b] = lane[b]
      BY <2>1 DEF TypeInv, TypeOK
    <3>2. QED
      BY <3>1
  <2>2. CASE b = n
    <3>1. lane'[n] = ts \o Tail(lane[n]) /\ lane[n] \in Seq(Tasks)
      BY LaneType DEF TypeInv, TypeOK
    <3>2. \/ \E j \in DOMAIN ts : lane'[n][i] = ts[j]
          \/ \E j \in DOMAIN lane[n] : lane'[n][i] = lane[n][j]
      <4>1. PICK q \in Seq(Tasks) : q = lane[n]
        BY <3>1
      <4>2. q # <<>> /\ i \in DOMAIN (ts \o Tail(q)) /\ lane'[n] = ts \o Tail(q)
        BY <1>1, <2>2, <3>1, <4>1
      <4>3. \/ \E j \in DOMAIN ts : (ts \o Tail(q))[i] = ts[j]
            \/ \E j \in DOMAIN q : (ts \o Tail(q))[i] = q[j]
        BY <4>2, ReplaceMembers
      <4>4. QED
        BY <4>1, <4>2, <4>3, Zenon
    <3>3. ASSUME NEW j \in DOMAIN ts, lane'[n][i] = ts[j]
          PROVE  \E t : t = lane'[b][i] /\ TaskOK(b, t)'
      <4>1. PICK t : t = ts[j]
        OBVIOUS
      <4>2. TaskOK(n, t)'
        BY <4>1
      <4>3. QED
        BY <2>2, <3>3, <4>1, <4>2
    <3>4. QED
      BY <2>2, <3>2, <3>3
  <2>3. QED
    BY <2>1, <2>2
<1>2. QED
  BY <1>1, LaneFrom

\* The head of one lane is replaced by one task.
LEMMA LaneSet ==
    ASSUME TypeInv, TypeInv', LaneOK, Carries, NEW n \in Brokers, lane[n] # <<>>,
           NEW t \in Tasks, TaskOK(n, t)', lane' = [lane EXCEPT ![n] = <<t>> \o Tail(@)]
    PROVE  LaneOK'
<1>1. PICK ts \in Seq(Tasks) : ts = <<t>>
  BY SingleTask
<1>2. \A j \in DOMAIN ts : ts[j] = t
  BY <1>1
<1>3. \A j \in DOMAIN ts : TaskOK(n, ts[j])'
  BY <1>2
<1>4. lane' = [lane EXCEPT ![n] = ts \o Tail(@)]
  BY <1>1
<1>5. QED
  BY <1>3, <1>4, LaneReplaced

\* The head of one lane is dropped.
LEMMA LaneDrop ==
    ASSUME TypeInv, TypeInv', LaneOK, Carries, NEW n \in Brokers, lane[n] # <<>>,
           lane' = [lane EXCEPT ![n] = <<>> \o Tail(@)] \/ lane' = [lane EXCEPT ![n] = Tail(@)]
    PROVE  LaneOK'
<1>1. PICK ts \in Seq(Tasks) : ts = <<>>
  BY EmptySeq
<1>2. DOMAIN ts = {}
  BY <1>1
<1>3. <<>> \o Tail(lane[n]) = Tail(lane[n])
  BY LaneType, ConcatEmptySeq
<1>4. lane' = [lane EXCEPT ![n] = ts \o Tail(@)]
  BY <1>1, <1>3
<1>5. QED
  BY <1>2, <1>4, LaneReplaced

\* A task in order is added at the end of one lane.
LEMMA LaneAppend ==
    ASSUME TypeInv, TypeInv', LaneOK, Carries, NEW n \in Brokers,
           NEW t \in Tasks, TaskOK(n, t)', lane' = [lane EXCEPT ![n] = Append(@, t)]
    PROVE  LaneOK'
<1>1. ASSUME NEW b \in Brokers, NEW i \in DOMAIN lane'[b]
      PROVE  \/ \E j \in DOMAIN lane[b] : lane'[b][i] = lane[b][j]
             \/ \E u : u = lane'[b][i] /\ TaskOK(b, u)'
  <2>1. CASE b # n
    <3>1. lane'[b] = lane[b]
      BY <2>1 DEF TypeInv, TypeOK
    <3>2. QED
      BY <3>1
  <2>2. CASE b = n
    <3>1. lane'[n] = Append(lane[n], t) /\ lane[n] \in Seq(Tasks)
      BY LaneType DEF TypeInv, TypeOK
    <3>2. \/ i \in DOMAIN lane[n] /\ lane'[n][i] = lane[n][i]
          \/ lane'[n][i] = t
      BY <1>1, <2>2, <3>1, AppendProperties, LenProperties
    <3>3. QED
      BY <2>2, <3>2
  <2>3. QED
    BY <2>1, <2>2
<1>2. QED
  BY <1>1, LaneFrom

-----------------------------------------------------------------------------
(* Steps.                                                                  *)

\* What is in flight and is not touched stays in order.
LEMMA Kept ==
    ASSUME TypeInv, TypeInv', WorkOK, Carries
    PROVE  /\ LaneOK
           /\ \A m \in net : RequestOK(m)'
           /\ \A c \in cmds : CommitOK(c)'
           /\ \A b \in Brokers : \A i \in DOMAIN lane[b] :
                 lane[b][i] \in Tasks /\ TaskOK(b, lane[b][i])
           /\ UNCHANGED lane => LaneOK'
<1>1. \A b \in Brokers : \A i \in DOMAIN lane[b] : lane[b][i] \in Tasks
  BY LaneType, LenProperties, ElementOfSeq
<1>2. LaneOK /\ (\A m \in net : RequestOK(m)) /\ (\A c \in cmds : CommitOK(c))
  BY DEF WorkOK
<1>3. net \subseteq Requests /\ cmds \subseteq Commits
  BY DEF TypeInv, TypeOK
<1>4. (\A m \in net : RequestOK(m)') /\ (\A c \in cmds : CommitOK(c)')
  BY <1>2, <1>3 DEF Carries
<1>5. ASSUME UNCHANGED lane PROVE LaneOK'
  <2>1. \A b \in Brokers : \A i \in DOMAIN lane'[b] : \E j \in DOMAIN lane[b] : lane'[b][i] = lane[b][j]
    BY <1>5
  <2>2. QED
    BY <1>2, <2>1, LaneFrom
<1>6. QED
  BY <1>1, <1>2, <1>4, <1>5 DEF LaneOK

\* The task at the head of a lane.
LEMMA HeadOK ==
    ASSUME TypeInv, LaneOK, NEW n \in Brokers, lane[n] # <<>>
    PROVE  Head(lane[n]) \in Tasks /\ TaskOK(n, Head(lane[n]))
<1>1. lane[n] \in Seq(Tasks) /\ Head(lane[n]) \in Tasks
  BY LaneType
<1>2. 1 \in DOMAIN lane[n] /\ Head(lane[n]) = lane[n][1]
  BY <1>1, EmptySeq, LenProperties
<1>3. QED
  BY <1>1, <1>2 DEF LaneOK

\* A task that starts again, and one whose client has left.
LEMMA RestartOK ==
    ASSUME NEW b, NEW t \in Tasks, TaskOK(b, t)
    PROVE  TaskOK(b, Failed(t)) /\ TaskOK(b, [t EXCEPT !.waiting = FALSE])
<1>1. PICK u : u = Failed(t)
  OBVIOUS
<1>2. /\ u.barrier = t.barrier /\ u.pc = "start" /\ u.epoch = t.epoch /\ u.hwm = t.hwm
      /\ u.rec = t.rec /\ u.isr = t.isr
  BY <1>1 DEF Failed, Tasks
<1>3. TaskOK(b, u)
  BY <1>2 DEF TaskOK, PastCommit
<1>4. PICK w : w = [t EXCEPT !.waiting = FALSE]
  OBVIOUS
<1>5. /\ w.barrier = t.barrier /\ w.pc = t.pc /\ w.epoch = t.epoch /\ w.hwm = t.hwm
      /\ w.rec = t.rec /\ w.isr = t.isr /\ w.todo = t.todo
  BY <1>4 DEF Tasks
<1>6. TaskOK(b, w)
  BY <1>5 DEF TaskOK, PastCommit, TaskDone
<1>7. QED
  BY <1>1, <1>3, <1>4, <1>6

\* Publishing a new record.
LEMMA PublishLineage ==
    ASSUME TypeInv, TypeInv', SafeInv, LineageInv, Undisturbed,
           NEW n \in Brokers, NEW acks \in AckModes, Publish(n, acks)
    PROVE  LineageInv'
<1>1. PICK r : r = used["record"] + 1
  OBVIOUS
<1>2. PICK l : l = Append(PreparedLog(n), r)
  OBVIOUS
<1>3. MetadataMonotone /\ Grounds /\ WorkOK /\ ShownOK
  BY DEF SafeInv, LineageInv
<1>4. Calm /\ PreparedPast /\ CoreHolds /\ OneLine
  BY <1>3 DEF Grounds
<1>5. View(n).leader = n
  BY DEF Publish, CanLead
<1>6. used'["record"] = r /\ used["record"] \in Nat
  BY <1>1, StateFacts DEF Publish, Count, TypeInv, TypeOK, Events
<1>7. Moves(n, l) /\ Gains(n, l) /\ Entitled(n) /\ UNCHANGED <<replayTarget, scan, net, cmds>>
  BY <1>1, <1>2, <1>5, <1>6 DEF Publish, Moves, Gains, Entitled
<1>8. Grounds' /\ Carries
  BY <1>3, <1>7, MoveGrounds
<1>9. ShownOK'
  BY <1>3, <1>4, ShownPrepared DEF Publish
<1>10. PICK t : t = NewTask(n, acks, r, Len(l), FALSE)
  OBVIOUS
<1>11. /\ applied[n] \in DOMAIN metaLog /\ View(n) = metaLog[applied[n]]
       /\ View(n).epoch \in Nat \ {0} /\ View(n).isr \in SUBSET Brokers
  BY <1>3, <1>4, ViewFacts, LogFacts
<1>12. PICK e \in Nat : e = View(n).epoch
  BY <1>11
<1>13. /\ PreparedLog(n) \in Seq(Records) /\ Len(PreparedLog(n)) \in Nat
       /\ l[Len(l)] = r /\ Len(l) = Len(PreparedLog(n)) + 1
  BY <1>2, <1>3, <1>4, PreparedFacts
<1>14. PICK h \in Nat \ {0} : h = Len(l)
  BY <1>13
<1>15. /\ t.rec = r /\ t.hwm = h /\ t.epoch = e /\ t.isr = View(n).isr /\ t.barrier = FALSE
       /\ t.pc = "start"
  BY <1>10, <1>12, <1>14 DEF NewTask
<1>16. /\ log'[n] = l /\ LEO(n)' = h /\ prepared'[n].epoch = e /\ Meta' = Meta
       /\ Prepared(n)' <=> View(n).epoch = Meta.epoch
  BY <1>3, <1>4, <1>7, <1>12, <1>14, MoveFacts
<1>17. Sound(n, e, h, r)'
  <2>1. Issued(n, e)'
    BY <1>5, <1>7, <1>11, <1>12 DEF Issued, Moves
  <2>2. Leads(e, h, r)'
    <3>1. ASSUME e = Meta.epoch PROVE Prepared(n)' /\ n = Meta.leader
      <4>1. View(n).leader = Meta.leader
        BY <1>3, <1>11, <1>12, <3>1, LogFacts
      <4>2. QED
        BY <1>5, <1>12, <1>16, <3>1, <4>1
    <3>2. log'[n][h] = r /\ h <= LEO(n)'
      BY <1>13, <1>14, <1>16
    <3>3. QED
      BY <1>16, <3>1, <3>2 DEF Leads
  <2>3. Lost(e, h, r)'
    <3>1. h \in 1..h
      OBVIOUS
    <3>2. Lost(prepared[n].epoch, h, log[n][h])'
      BY <1>8, <1>16, <3>1 DEF Grounds, LogOK
    <3>3. log'[n][h] = r
      BY <1>13, <1>14, <1>16
    <3>4. QED
      BY <1>16, <3>2, <3>3
  <2>4. r <= used'["record"]
    BY <1>1, <1>6
  <2>5. QED
    BY <2>1, <2>2, <2>3, <2>4 DEF Sound
<1>18. TaskOK(n, t)'
  <2>1. Meta.isr \subseteq View(n).isr
    <3>1. /\ Len(metaLog) \in DOMAIN metaLog /\ applied[n] <= Len(metaLog)
          /\ Meta = metaLog[Len(metaLog)]
      BY <1>3, <1>11, LogFacts
    <3>2. QED
      BY <1>11, <3>1 DEF Undisturbed, Shrinking
  <2>2. UNCHANGED metaLog
    BY <1>7 DEF Moves
  <2>3. QED
    BY <1>11, <1>12, <1>15, <1>16, <1>17, <2>1, <2>2 DEF TaskOK, PastCommit
<1>19. t \in Tasks
  <2>1. r \in Records
    <3>1. l \in Seq(Records) /\ Len(l) \in 1..Len(l)
      BY <1>13, <1>14, <1>16 DEF TypeInv, TypeOK
    <3>2. QED
      BY <1>13, <3>1, ElementOfSeq
  <2>2. QED
    BY <1>10, <1>11, <1>14, <2>1, BoundsAssumption DEF NewTask, Tasks
<1>20. lane' = [lane EXCEPT ![n] = Append(@, t)]
  BY <1>1, <1>2, <1>10 DEF Publish
<1>21. LaneOK'
  BY <1>3, <1>8, <1>18, <1>19, <1>20, Kept, LaneAppend
<1>22. WorkOK'
  BY <1>3, <1>7, <1>8, <1>21, Kept DEF WorkOK
<1>23. QED
  BY <1>8, <1>9, <1>22 DEF LineageInv

\* A retry adds a barrier, which carries nothing.
LEMMA DuplicateLineage ==
    ASSUME TypeInv, TypeInv', SafeInv, LineageInv,
           NEW n \in Brokers, NEW k \in 1..LEO(n), PublishDuplicate(n, k)
    PROVE  LineageInv'
<1>1. PICK l : l = PreparedLog(n)
  OBVIOUS
<1>2. MetadataMonotone /\ Grounds /\ WorkOK /\ ShownOK
  BY DEF SafeInv, LineageInv
<1>3. Calm /\ PreparedPast /\ CoreHolds /\ OneLine
  BY <1>2 DEF Grounds
<1>4. used'["record"] = used["record"]
  BY DEF PublishDuplicate, Count, TypeInv, TypeOK, Events
<1>5. Moves(n, l) /\ Gains(n, l) /\ Entitled(n) /\ UNCHANGED <<replayTarget, scan, net, cmds>>
  BY <1>1, <1>4 DEF PublishDuplicate, CanLead, Moves, Gains, Entitled
<1>6. Grounds' /\ Carries
  BY <1>2, <1>5, MoveGrounds
<1>7. ShownOK'
  BY <1>2, <1>3, ShownPrepared DEF PublishDuplicate
<1>8. PICK t : t = NewTask(n, "all", PreparedLog(n)[k], k, TRUE)
  OBVIOUS
<1>9. TaskOK(n, t)'
  BY <1>8 DEF NewTask, TaskOK
<1>10. t \in Tasks
  <2>1. View(n).epoch \in Nat \ {0} /\ View(n).isr \in SUBSET Brokers
    BY <1>2, <1>3, ViewFacts, LogFacts
  <2>2. PreparedLog(n) \in Seq(Records) /\ k \in DOMAIN PreparedLog(n)
    BY <1>2, <1>3, PreparedFacts DEF PublishDuplicate
  <2>3. PreparedLog(n)[k] \in Records /\ k \in Nat \ {0}
    BY <2>2, ElementOfSeq, LenProperties
  <2>4. QED
    BY <1>8, <2>1, <2>3 DEF NewTask, Tasks
<1>11. lane' = [lane EXCEPT ![n] = Append(@, t)]
  BY <1>8 DEF PublishDuplicate
<1>12. LaneOK'
  BY <1>2, <1>6, <1>9, <1>10, <1>11, Kept, LaneAppend
<1>13. WorkOK'
  BY <1>2, <1>5, <1>6, <1>12, Kept DEF WorkOK
<1>14. QED
  BY <1>6, <1>7, <1>13 DEF LineageInv

\* A publish that fails leaves a prepared log.
LEMMA FailsLineage ==
    ASSUME TypeInv, TypeInv', SafeInv, LineageInv,
           NEW n \in Brokers, NEW acks \in AckModes, PublishFails(n, acks)
    PROVE  LineageInv'
<1>1. PICK l : l = PreparedLog(n)
  OBVIOUS
<1>2. MetadataMonotone /\ Grounds /\ WorkOK /\ ShownOK
  BY DEF SafeInv, LineageInv
<1>3. Calm /\ PreparedPast /\ CoreHolds /\ OneLine
  BY <1>2 DEF Grounds
<1>4. Moves(n, l) /\ Gains(n, l) /\ Entitled(n) /\ UNCHANGED <<replayTarget, scan, net, cmds, lane>>
  BY <1>1 DEF PublishFails, CanLead, Moves, Gains, Entitled
<1>5. Grounds' /\ Carries
  BY <1>2, <1>4, MoveGrounds
<1>6. ShownOK'
  BY <1>2, <1>3, ShownPrepared DEF PublishFails
<1>7. WorkOK'
  BY <1>2, <1>4, <1>5, Kept DEF WorkOK
<1>8. QED
  BY <1>5, <1>6, <1>7 DEF LineageInv

\* A client that gives up.
LEMMA CancelLineage ==
    ASSUME TypeInv, TypeInv', SafeInv, LineageInv, NEW n \in Brokers, ClientCancel(n)
    PROVE  LineageInv'
<1>1. MetadataMonotone /\ Grounds /\ WorkOK /\ ShownOK
  BY DEF SafeInv, LineageInv
<1>2. \A b \in Brokers : applied[b] <= applied[b]
  BY StateFacts
<1>3. UNCHANGED <<metaLog, log, prepared, committed, replayTarget, scan, applied, used, HWM, net, cmds>>
  BY DEF ClientCancel
<1>4. Grounds' /\ Carries
  BY <1>1, <1>2, <1>3, StillGrounds
<1>5. ShownOK'
  BY <1>1, <1>3, ShownStill
<1>6. lane' = [lane EXCEPT ![n] = [i \in DOMAIN lane[n] |-> [lane[n][i] EXCEPT !.waiting = FALSE]]]
  BY DEF ClientCancel
<1>7. ASSUME NEW b \in Brokers, NEW i \in DOMAIN lane'[b]
      PROVE  \/ \E j \in DOMAIN lane[b] : lane'[b][i] = lane[b][j]
             \/ \E t : t = lane'[b][i] /\ TaskOK(b, t)'
  <2>1. CASE b # n
    <3>1. lane'[b] = lane[b]
      BY <1>6, <2>1 DEF TypeInv, TypeOK
    <3>2. QED
      BY <3>1
  <2>2. CASE b = n
    <3>1. lane'[n] = [j \in DOMAIN lane[n] |-> [lane[n][j] EXCEPT !.waiting = FALSE]]
      BY <1>6 DEF TypeInv, TypeOK
    <3>2. i \in DOMAIN lane[n] /\ lane'[n][i] = [lane[n][i] EXCEPT !.waiting = FALSE]
      BY <1>7, <2>2, <3>1
    <3>3. PICK u \in Tasks : u = lane[n][i] /\ TaskOK(n, u)
      BY <1>1, <1>4, <3>2, Kept
    <3>4. PICK t : t = [u EXCEPT !.waiting = FALSE]
      OBVIOUS
    <3>5. t \in Tasks /\ TaskOK(n, t)
      BY <3>3, <3>4, RestartOK DEF Tasks
    <3>6. QED
      BY <1>4, <2>2, <3>2, <3>3, <3>4, <3>5 DEF Carries
  <2>3. QED
    BY <2>1, <2>2
<1>8. LaneOK'
  BY <1>1, <1>4, <1>7, Kept, LaneFrom
<1>9. WorkOK'
  BY <1>1, <1>3, <1>4, <1>8, Kept DEF WorkOK
<1>10. QED
  BY <1>4, <1>5, <1>9 DEF LineageInv

\* A step of a worker moves no log: what it leaves at the head, sends and proposes
\* has to be in order.
LEMMA WorkerLineage ==
    ASSUME TypeInv, TypeInv', SafeInv, LineageInv,
           UNCHANGED <<metaLog, applied, log, prepared, scan, replayTarget, used, committed>>,
           ShownOK', Carries => LaneOK',
           \A m \in net' : m \in net \/ (m \in Requests /\ RequestOK(m)),
           \A c \in cmds' : c \in cmds \/ (c \in Commits /\ CommitOK(c))
    PROVE  LineageInv'
<1>1. MetadataMonotone /\ Grounds /\ WorkOK /\ ShownOK
  BY DEF SafeInv, LineageInv
<1>2. \A b \in Brokers : applied[b] <= applied[b]
  BY StateFacts
<1>3. Grounds' /\ Carries
  BY <1>1, <1>2, StillGrounds
<1>4. (\A m \in net' : RequestOK(m)') /\ (\A c \in cmds' : CommitOK(c)')
  BY <1>1, <1>3, Kept DEF Carries
<1>5. QED
  BY <1>3, <1>4 DEF WorkOK, LineageInv

\* The head of the lane changes to a task in order.
LEMMA HeadLineage ==
    ASSUME TypeInv, TypeInv', SafeInv, LineageInv, NEW n \in Brokers, lane[n] # <<>>,
           NEW u \in Tasks, TaskOK(n, u), lane' = [lane EXCEPT ![n] = <<u>> \o Tail(@)],
           UNCHANGED <<metaLog, applied, log, prepared, scan, replayTarget, used, committed>>,
           ShownOK',
           \A m \in net' : m \in net \/ (m \in Requests /\ RequestOK(m)),
           \A c \in cmds' : c \in cmds \/ (c \in Commits /\ CommitOK(c))
    PROVE  LineageInv'
<1>1. ASSUME Carries PROVE LaneOK'
  <2>1. TaskOK(n, u)' /\ LaneOK
    BY <1>1 DEF Carries, LineageInv, WorkOK
  <2>2. QED
    BY <1>1, <2>1, LaneSet
<1>2. QED
  BY <1>1, WorkerLineage

\* The steps of a lane worker.
LEMMA LaneLineage ==
    ASSUME TypeInv, TypeInv', SafeInv, LineageInv, Undisturbed, NEW n \in Brokers, LaneStep(n)
    PROVE  LineageInv'
<1>1. MetadataMonotone /\ Grounds /\ WorkOK /\ ShownOK /\ LaneOK
  BY DEF SafeInv, LineageInv, WorkOK
<1>2. Calm /\ PreparedPast /\ CoreHolds /\ OneLine
  BY <1>1 DEF Grounds
<1>3. lane[n] # <<>>
  BY DEF LaneStep, LaneFenced, LaneLeaderOutOfISR, LaneStart, LaneBarrier, LaneSend, LaneTimeout,
         LanePropose, LaneCommitted, LaneFinish, AtSnapshot, AtHead
<1>4. PICK t \in Tasks : t = Head(lane[n]) /\ TaskOK(n, t)
  BY <1>1, <1>3, HeadOK
<1>5. UNCHANGED <<metaLog, applied, log, prepared, scan, replayTarget, used, committed>>
  BY DEF LaneStep, LaneFenced, LaneLeaderOutOfISR, LaneStart, LaneBarrier, LaneSend, LaneTimeout,
         LanePropose, LaneCommitted, LaneFinish, LaneUnchanged
<1>6. UNCHANGED HWM => ShownOK'
  BY <1>1, <1>5, ShownStill
<1>7. t.pc # "start" => /\ ~t.barrier /\ Sound(n, t.epoch, t.hwm, t.rec)
                        /\ Meta.isr \subseteq t.isr /\ Copied(t.epoch, t.hwm, t.todo)
                        /\ PastCommit(t) => TaskDone(n, t)
                        /\ \E i \in DOMAIN metaLog : metaLog[i].epoch = t.epoch /\ t.isr = metaLog[i].isr
  BY <1>4 DEF TaskOK
<1>8. t.epoch \in Nat \ {0} /\ t.hwm \in Nat \ {0} /\ t.rec \in Records /\ t.isr \subseteq Brokers
      /\ t.todo \subseteq Brokers
  BY DEF Tasks
<1>9. CASE LaneFenced(n) \/ LaneBarrier(n)
  <2>1. lane' = [lane EXCEPT ![n] = Tail(@)] /\ UNCHANGED <<HWM, net, cmds>>
    BY <1>9 DEF LaneFenced, LaneBarrier, DropHead, LaneUnchanged
  <2>2. Carries => LaneOK'
    BY <1>1, <1>3, <2>1, LaneDrop
  <2>3. QED
    BY <1>5, <1>6, <2>1, <2>2, WorkerLineage
<1>10. CASE LaneLeaderOutOfISR(n) \/ LaneTimeout(n)
  <2>1. PICK u : u = Failed(t)
    OBVIOUS
  <2>2. lane' = [lane EXCEPT ![n] = <<u>> \o Tail(@)] /\ UNCHANGED <<HWM, net, cmds>>
    BY <1>4, <1>10, <2>1 DEF LaneLeaderOutOfISR, LaneTimeout, SetHead, LaneUnchanged
  <2>3. u \in Tasks /\ TaskOK(n, u)
    BY <1>4, <2>1, FailedType, RestartOK
  <2>4. QED
    BY <1>3, <1>5, <1>6, <2>2, <2>3, HeadLineage
<1>11. CASE LaneStart(n)
  <2> DEFINE isr == IF t.acks = "all" THEN t.isr ELSE View(n).isr
  <2>1. PICK u : u = [t EXCEPT !.pc = "send", !.isr = isr, !.todo = isr \ {n}]
    OBVIOUS
  <2>2. lane' = [lane EXCEPT ![n] = <<u>> \o Tail(@)] /\ UNCHANGED <<HWM, net, cmds>>
    BY <1>4, <1>11, <2>1 DEF LaneStart, SetHead, LaneUnchanged
  <2>3. /\ ~t.barrier /\ t.pc = "start"
        /\ View(n).leader = n /\ n \in View(n).isr /\ View(n).epoch = t.epoch
    BY <1>4, <1>11 DEF LaneStart, InFence, AtHead
  <2>4. /\ Sound(n, t.epoch, t.hwm, t.rec) /\ Meta.isr \subseteq t.isr
        /\ \E i \in DOMAIN metaLog : metaLog[i].epoch = t.epoch /\ t.isr = metaLog[i].isr
    BY <1>4, <2>3 DEF TaskOK
  <2>5. applied[n] \in DOMAIN metaLog /\ View(n) = metaLog[applied[n]] /\ View(n).isr \subseteq Brokers
    BY <1>1, <1>2, ViewFacts, LogFacts
  <2>6. Meta.isr \subseteq View(n).isr
    <3>1. /\ Len(metaLog) \in DOMAIN metaLog /\ applied[n] <= Len(metaLog)
          /\ Meta = metaLog[Len(metaLog)]
      BY <1>1, <2>5, LogFacts
    <3>2. QED
      BY <2>5, <3>1 DEF Undisturbed, Shrinking
  <2>7. /\ Meta.isr \subseteq isr /\ isr \in SUBSET Brokers
        /\ \E i \in DOMAIN metaLog : metaLog[i].epoch = t.epoch /\ isr = metaLog[i].isr
    BY <1>8, <2>3, <2>4, <2>5, <2>6
  <2> HIDE DEF isr
  <2>8. Copied(t.epoch, t.hwm, isr \ {n})
    <3>1. ASSUME t.epoch = Meta.epoch PROVE n = Meta.leader /\ Prepared(n) /\ t.hwm <= LEO(n)
      <4>1. View(n).leader = Meta.leader
        BY <1>1, <2>3, <2>5, <3>1, LogFacts
      <4>2. QED
        BY <2>3, <2>4, <3>1, <4>1 DEF Sound, Leads
    <3>2. Core(Len(metaLog)) = Meta.isr \cup {Meta.leader}
      BY DEF Core, Meta
    <3>3. QED
      BY <2>7, <3>1, <3>2 DEF Copied
  <2>9. /\ u.barrier = t.barrier /\ u.pc = "send" /\ u.epoch = t.epoch /\ u.hwm = t.hwm
        /\ u.rec = t.rec /\ u.isr = isr /\ u.todo = isr \ {n}
    BY <2>1 DEF Tasks
  <2>10. TaskOK(n, u)
    BY <2>3, <2>4, <2>7, <2>8, <2>9 DEF TaskOK, PastCommit
  <2>11. u \in Tasks
    BY <2>1, <2>7 DEF Tasks
  <2>12. QED
    BY <1>3, <1>5, <1>6, <2>2, <2>10, <2>11, HeadLineage
<1>12. CASE LaneSend(n)
  <2>1. PICK u, m : u = [t EXCEPT !.pc = "wait"] /\ m = RequestOf(n, t, Minimum(t.todo), FALSE)
    OBVIOUS
  <2>2. /\ lane' = [lane EXCEPT ![n] = <<u>> \o Tail(@)] /\ UNCHANGED <<HWM, cmds>>
        /\ net' = net \cup {m}
    BY <1>4, <1>12, <2>1 DEF LaneSend, SetHead, LaneUnchanged
  <2>3. t.pc = "send" /\ t.todo # {}
    BY <1>4, <1>12 DEF LaneSend, AtHead
  <2>4. m \in Requests
    BY <1>8, <2>1, <2>3, MinimumInSet, RequestType
  <2>5. RequestOK(m)
    BY <1>7, <2>1, <2>3 DEF RequestOK, RequestOf
  <2>6. /\ u.barrier = t.barrier /\ u.pc = "wait" /\ u.epoch = t.epoch /\ u.hwm = t.hwm
        /\ u.rec = t.rec /\ u.isr = t.isr /\ u.todo = t.todo
    BY <2>1 DEF Tasks
  <2>7. TaskOK(n, u)
    BY <1>7, <2>3, <2>6 DEF TaskOK, PastCommit
  <2>8. u \in Tasks
    BY <2>1 DEF Tasks
  <2>9. QED
    BY <1>3, <1>5, <1>6, <2>2, <2>4, <2>5, <2>7, <2>8, HeadLineage
<1>13. CASE LanePropose(n)
  <2>1. PICK u, c : u = [t EXCEPT !.pc = "committing"] /\ c = CommitOf(n, t)
    OBVIOUS
  <2>2. /\ lane' = [lane EXCEPT ![n] = <<u>> \o Tail(@)] /\ UNCHANGED <<HWM, net>>
        /\ cmds' = cmds \cup {c}
    BY <1>4, <1>13, <2>1 DEF LanePropose, SetHead, LaneUnchanged
  <2>3. t.pc = "send" /\ t.todo = {}
    BY <1>4, <1>13 DEF LanePropose, AtHead
  <2>4. c \in Commits
    BY <1>8, <2>1 DEF Commits, CommitOf
  <2>5. CommitOK(c)
    BY <1>7, <2>1, <2>3 DEF CommitOK, CommitOf
  <2>6. /\ u.barrier = t.barrier /\ u.pc = "committing" /\ u.epoch = t.epoch /\ u.hwm = t.hwm
        /\ u.rec = t.rec /\ u.isr = t.isr /\ u.todo = t.todo
    BY <2>1 DEF Tasks
  <2>7. TaskOK(n, u)
    BY <1>7, <2>3, <2>6 DEF TaskOK, PastCommit
  <2>8. u \in Tasks
    BY <2>1 DEF Tasks
  <2>9. QED
    BY <1>3, <1>5, <1>6, <2>2, <2>4, <2>5, <2>7, <2>8, HeadLineage
<1>14. CASE LaneCommitted(n)
  <2>1. t.pc = "committed" /\ UNCHANGED <<net, cmds>>
    BY <1>4, <1>14 DEF LaneCommitted, AtHead
  <2>2. CASE CanRaise(n, t.hwm)
    <3>1. PICK u : u = [t EXCEPT !.pc = "finish"]
      OBVIOUS
    <3>2. lane' = [lane EXCEPT ![n] = <<u>> \o Tail(@)] /\ HWM' = [HWM EXCEPT ![n] = Larger(@, t.hwm)]
      BY <1>4, <1>14, <2>2, <3>1 DEF LaneCommitted, SetHead
    <3>3. /\ u.barrier = t.barrier /\ u.pc = "finish" /\ u.epoch = t.epoch /\ u.hwm = t.hwm
          /\ u.rec = t.rec /\ u.isr = t.isr /\ u.todo = t.todo /\ u \in Tasks
      BY <3>1 DEF Tasks
    <3>4. TaskDone(n, t) /\ TaskDone(n, u)
      BY <1>7, <2>1, <3>3 DEF PastCommit, TaskDone
    <3>5. TaskOK(n, u)
      BY <1>7, <2>1, <3>3, <3>4 DEF TaskOK
    <3>6. PICK h \in Nat : h = Larger(HWM[n], t.hwm)
      BY <1>8, StateFacts DEF Larger
    <3>7. h = HWM[n] \/ h = t.hwm
      BY <3>6 DEF Larger
    <3>8. \E i \in DOMAIN metaLog : n \in Core(i) /\ t.hwm <= metaLog[i].hwm
      BY <3>4 DEF TaskDone, Core
    <3>9. h <= HWM[n] \/ \E i \in DOMAIN metaLog : n \in Core(i) /\ h <= metaLog[i].hwm
      BY <3>7, <3>8, StateFacts
    <3>10. HWM' = [HWM EXCEPT ![n] = h]
      BY <3>2, <3>6
    <3>11. ShownOK'
      BY <1>1, <1>5, <3>9, <3>10, ShownMove
    <3>12. QED
      BY <1>3, <1>5, <2>1, <3>2, <3>3, <3>5, <3>11, HeadLineage
  <2>3. CASE ~CanRaise(n, t.hwm)
    <3>1. PICK u : u = Failed(t)
      OBVIOUS
    <3>2. lane' = [lane EXCEPT ![n] = <<u>> \o Tail(@)] /\ UNCHANGED HWM
      BY <1>4, <1>14, <2>3, <3>1 DEF LaneCommitted, SetHead
    <3>3. u \in Tasks /\ TaskOK(n, u)
      BY <1>4, <3>1, FailedType, RestartOK
    <3>4. QED
      BY <1>3, <1>5, <1>6, <2>1, <3>2, <3>3, HeadLineage
  <2>4. QED
    BY <2>2, <2>3
<1>15. CASE LaneFinish(n)
  <2>1. /\ lane' = [lane EXCEPT ![n] = Tail(@)] /\ UNCHANGED <<HWM, cmds>> /\ t.pc = "finish"
        /\ net' = net \cup {RequestOf(n, t, b, TRUE) : b \in Brokers \ (t.isr \cup {n})}
    BY <1>4, <1>15 DEF LaneFinish, DropHead, LaneUnchanged, AtHead
  <2>2. Carries => LaneOK'
    BY <1>1, <1>3, <2>1, LaneDrop
  <2>3. ASSUME NEW b \in Brokers \ (t.isr \cup {n}), NEW m, m = RequestOf(n, t, b, TRUE)
        PROVE  m \in Requests /\ RequestOK(m)
    <3>1. m \in Requests
      BY <2>3, RequestType
    <3>2. Sound(n, t.epoch, t.hwm, t.rec)
      BY <1>7, <2>1
    <3>3. PICK i \in DOMAIN metaLog : metaLog[i].epoch = t.epoch /\ t.isr = metaLog[i].isr
      BY <1>7, <2>1
    <3>4. PICK j \in DOMAIN metaLog : metaLog[j].leader = n /\ metaLog[j].epoch = t.epoch
      BY <3>2 DEF Sound, Issued
    <3>5. metaLog[i].leader = n
      <4>1. i <= j \/ j <= i
        BY <1>1, LogFacts
      <4>2. QED
        BY <1>1, <3>3, <3>4, <4>1, LogFacts
    <3>6. b \notin Core(i)
      BY <3>3, <3>5 DEF Core
    <3>7. m.leader = n /\ m.epoch = t.epoch /\ m.hwm = t.hwm /\ m.rec = t.rec /\ m.to = b
      BY <2>3 DEF RequestOf
    <3>8. QED
      BY <3>1, <3>2, <3>3, <3>6, <3>7 DEF RequestOK
  <2>4. \A m \in net' : m \in net \/ (m \in Requests /\ RequestOK(m))
    BY <2>1, <2>3
  <2>5. QED
    BY <1>5, <1>6, <2>1, <2>2, <2>4, WorkerLineage
<1>16. QED
  BY <1>9, <1>10, <1>11, <1>12, <1>13, <1>14, <1>15 DEF LaneStep

-----------------------------------------------------------------------------
(* Followers.                                                              *)

\* What a request says of the replica it is for.
LEMMA RequestFacts ==
    ASSUME TypeInv, SafeInv, LineageInv, NEW m \in net
    PROVE  /\ m \in Requests /\ RequestOK(m)
           /\ m.to \in Brokers /\ m.leader \in Brokers /\ m.epoch \in Nat /\ m.rec \in Records
           /\ m.rec \in Nat /\ m.hwm \in Nat \ {0}
           /\ CurrentFence(m.to, m) =>
                 /\ Sound(View(m.to).leader, View(m.to).epoch, m.hwm, m.rec)
                 /\ Entitled(m.to)
<1>1. m \in Requests /\ RequestOK(m)
  BY DEF TypeInv, TypeOK, LineageInv, WorkOK
<1>2. /\ m.to \in Brokers /\ m.leader \in Brokers /\ m.epoch \in Nat /\ m.rec \in Records
      /\ m.rec \in Nat /\ m.hwm \in Nat \ {0}
  BY <1>1, BoundsAssumption DEF Requests, Records
<1>3. CurrentFence(m.to, m) => Sound(View(m.to).leader, View(m.to).epoch, m.hwm, m.rec)
  BY <1>1 DEF RequestOK, CurrentFence
<1>4. CurrentFence(m.to, m) => Entitled(m.to)
  BY <1>2, <1>3 DEF Entitled
<1>5. QED
  BY <1>1, <1>2, <1>3, <1>4

\* A follower's step, once the logs, the watermarks and the lanes are in order.
LEMMA FollowerLineage ==
    ASSUME TypeInv, TypeInv', LineageInv, NEW m \in net, Grounds', Carries, ShownOK', LaneOK',
           net' = net \ {m}, UNCHANGED cmds
    PROVE  LineageInv'
<1>1. WorkOK
  BY DEF LineageInv
<1>2. (\A q \in net' : RequestOK(q)') /\ (\A c \in cmds' : CommitOK(c)')
  BY <1>1, Kept
<1>3. QED
  BY <1>2 DEF LineageInv, WorkOK

\* A follower prepares a log for the fence of a request and appends or refuses.
LEMMA FollowerMoves ==
    ASSUME TypeInv, TypeInv', SafeInv, LineageInv, NEW m \in net, NEW n \in Brokers, n = m.to,
           NEW l, ReplicaAppend(m) \/ ReplicaReject(m),
           l = IF ReplicaAppend(m) THEN Appended(PreparedLog(n), m) ELSE PreparedLog(n)
    PROVE  /\ Moves(n, l) /\ Gains(n, l) /\ Entitled(n) /\ Grounds' /\ Carries
           /\ CurrentFence(n, m) /\ net' = net \ {m} /\ UNCHANGED cmds
           /\ ReplicaAppend(m) => m.hwm <= Len(l)
<1>1. MetadataMonotone /\ Grounds
  BY DEF SafeInv, LineageInv
<1>2. Calm /\ PreparedPast /\ CoreHolds
  BY <1>1 DEF Grounds
<1>3. /\ CurrentFence(n, m) /\ net' = net \ {m} /\ FollowerUnchanged
      /\ prepared' = [prepared EXCEPT ![n] = FenceOf(View(n))]
      /\ ReplicaAppend(m) => CanAppend(PreparedLog(n), m)
      /\ log' = [log EXCEPT ![n] = l]
  BY DEF ReplicaAppend, ReplicaReject
<1>4. UNCHANGED <<metaLog, applied, committed, cmds, used, replayTarget, scan>>
  BY <1>3 DEF FollowerUnchanged
<1>5. Moves(n, l)
  BY <1>3, <1>4 DEF Moves
<1>6. m \in Requests /\ m.rec \in Records /\ Entitled(n) /\ Sound(View(n).leader, View(n).epoch, m.hwm, m.rec)
  BY <1>3, RequestFacts
<1>7. PreparedLog(n) \in Seq(Records)
  BY <1>1, <1>2, PreparedFacts
<1>8. Gains(n, l)
  <2>1. CASE ~ReplicaAppend(m)
    BY <1>4, <2>1 DEF Gains
  <2>2. CASE ReplicaAppend(m) /\ SameRecord(PreparedLog(n), m)
    BY <1>4, <2>2 DEF Gains, Appended
  <2>3. CASE ReplicaAppend(m) /\ ~SameRecord(PreparedLog(n), m)
    <3>1. m.hwm = Len(PreparedLog(n)) + 1 /\ l = Append(PreparedLog(n), m.rec)
      BY <1>3, <2>3 DEF CanAppend, Appended
    <3>2. QED
      BY <1>4, <1>6, <3>1 DEF Gains
  <2>4. QED
    BY <2>1, <2>2, <2>3
<1>9. Grounds' /\ Carries
  BY <1>1, <1>4, <1>5, <1>6, <1>8, MoveGrounds
<1>10. ReplicaAppend(m) => m.hwm <= Len(l)
  BY <1>3, <1>6, <1>7, AppendedType
<1>11. QED
  BY <1>3, <1>4, <1>5, <1>6, <1>8, <1>9, <1>10

\* A best-effort copy raises the watermark of a replica that will not lead again.
LEMMA OutsiderNeverLeads ==
    ASSUME TypeInv, SafeInv, LineageInv, NEW m \in net, m.commit, CurrentFence(m.to, m)
    PROVE  ~MayLead(m.to)
<1>1. MetadataMonotone /\ Calm /\ PreparedPast
  BY DEF SafeInv, LineageInv, Grounds
<1>2. m.to \in Brokers /\ RequestOK(m)
  BY RequestFacts
<1>3. PICK n \in Brokers : n = m.to
  BY <1>2
<1>4. PICK i \in DOMAIN metaLog : metaLog[i].epoch = m.epoch /\ n \notin Core(i)
  BY <1>2, <1>3 DEF RequestOK
<1>5. applied[n] \in DOMAIN metaLog /\ metaLog[applied[n]].epoch = metaLog[i].epoch
  BY <1>1, <1>3, <1>4, ViewFacts DEF CurrentFence
<1>6. ASSUME NEW j \in DOMAIN metaLog, applied[n] <= j PROVE metaLog[j].leader # n
  <2>1. i \in Nat /\ j \in Nat /\ applied[n] \in Nat
    BY <1>1, <1>5, LogFacts
  <2>2. CASE i <= j
    BY <1>1, <1>4, <2>2 DEF Calm, Core
  <2>3. CASE j < i
    <3>1. metaLog[applied[n]].epoch <= metaLog[j].epoch /\ metaLog[j].epoch <= metaLog[i].epoch
      BY <1>1, <1>5, <1>6, <2>1, <2>3, LogFacts
    <3>2. /\ metaLog[j].epoch \in Nat /\ metaLog[i].epoch \in Nat
          /\ metaLog[j].epoch = metaLog[i].epoch => metaLog[j].leader = metaLog[i].leader
      BY <1>1, <2>1, <2>3, LogFacts
    <3>3. metaLog[j].leader = metaLog[i].leader
      BY <1>5, <3>1, <3>2
    <3>4. QED
      BY <1>4, <3>3 DEF Core
  <2>4. QED
    BY <2>1, <2>2, <2>3
<1>7. n \notin Core(Len(metaLog))
  <2>1. Len(metaLog) \in DOMAIN metaLog /\ i <= Len(metaLog)
    BY <1>1, LogFacts
  <2>2. QED
    BY <1>1, <1>4, <2>1 DEF Calm
<1>8. QED
  BY <1>3, <1>6, <1>7 DEF MayLead

\* The answer that confirms a copy.
LEMMA CopyConfirmed ==
    ASSUME TypeInv, TypeInv', SafeInv, LineageInv, NEW m \in net, ReplicaAppend(m), Awaiting(m),
           NEW n \in Brokers, NEW b \in Brokers, n = m.to, b = m.leader,
           NEW t \in Tasks, t = Head(lane[b]), NEW u \in Tasks, u.pc = "send", u.barrier = t.barrier,
           u.epoch = t.epoch, u.hwm = t.hwm, u.rec = t.rec, u.isr = t.isr, u.todo = t.todo \ {n}
    PROVE  TaskOK(b, u)'
<1>1. n = m.to /\ b = m.leader
  OBVIOUS
<1>2. PICK l : l = Appended(PreparedLog(n), m)
  OBVIOUS
<1>3. /\ MetadataMonotone /\ Calm /\ PreparedPast /\ CoreHolds /\ OneLine /\ LaneOK
  BY DEF SafeInv, LineageInv, Grounds, WorkOK
<1>4. /\ Moves(n, l) /\ Gains(n, l) /\ Carries /\ CurrentFence(n, m) /\ m.hwm <= Len(l)
  BY <1>1, <1>2, FollowerMoves
<1>5. lane[b] # <<>> /\ t.pc = "wait"
  BY <1>1 DEF Awaiting, AtHead
<1>6. TaskOK(b, t)
  BY <1>1, <1>3, <1>5, HeadOK
<1>7. TaskOK(b, t)'
  BY <1>4, <1>6 DEF Carries
<1>8. t.epoch = m.epoch /\ t.hwm = m.hwm
  BY DEF Awaiting, RequestOf
<1>9. ~t.barrier
  BY <1>5, <1>6 DEF TaskOK
<1>10. /\ Sound(b, t.epoch, t.hwm, t.rec)' /\ Meta'.isr \subseteq t.isr
       /\ Copied(t.epoch, t.hwm, t.todo)'
       /\ \E i \in DOMAIN metaLog' : metaLog'[i].epoch = t.epoch /\ t.isr = metaLog'[i].isr
  BY <1>5, <1>7, <1>9 DEF TaskOK
<1>12. Meta' = Meta /\ LEO(n)' = Len(l) /\ (Prepared(n)' <=> View(n).epoch = Meta.epoch)
  BY <1>3, <1>4, MoveFacts
<1>13. t.epoch = Meta'.epoch => Prepared(n)' /\ t.hwm <= LEO(n)'
  BY <1>4, <1>8, <1>12 DEF CurrentFence
<1>14. Copied(t.epoch, t.hwm, t.todo \ {n})'
  BY <1>10, <1>13 DEF Copied
<1>15. TaskOK(b, u)'
  BY <1>9, <1>10, <1>14 DEF TaskOK, PastCommit
<1>16. QED
  BY <1>15

\* A request that is handled.
LEMMA ReplicaLineage ==
    ASSUME TypeInv, TypeInv', SafeInv, LineageInv, NEW m \in net,
           ReplicaAppend(m) \/ ReplicaReject(m) \/ ReplicaFence(m)
    PROVE  LineageInv'
<1>1. MetadataMonotone /\ Grounds /\ WorkOK /\ ShownOK /\ LaneOK
  BY DEF SafeInv, LineageInv, WorkOK
<1>2. Calm /\ PreparedPast /\ CoreHolds /\ OneLine
  BY <1>1 DEF Grounds
<1>3. PICK n \in Brokers, b \in Brokers : n = m.to /\ b = m.leader
  BY RequestFacts
<1>4. Awaiting(m) => lane[b] # <<>>
  BY <1>3 DEF Awaiting, AtHead
<1>5. PICK t : t = Head(lane[b])
  OBVIOUS
<1>6. Awaiting(m) => t \in Tasks /\ TaskOK(b, t)
  BY <1>1, <1>4, <1>5, HeadOK
<1>7. UNCHANGED <<metaLog, applied>>
  BY DEF ReplicaAppend, ReplicaReject, ReplicaFence, FollowerUnchanged
<1>8. CASE ReplicaAppend(m)
  <2>1. PICK l : l = Appended(PreparedLog(n), m)
    OBVIOUS
  <2>2. Grounds' /\ Carries /\ CurrentFence(n, m) /\ net' = net \ {m} /\ UNCHANGED cmds
    BY <1>3, <1>8, <2>1, FollowerMoves
  <2>3. LaneOK'
    <3>1. PICK u : u = [t EXCEPT !.pc = "send", !.todo = @ \ {n}]
      OBVIOUS
    <3>2. lane' = IF Awaiting(m) THEN [lane EXCEPT ![b] = <<u>> \o Tail(@)] ELSE lane
      BY <1>3, <1>5, <1>8, <3>1 DEF ReplicaAppend, Answer
    <3>3. CASE Awaiting(m)
      <4>1. t \in Tasks /\ n = m.to /\ b = m.leader
        BY <1>3, <1>6, <3>3
      <4>2. /\ u \in Tasks /\ u.pc = "send" /\ u.barrier = t.barrier /\ u.epoch = t.epoch
            /\ u.hwm = t.hwm /\ u.rec = t.rec /\ u.isr = t.isr /\ u.todo = t.todo \ {n}
        BY <3>1, <4>1 DEF Tasks
      <4>3. TaskOK(b, u)'
        BY <1>5, <1>8, <3>3, <4>1, <4>2, CopyConfirmed
      <4>4. QED
        BY <1>1, <1>4, <2>2, <3>2, <3>3, <4>2, <4>3, LaneSet
    <3>4. CASE ~Awaiting(m)
      BY <1>1, <2>2, <3>2, <3>4, Kept
    <3>5. QED
      BY <3>3, <3>4
  <2>4. ShownOK'
    <3>1. CASE ~m.commit
      <4>1. HWM' = [HWM EXCEPT ![n] = PreparedHWM(n)]
        BY <1>3, <1>8, <3>1 DEF ReplicaAppend
      <4>2. QED
        BY <1>1, <1>2, <1>7, <4>1, ShownPrepared
    <3>2. CASE m.commit
      <4>1. PICK h : h = Larger(PreparedHWM(n), m.hwm)
        OBVIOUS
      <4>2. HWM' = [HWM EXCEPT ![n] = h]
        BY <1>3, <1>8, <3>2, <4>1 DEF ReplicaAppend
      <4>3. h \in Nat
        BY <4>2 DEF TypeInv, TypeOK
      <4>4. ~MayLead(n)
        BY <1>3, <2>2, <3>2, OutsiderNeverLeads
      <4>5. QED
        BY <1>1, <1>7, <4>2, <4>3, <4>4, ShownMove
    <3>3. QED
      BY <3>1, <3>2
  <2>5. QED
    BY <2>2, <2>3, <2>4, FollowerLineage
<1>9. CASE ReplicaReject(m) /\ ~ReplicaAppend(m)
  <2>1. PICK l : l = PreparedLog(n)
    OBVIOUS
  <2>2. Grounds' /\ Carries /\ net' = net \ {m} /\ UNCHANGED cmds
    BY <1>3, <1>9, <2>1, FollowerMoves
  <2>3. LaneOK'
    <3>1. PICK u : u = Failed(t)
      OBVIOUS
    <3>2. lane' = IF Awaiting(m) THEN [lane EXCEPT ![b] = <<u>> \o Tail(@)] ELSE lane
      BY <1>3, <1>5, <1>9, <3>1 DEF ReplicaReject, Answer
    <3>3. CASE Awaiting(m)
      <4>1. u \in Tasks /\ TaskOK(b, u)
        BY <1>6, <3>1, <3>3, FailedType, RestartOK
      <4>2. TaskOK(b, u)'
        BY <2>2, <4>1 DEF Carries
      <4>3. QED
        BY <1>1, <1>4, <2>2, <3>2, <3>3, <4>1, <4>2, LaneSet
    <3>4. CASE ~Awaiting(m)
      BY <1>1, <2>2, <3>2, <3>4, Kept
    <3>5. QED
      BY <3>3, <3>4
  <2>4. HWM' = [HWM EXCEPT ![n] = PreparedHWM(n)]
    BY <1>3, <1>9 DEF ReplicaReject
  <2>5. ShownOK'
    BY <1>1, <1>2, <1>7, <2>4, ShownPrepared
  <2>6. QED
    BY <2>2, <2>3, <2>5, FollowerLineage
<1>10. CASE ReplicaFence(m)
  <2>1. /\ UNCHANGED <<metaLog, applied, log, prepared, scan, replayTarget, used, committed, HWM, cmds>>
        /\ net' = net \ {m}
        /\ lane' = IF Awaiting(m) THEN [lane EXCEPT ![b] = <<>> \o Tail(@)] ELSE lane
    BY <1>3, <1>10 DEF ReplicaFence, FollowerUnchanged, Answer
  <2>2. ASSUME Carries PROVE LaneOK'
    <3>1. CASE Awaiting(m)
      BY <1>1, <1>4, <2>1, <2>2, <3>1, LaneDrop
    <3>2. CASE ~Awaiting(m)
      BY <1>1, <2>1, <2>2, <3>2, Kept
    <3>3. QED
      BY <3>1, <3>2
  <2>3. ShownOK'
    BY <1>1, <2>1, ShownStill
  <2>4. QED
    BY <2>1, <2>2, <2>3, WorkerLineage
<1>11. QED
  BY <1>8, <1>9, <1>10

-----------------------------------------------------------------------------
(* The Raft FSM.                                                           *)

\* A command that keeps the ISR shrinking names no new member.
LEMMA CommandShrinks ==
    ASSUME TypeInv, Undisturbed', NEW m \in Metadata, RaftAppend(m)
    PROVE  m.isr \subseteq Meta.isr
<1>1. Len(metaLog) \in Nat \ {0} /\ Meta = metaLog[Len(metaLog)]
  BY MetaType DEF Meta
<1>2. /\ metaLog' \in Seq(Metadata) /\ Len(metaLog') = Len(metaLog) + 1
      /\ metaLog'[Len(metaLog) + 1] = m /\ metaLog'[Len(metaLog)] = metaLog[Len(metaLog)]
  BY <1>1, RaftAppendType
<1>3. Len(metaLog) \in DOMAIN metaLog' /\ Len(metaLog) + 1 \in DOMAIN metaLog'
  BY <1>1, <1>2, LenProperties
<1>4. QED
  BY <1>1, <1>2, <1>3 DEF Undisturbed, Shrinking

\* A command, once the lanes are in order.
LEMMA CommandLineage ==
    ASSUME TypeInv, TypeInv', SafeInv, LineageInv, NEW m \in Metadata, Commands(m), FSMUnchanged,
           used'["record"] = used["record"], Carries => LaneOK', cmds' \subseteq cmds
    PROVE  LineageInv'
<1>1. MetadataMonotone /\ Grounds /\ WorkOK /\ ShownOK
  BY DEF SafeInv, LineageInv
<1>2. CoreHolds /\ OneLine
  BY <1>1 DEF Grounds
<1>3. UNCHANGED <<log, prepared, applied, replayTarget, scan, HWM, net>>
  BY DEF FSMUnchanged
<1>4. Grounds' /\ Carries
  BY <1>1, <1>3, CommandGrounds
<1>5. ShownOK'
  BY <1>1, <1>2, <1>3, ShownCommand
<1>6. (\A q \in net' : RequestOK(q)') /\ (\A c \in cmds' : CommitOK(c)')
  BY <1>1, <1>3, <1>4, Kept
<1>7. QED
  BY <1>4, <1>5, <1>6 DEF LineageInv, WorkOK

\* What an accepted commit covers is the leader's log, and the record it names is
\* committed where it says.
LEMMA CommitCommands ==
    ASSUME TypeInv, TypeInv', SafeInv, LineageInv, NEW c \in cmds, CommitAccepted(c)
    PROVE  /\ \E m \in Metadata : Commands(m) /\ m.leader = c.leader /\ m.hwm = c.hwm
           /\ Len(committed') = c.hwm /\ committed'[c.hwm] = c.rec
<1>0. PICK m : m = [Meta EXCEPT !.kind = "commit", !.hwm = c.hwm]
  OBVIOUS
<1>1. MetadataMonotone /\ CoreHolds /\ OneLine
  BY DEF SafeInv, LineageInv, Grounds
<1>2. /\ c \in Commits /\ c.leader \in Brokers /\ c.hwm \in Nat \ {0} /\ c.rec \in Records
      /\ CommitOK(c)
  BY DEF TypeInv, TypeOK, Commits, LineageInv, WorkOK
<1>3. PICK L : L = Meta.leader
  OBVIOUS
<1>4. c.leader = L /\ c.epoch = Meta.epoch /\ c.hwm >= Meta.hwm /\ RaftAppend(m)
  BY <1>0, <1>3 DEF CommitAccepted, CommitFenceHolds
<1>5. Meta \in Metadata
  BY MetaType
<1>6. /\ m \in Metadata /\ m.kind = "commit" /\ m.hwm = c.hwm /\ m.leader = Meta.leader
      /\ m.epoch = Meta.epoch /\ m.isr = Meta.isr /\ Meta.epoch \in Nat
  BY <1>0, <1>2, <1>5 DEF Metadata
<1>7. L \in Core(Len(metaLog)) /\ Meta.hwm \in Nat /\ L \in Brokers
  BY <1>3, <1>5 DEF Core, Meta, Metadata
<1>8. \A n \in Core(Len(metaLog)) : Prepared(n) /\ c.hwm <= LEO(n)
  BY <1>2, <1>4 DEF CommitOK, Copied
<1>9. log[L][c.hwm] = c.rec
  BY <1>2, <1>3, <1>4 DEF CommitOK, Sound, Leads
<1>10. /\ Len(committed) = Meta.hwm
       /\ \A k \in 1..Meta.hwm : log[L][k] = committed[k]
  BY <1>1, <1>7, LogFacts DEF CoreHolds, Agrees
<1>11. Len(committed') = c.hwm /\ \A k \in 1..c.hwm : committed'[k] = log[L][k]
  <2>1. CASE c.hwm > Len(committed)
    <3>1. committed' = Covered(c) /\ Len(committed') = c.hwm
      BY <1>2, <2>1, CoveredType DEF CommitAccepted
    <3>2. LEO(L) \in Nat /\ c.hwm <= LEO(L)
      BY <1>7, <1>8, StateFacts
    <3>3. ASSUME NEW k \in 1..c.hwm PROVE Covered(c)[k] = log[L][k]
      <4>1. k <= LEO(L)
        BY <1>2, <3>2
      <4>2. k <= Len(committed) => committed[k] = log[L][k]
        BY <1>7, <1>10
      <4>3. QED
        BY <1>4, <1>9, <4>1, <4>2 DEF Covered
    <3>4. QED
      BY <3>1, <3>3
  <2>2. CASE ~(c.hwm > Len(committed))
    <3>1. committed' = committed /\ c.hwm = Len(committed)
      BY <1>2, <1>4, <1>7, <1>10, <2>2 DEF CommitAccepted
    <3>2. QED
      BY <1>10, <3>1
  <2>3. QED
    BY <2>1, <2>2
<1>12. Commands(m)
  BY <1>3, <1>4, <1>6, <1>7, <1>8, <1>11 DEF Commands
<1>13. QED
  BY <1>2, <1>3, <1>4, <1>6, <1>9, <1>11, <1>12

\* A commit reaches the Raft log and is accepted.
LEMMA CommitAcceptedLineage ==
    ASSUME TypeInv, TypeInv', SafeInv, LineageInv, NEW c \in cmds, CommitAccepted(c)
    PROVE  LineageInv'
<1>1. PICK m \in Metadata : Commands(m) /\ m.leader = c.leader /\ m.hwm = c.hwm
  BY CommitCommands
<1>2. /\ m \in Metadata /\ Commands(m) /\ m.leader = c.leader /\ m.hwm = c.hwm
      /\ Len(committed') = c.hwm /\ committed'[c.hwm] = c.rec
  BY <1>1, CommitCommands
<1>3. FSMUnchanged /\ used'["record"] = used["record"] /\ cmds' \subseteq cmds
  BY DEF CommitAccepted
<1>4. c.leader \in Brokers /\ c.hwm \in Nat
  BY DEF TypeInv, TypeOK, Commits
<1> PICK b \in Brokers : b = c.leader
  BY <1>4
<1>5. PICK t, u : t = Head(lane[b]) /\ u = [t EXCEPT !.pc = "committed"]
  OBVIOUS
<1>6. lane' = IF AwaitingCommit(c) THEN [lane EXCEPT ![b] = <<u>> \o Tail(@)] ELSE lane
  BY <1>5 DEF CommitAccepted, CommitAnswer
<1>7. LaneOK /\ WorkOK /\ MetadataMonotone /\ CoreHolds /\ OneLine
  BY DEF LineageInv, WorkOK, SafeInv, Grounds
<1>8. ASSUME Carries PROVE LaneOK'
  <2>1. CASE AwaitingCommit(c)
    <3>1. /\ lane[b] # <<>> /\ t.pc = "committing" /\ t.hwm = c.hwm /\ t.rec = c.rec
      BY <1>5, <2>1 DEF AwaitingCommit, AtHead, CommitOf
    <3>2. t \in Tasks /\ TaskOK(b, t)
      BY <1>5, <1>7, <3>1, HeadOK
    <3>3. TaskOK(b, t)'
      BY <1>8, <3>2 DEF Carries
    <3>4. /\ u \in Tasks /\ u.pc = "committed" /\ u.barrier = t.barrier /\ u.epoch = t.epoch
          /\ u.hwm = t.hwm /\ u.rec = t.rec /\ u.isr = t.isr /\ u.todo = t.todo
      BY <1>5, <3>2 DEF Tasks
    <3>5. ~t.barrier
      BY <3>1, <3>2 DEF TaskOK
    <3>6. /\ Sound(b, t.epoch, t.hwm, t.rec)' /\ Meta'.isr \subseteq t.isr
          /\ Copied(t.epoch, t.hwm, t.todo)'
          /\ \E i \in DOMAIN metaLog' : metaLog'[i].epoch = t.epoch /\ t.isr = metaLog'[i].isr
      BY <3>1, <3>3, <3>5 DEF TaskOK
    <3>7. PICK j : j = Len(metaLog) + 1
      OBVIOUS
    <3>8. j \in DOMAIN metaLog' /\ metaLog'[j] = m
      BY <1>2, <1>7, <3>7, CommandFacts, MetaType
    <3>9. TaskDone(b, u)'
      BY <1>2, <1>4, <1>5, <3>1, <3>4, <3>8 DEF TaskDone
    <3>10. TaskOK(b, u)'
      BY <3>4, <3>5, <3>6, <3>9 DEF TaskOK
    <3>11. QED
      BY <1>6, <1>7, <1>8, <2>1, <3>1, <3>4, <3>10, LaneSet
  <2>2. CASE ~AwaitingCommit(c)
    BY <1>6, <1>7, <1>8, <2>2, Kept
  <2>3. QED
    BY <2>1, <2>2
<1>9. QED
  BY <1>2, <1>3, <1>8, CommandLineage

\* A commit reaches the Raft log and is refused.
LEMMA CommitRejectedLineage ==
    ASSUME TypeInv, TypeInv', SafeInv, LineageInv, NEW c \in cmds, CommitRejected(c)
    PROVE  LineageInv'
<1>1. WorkOK /\ LaneOK /\ ShownOK
  BY DEF LineageInv, WorkOK
<1>2. /\ UNCHANGED <<metaLog, applied, log, prepared, scan, replayTarget, used, committed, HWM, net>>
      /\ cmds' \subseteq cmds
  BY DEF CommitRejected, FSMUnchanged
<1>3. c.leader \in Brokers
  BY DEF TypeInv, TypeOK, Commits
<1> PICK b \in Brokers : b = c.leader
  BY <1>3
<1>4. PICK t, u : t = Head(lane[b]) /\ u = Failed(t)
  OBVIOUS
<1>5. /\ CommitFenceHolds(c) =>
            lane' = IF AwaitingCommit(c) THEN [lane EXCEPT ![b] = <<u>> \o Tail(@)] ELSE lane
      /\ ~CommitFenceHolds(c) =>
            lane' = IF AwaitingCommit(c) THEN [lane EXCEPT ![b] = <<>> \o Tail(@)] ELSE lane
  BY <1>4 DEF CommitRejected, CommitAnswer
<1>6. ASSUME Carries PROVE LaneOK'
  <2>1. CASE ~AwaitingCommit(c)
    BY <1>1, <1>5, <1>6, <2>1, Kept
  <2>2. CASE AwaitingCommit(c) /\ CommitFenceHolds(c)
    <3>1. lane[b] # <<>>
      BY <1>4, <2>2 DEF AwaitingCommit, AtHead
    <3>2. t \in Tasks /\ TaskOK(b, t)
      BY <1>1, <1>4, <3>1, HeadOK
    <3>3. u \in Tasks /\ TaskOK(b, u)
      BY <1>4, <3>2, FailedType, RestartOK
    <3>4. TaskOK(b, u)'
      BY <1>6, <3>3 DEF Carries
    <3>5. QED
      BY <1>1, <1>5, <1>6, <2>2, <3>1, <3>3, <3>4, LaneSet
  <2>3. CASE AwaitingCommit(c) /\ ~CommitFenceHolds(c)
    <3>1. lane[b] # <<>>
      BY <1>4, <2>3 DEF AwaitingCommit, AtHead
    <3>2. QED
      BY <1>1, <1>5, <1>6, <2>3, <3>1, LaneDrop
  <2>4. QED
    BY <2>1, <2>2, <2>3
<1>7. ShownOK'
  BY <1>1, <1>2, ShownStill
<1>8. QED
  BY <1>2, <1>6, <1>7, WorkerLineage

\* The commands of the ISR manager and of the administrator.
LEMMA ControllerLineage ==
    ASSUME TypeInv, TypeInv', SafeInv, LineageInv, Undisturbed',
           \/ \E i \in DOMAIN metaLog : \E alive \in SUBSET metaLog[i].isr : ComputeISR(i, alive)
           \/ \E b \in Brokers : ElectLeader(b)
    PROVE  LineageInv'
<1>1. SUFFICES ASSUME NEW m \in Metadata, RaftAppend(m), m.kind # "topic", m.hwm = Meta.hwm,
                      m.leader \in Core(Len(metaLog)), m.epoch >= Meta.epoch,
                      m.epoch = Meta.epoch => m.leader = Meta.leader,
                      FSMUnchanged, UNCHANGED <<lane, cmds, used, committed>>
               PROVE  LineageInv'
  <2>1. MetadataMonotone /\ Meta \in Metadata /\ Core(Len(metaLog)) = Meta.isr \cup {Meta.leader}
    BY MetaType DEF SafeInv, Core, Meta
  <2>2. ASSUME NEW i \in DOMAIN metaLog, NEW alive \in SUBSET metaLog[i].isr, ComputeISR(i, alive)
        PROVE  LineageInv'
    <3>1. PICK m : m = ComputedISR(metaLog[i], alive)
      OBVIOUS
    <3>2. PICK x \in Metadata : x = metaLog[i]
      BY MetaType, LenProperties DEF TypeInv, TypeOK
    <3>3. alive \in SUBSET Brokers
      BY <3>2 DEF Metadata
    <3>4. m \in Metadata
      BY <3>1, <3>2, <3>3, ComputedISRType
    <3>5. /\ RaftAppend(m) /\ PartitionAccepted(m) /\ FSMUnchanged
          /\ UNCHANGED <<lane, cmds, used, committed>>
      BY <2>2, <3>1 DEF ComputeISR
    <3>6. m.isr \subseteq Meta.isr
      BY <3>4, <3>5, CommandShrinks
    <3>7. x.hwm <= Meta.hwm /\ x.epoch <= Meta.epoch /\ (x.epoch = Meta.epoch => x.leader = Meta.leader)
      BY <2>1, <3>2, LogFacts
    <3>8. /\ x.hwm \in Nat /\ x.epoch \in Nat /\ Meta.hwm \in Nat /\ Meta.epoch \in Nat
          /\ m.epoch \in Nat /\ m.hwm \in Nat
      BY <2>1, <3>4 DEF Metadata
    <3>9. m.epoch >= Meta.epoch /\ m.hwm >= Meta.hwm /\ (m.leader # Meta.leader => m.epoch > Meta.epoch)
      BY <3>5 DEF PartitionAccepted
    <3>10. m.kind = "partition" /\ m.isr = alive /\ m.hwm = x.hwm
      BY <3>1, <3>2 DEF ComputedISR, Metadata
    <3>11. m.leader \in Core(Len(metaLog))
      <4>1. CASE x.leader \notin alive /\ alive # {}
        <5>1. m.leader = Minimum(alive)
          BY <3>1, <3>2, <4>1 DEF ComputedISR, Metadata
        <5>2. QED
          BY <2>1, <3>3, <3>6, <3>10, <4>1, <5>1, MinimumInSet
      <4>2. CASE ~(x.leader \notin alive /\ alive # {})
        <5>1. m.leader = x.leader /\ m.epoch = x.epoch
          BY <3>1, <3>2, <4>2 DEF ComputedISR, Metadata
        <5>2. x.epoch = Meta.epoch
          BY <3>7, <3>8, <3>9, <5>1
        <5>3. QED
          BY <2>1, <3>7, <5>1, <5>2
      <4>3. QED
        BY <4>1, <4>2
    <3>12. m.hwm = Meta.hwm /\ m.kind # "topic" /\ (m.epoch = Meta.epoch => m.leader = Meta.leader)
      BY <3>7, <3>8, <3>9, <3>10
    <3>13. QED
      BY <1>1, <3>4, <3>5, <3>9, <3>11, <3>12
  <2>3. ASSUME NEW b \in Brokers, ElectLeader(b) PROVE LineageInv'
    <3>1. PICK m : m = [Meta EXCEPT !.kind = "election", !.leader = b, !.epoch = @ + 1]
      OBVIOUS
    <3>2. /\ RaftAppend(m) /\ FSMUnchanged /\ UNCHANGED <<lane, cmds, used, committed>> /\ b \in Meta.isr
      <4>1. RaftAppend([Meta EXCEPT !.kind = "election", !.leader = b, !.epoch = @ + 1])
        BY <2>3, Zenon DEF ElectLeader
      <4>2. RaftAppend(m)
        BY <3>1, <4>1, Zenon
      <4>3. FSMUnchanged /\ UNCHANGED <<lane, cmds, used, committed>> /\ b \in Meta.isr
        BY <2>3, Zenon DEF ElectLeader
      <4>4. QED
        BY <4>2, <4>3
    <3>3. Meta.epoch \in Nat \ {0} /\ Meta.hwm \in Nat /\ Meta.isr \in SUBSET Brokers
      BY <2>1 DEF Metadata
    <3>4. m = [kind |-> "election", leader |-> b, epoch |-> Meta.epoch + 1, isr |-> Meta.isr, hwm |-> Meta.hwm]
      BY <2>1, <3>1 DEF Metadata
    <3>5. m \in Metadata
      BY <3>3, <3>4 DEF Metadata
    <3>6. /\ m.kind # "topic" /\ m.hwm = Meta.hwm /\ m.leader \in Core(Len(metaLog))
          /\ m.epoch >= Meta.epoch /\ m.epoch # Meta.epoch
      BY <2>1, <3>2, <3>3, <3>4
    <3>7. QED
      BY <1>1, <3>2, <3>5, <3>6
  <2>4. QED
    BY <2>2, <2>3
<1>2. m.isr \subseteq Meta.isr
  BY <1>1, CommandShrinks
<1>3. Commands(m)
  BY <1>1, <1>2 DEF Commands
<1>4. WorkOK
  BY DEF LineageInv
<1>5. Carries => LaneOK'
  BY <1>1, <1>4, Kept
<1>6. QED
  BY <1>1, <1>3, <1>5, CommandLineage

\* A re-admission proof arrives: it is refused, or the ISR grows.
LEMMA CatchupLineage ==
    ASSUME TypeInv, TypeInv', SafeInv, LineageInv, Undisturbed', NEW p \in proofs, ISRCatchup(p)
    PROVE  LineageInv'
<1>1. UNCHANGED metaLog
  <2>1. SUFFICES ASSUME p.broker \notin Meta.isr,
                        RaftAppend([Meta EXCEPT !.kind = "isr", !.isr = @ \cup {p.broker}])
                 PROVE  FALSE
    BY DEF ISRCatchup
  <2>2. PICK m : m = [Meta EXCEPT !.kind = "isr", !.isr = @ \cup {p.broker}]
    OBVIOUS
  <2>3. Meta \in Metadata /\ p.broker \in Brokers
    BY MetaType DEF TypeInv, TypeOK, Proofs
  <2>4. Meta.isr \in SUBSET Brokers
    BY <2>3 DEF Metadata
  <2>5. m \in Metadata /\ m.isr = Meta.isr \cup {p.broker}
    BY <2>2, <2>3, <2>4 DEF Metadata
  <2>6. m.isr \subseteq Meta.isr
    BY <2>1, <2>2, <2>5, CommandShrinks
  <2>7. QED
    BY <2>1, <2>5, <2>6
<1>2. UNCHANGED <<applied, log, prepared, scan, replayTarget, used, committed, HWM, net, cmds, lane>>
  BY DEF ISRCatchup, FSMUnchanged
<1>3. WorkOK /\ ShownOK
  BY DEF LineageInv
<1>4. ShownOK' /\ (Carries => LaneOK')
  BY <1>1, <1>2, <1>3, ShownStill, Kept
<1>5. QED
  BY <1>1, <1>2, <1>4, WorkerLineage

\* A broker applies its next command.
LEMMA ApplyLineage ==
    ASSUME TypeInv, TypeInv', SafeInv, LineageInv, NEW n \in Brokers, ApplyEntry(n)
    PROVE  LineageInv'
<1>1. MetadataMonotone /\ Grounds /\ WorkOK /\ ShownOK /\ LaneOK
  BY DEF SafeInv, LineageInv, WorkOK
<1>2. Calm /\ PreparedPast
  BY <1>1 DEF Grounds
<1>3. PICK a : a = applied[n] + 1
  OBVIOUS
<1>4. /\ applied[n] \in Nat /\ applied[n] >= 1 /\ a \in DOMAIN metaLog /\ a > 1
  <2>1. applied[n] \in 1..Len(metaLog)
    BY <1>1, <1>2, ViewFacts, LogFacts
  <2>2. applied[n] < Len(metaLog) /\ DOMAIN metaLog = 1..Len(metaLog) /\ Len(metaLog) \in Nat
    BY <1>1, LogFacts DEF ApplyEntry
  <2>3. QED
    BY <1>3, <2>1, <2>2
<1>5. metaLog[a].kind # "topic" /\ metaLog[a].hwm \in Nat
  BY <1>1, <1>2, <1>4, LogFacts DEF Calm
<1>6. /\ UNCHANGED <<metaLog, log, prepared, lane, net, cmds, scan, replayTarget, used, committed>>
      /\ applied' = [applied EXCEPT ![n] = a]
      /\ UNCHANGED HWM \/ HWM' = [HWM EXCEPT ![n] = Larger(@, metaLog[a].hwm)]
  BY <1>3, <1>5 DEF ApplyEntry
<1>7. \A b \in Brokers : applied[b] \in Nat /\ applied'[b] = IF b = n THEN a ELSE applied[b]
  BY <1>6 DEF TypeInv, TypeOK
<1>8. \A b \in Brokers : applied[b] <= applied'[b]
  BY <1>3, <1>4, <1>7
<1>9. Grounds' /\ Carries
  BY <1>1, <1>6, <1>8, StillGrounds
<1>10. ASSUME NEW b \in Brokers, MayLead(b)' PROVE Trusted(b)'
  <2>1. \A i : Core(i)' = Core(i)
    BY <1>6 DEF Core
  <2>2. b \in Core(Len(metaLog)) \/ \E i \in DOMAIN metaLog : applied'[b] <= i /\ metaLog[i].leader = b
    BY <1>6, <1>10, <2>1 DEF MayLead
  <2>3. DOMAIN metaLog \subseteq Nat
    BY <1>1, LogFacts
  <2>4. \A i \in DOMAIN metaLog : applied'[b] <= i => applied[b] <= i
    BY <1>3, <1>4, <1>7, <2>3
  <2>5. MayLead(b)
    BY <2>2, <2>4 DEF MayLead
  <2>6. PICK i \in DOMAIN metaLog : b \in Core(i) /\ HWM[b] <= metaLog[i].hwm
    BY <1>1, <2>5 DEF ShownOK, Trusted
  <2>7. CASE HWM'[b] = HWM[b]
    BY <1>6, <2>1, <2>6, <2>7 DEF Trusted
  <2>8. CASE HWM'[b] # HWM[b]
    <3>1. b = n /\ HWM'[b] = metaLog[a].hwm
      BY <1>6, <2>8 DEF TypeInv, TypeOK, Larger
    <3>2. \E j \in DOMAIN metaLog : b \in Core(j) /\ a <= j
      <4>1. CASE b \in Core(Len(metaLog))
        BY <1>1, <1>4, <4>1, LogFacts
      <4>2. ASSUME NEW j \in DOMAIN metaLog, applied'[b] <= j, metaLog[j].leader = b
            PROVE  b \in Core(j) /\ a <= j
        BY <1>7, <3>1, <4>2 DEF Core
      <4>3. QED
        BY <2>2, <4>1, <4>2
    <3>3. PICK j \in DOMAIN metaLog : b \in Core(j) /\ a <= j
      BY <3>2
    <3>4. HWM'[b] <= metaLog[j].hwm
      BY <1>1, <1>4, <3>1, <3>3, LogFacts
    <3>5. QED
      BY <1>6, <2>1, <3>3, <3>4 DEF Trusted
  <2>9. QED
    BY <2>7, <2>8
<1>11. ShownOK'
  BY <1>10 DEF ShownOK
<1>12. WorkOK'
  BY <1>1, <1>6, <1>9, Kept DEF WorkOK
<1>13. QED
  BY <1>9, <1>11, <1>12 DEF LineageInv

\* The other steps change nothing the invariant reads, or disturb.
LEMMA OtherLineage ==
    ASSUME TypeInv, TypeInv', SafeInv, LineageInv, Undisturbed', NEW n \in Brokers,
           \/ BuildProof(n) \/ ScanStep(n) \/ RecoveryStep(n) \/ AlterTopic \/ UNCHANGED vars
    PROVE  LineageInv'
<1>1. used \in [Events -> Nat] /\ {"record", "scan", "alter", "restart", "proof"} \subseteq Events
  BY DEF TypeInv, TypeOK, Events
<1>2. WorkOK /\ ShownOK /\ Calm
  BY DEF LineageInv, Grounds
<1>3. ~AlterTopic
  BY <1>1 DEF AlterTopic, Count, Undisturbed
<1>4. ~ScanStep(n)
  <2>1. scan[n].phase = "idle"
    BY <1>2 DEF Calm
  <2>2. ~ScanCopy(n)
    BY <1>1 DEF ScanCopy, Count, Undisturbed
  <2>3. QED
    BY <2>1, <2>2 DEF ScanStep, ScanDecide, ScanReconcile, ScanFetch, ScanApply, ScanAbort
<1>5. \A target \in DOMAIN metaLog : ~Restart(n, target)
  BY <1>1 DEF Restart, Count, Undisturbed
<1>6. ~FinishRecovery(n)
  BY <1>2 DEF FinishRecovery, Calm
<1>7. BuildProof(n) \/ TakeSnapshot(n) \/ UNCHANGED vars
  BY <1>3, <1>4, <1>5, <1>6 DEF RecoveryStep
<1>8. /\ UNCHANGED <<metaLog, applied, log, prepared, lane, scan, replayTarget, committed, HWM, net, cmds>>
      /\ used'["record"] = used["record"]
  BY <1>1, <1>7 DEF BuildProof, TakeSnapshot, Count, brokerVars, vars
<1>9. MetadataMonotone /\ Grounds /\ \A b \in Brokers : applied[b] <= applied'[b]
  BY <1>8, StateFacts DEF SafeInv, LineageInv
<1>10. Grounds' /\ Carries
  BY <1>8, <1>9, StillGrounds
<1>11. ShownOK'
  BY <1>2, <1>8, ShownStill
<1>12. WorkOK'
  BY <1>2, <1>8, <1>10, Kept DEF WorkOK
<1>13. QED
  BY <1>10, <1>11, <1>12 DEF LineageInv

-----------------------------------------------------------------------------
(* Invariance.                                                             *)

\* The initial state: no record, no fence, every broker in the ISR.
LEMMA InitLineage ==
    ASSUME Init
    PROVE  LineageInv
<1>1. /\ Len(metaLog) = 1 /\ DOMAIN metaLog = 1..1 /\ metaLog[1].hwm = 0 /\ metaLog[1].epoch = 1
      /\ metaLog[1].isr = Brokers /\ metaLog[1].leader = FirstLeader /\ FirstLeader \in Brokers
  BY BrokersAssumption DEF Init
<1>2. Meta = metaLog[1] /\ Core(1) = Brokers /\ Core(Len(metaLog)) = Brokers
  BY <1>1 DEF Meta, Core
<1>3. \A n \in Brokers : /\ log[n] = <<>> /\ LEO(n) = 0 /\ prepared[n] = NoFence /\ HWM[n] = 0
                         /\ applied[n] = 1 /\ lane[n] = <<>> /\ replayTarget[n] = 0
                         /\ scan[n].phase = "idle"
  BY EmptySeq DEF Init, LEO, IdleScan
<1>4. committed = <<>> /\ Len(committed) = 0 /\ net = {} /\ cmds = {} /\ DOMAIN <<>> = {}
  BY EmptySeq DEF Init
<1>5. Calm
  BY <1>1, <1>3 DEF Calm
<1>6. PreparedPast
  BY <1>3 DEF PreparedPast
<1>7. CoreHolds
  <2>1. \A n \in Brokers : Agrees(n, 0)
    BY <1>3, <1>4 DEF Agrees
  <2>2. QED
    BY <1>1, <1>2, <1>4, <2>1 DEF CoreHolds
<1>8. OneLine
  BY <1>1, <1>2, <1>3 DEF OneLine, Prepared, NoFence, FenceOf
<1>9. LogOK
  BY <1>3, <1>4 DEF LogOK
<1>10. WorkOK
  BY <1>3, <1>4 DEF WorkOK, LaneOK
<1>11. ShownOK
  BY <1>1, <1>2, <1>3 DEF ShownOK, Trusted
<1>12. QED
  BY <1>5, <1>6, <1>7, <1>8, <1>9, <1>10, <1>11 DEF LineageInv, Grounds

\* The Raft log only grows.
LEMMA MetaLogGrows ==
    ASSUME TypeInv, TypeInv', [Next]_vars
    PROVE  \A i \in DOMAIN metaLog : i \in DOMAIN metaLog' /\ metaLog'[i] = metaLog[i]
<1>1. UNCHANGED metaLog \/ \E m : RaftAppend(m)
  <2>1. ASSUME NEW n \in Brokers,
               ClientStep(n) \/ LaneStep(n) \/ ApplyEntry(n) \/ BuildProof(n) \/ ScanStep(n) \/ RecoveryStep(n)
        PROVE  UNCHANGED metaLog
    <3>1. CASE ClientStep(n)
      BY <3>1 DEF ClientStep, Publish, PublishDuplicate, PublishFails, ClientCancel
    <3>2. CASE LaneStep(n)
      BY <3>2 DEF LaneStep, LaneFenced, LaneLeaderOutOfISR, LaneStart, LaneBarrier, LaneSend,
         LaneTimeout, LanePropose, LaneCommitted, LaneFinish, LaneUnchanged
    <3>3. CASE ApplyEntry(n) \/ BuildProof(n)
      BY <3>3 DEF ApplyEntry, BuildProof
    <3>4. CASE ScanStep(n)
      BY <3>4 DEF ScanStep, ScanCopy, ScanDecide, ScanReconcile, ScanFetch, ScanApply, ScanAbort,
         ScanUnchanged
    <3>5. CASE RecoveryStep(n)
      BY <3>5 DEF RecoveryStep, TakeSnapshot, Restart, FinishRecovery
    <3>6. QED
      BY <2>1, <3>1, <3>2, <3>3, <3>4, <3>5
  <2>2. CASE ReplicaStep
    BY <2>2 DEF ReplicaStep, ReplicaAppend, ReplicaReject, ReplicaFence, FollowerUnchanged
  <2>3. CASE RaftStep
    BY <2>3, Zenon DEF RaftStep, CommitAccepted, CommitRejected, ComputeISR, ElectLeader, ISRCatchup, AlterTopic
  <2>4. CASE UNCHANGED vars
    BY <2>4 DEF vars
  <2>5. QED
    BY <2>1, <2>2, <2>3, <2>4 DEF Next
<1>2. ASSUME NEW m, RaftAppend(m)
      PROVE  \A i \in DOMAIN metaLog : i \in DOMAIN metaLog' /\ metaLog'[i] = metaLog[i]
  <2> DEFINE S == Metadata \cup {m}
  <2>1. metaLog \in Seq(S) /\ m \in S
    BY DEF TypeInv, TypeOK
  <2>2. metaLog' = Append(metaLog, m)
    BY <1>2 DEF RaftAppend
  <2> HIDE DEF S
  <2>3. QED
    BY <2>1, <2>2, AppendProperties, LenProperties
<1>3. QED
  BY <1>1, <1>2

\* The counters never fall.
LEMMA UsedGrows ==
    ASSUME TypeInv, TypeInv', [Next]_vars
    PROVE  \A e \in Events : used[e] <= used'[e]
<1>1. UNCHANGED used \/ \E e \in Events : Count(e)
  <2>1. {"record", "duplicate", "proof", "scan", "alter", "restart"} \subseteq Events
    BY DEF Events
  <2>2. ASSUME NEW n \in Brokers,
               ClientStep(n) \/ LaneStep(n) \/ ApplyEntry(n) \/ BuildProof(n) \/ ScanStep(n) \/ RecoveryStep(n)
        PROVE  UNCHANGED used \/ \E e \in Events : Count(e)
    <3>1. CASE ClientStep(n)
      BY <2>1, <3>1 DEF ClientStep, Publish, PublishDuplicate, PublishFails, ClientCancel
    <3>2. CASE LaneStep(n)
      BY <3>2 DEF LaneStep, LaneFenced, LaneLeaderOutOfISR, LaneStart, LaneBarrier, LaneSend,
         LaneTimeout, LanePropose, LaneCommitted, LaneFinish, LaneUnchanged
    <3>3. CASE ApplyEntry(n) \/ BuildProof(n)
      BY <2>1, <3>3 DEF ApplyEntry, BuildProof
    <3>4. CASE ScanStep(n)
      BY <2>1, <3>4 DEF ScanStep, ScanCopy, ScanDecide, ScanReconcile, ScanFetch, ScanApply, ScanAbort
    <3>5. CASE RecoveryStep(n)
      BY <2>1, <3>5 DEF RecoveryStep, TakeSnapshot, Restart, FinishRecovery
    <3>6. QED
      BY <2>2, <3>1, <3>2, <3>3, <3>4, <3>5
  <2>3. CASE ReplicaStep
    BY <2>3 DEF ReplicaStep, ReplicaAppend, ReplicaReject, ReplicaFence, FollowerUnchanged
  <2>4. CASE RaftStep
    BY <2>1, <2>4, Zenon DEF RaftStep, CommitAccepted, CommitRejected, ComputeISR, ElectLeader, ISRCatchup, AlterTopic
  <2>5. CASE UNCHANGED vars
    BY <2>5 DEF vars
  <2>6. QED
    BY <2>2, <2>3, <2>4, <2>5 DEF Next
<1>2. used \in [Events -> Nat]
  BY DEF TypeInv, TypeOK
<1>3. ASSUME NEW e \in Events, Count(e) PROVE \A d \in Events : used[d] <= used'[d]
  BY <1>2, <1>3 DEF Count
<1>4. UNCHANGED used => \A d \in Events : used[d] <= used'[d]
  BY <1>2
<1>5. QED
  BY <1>1, <1>3, <1>4

\* What has disturbed the partition has done so for good.
LEMMA UndisturbedBefore ==
    ASSUME TypeInv, TypeInv', [Next]_vars, Undisturbed'
    PROVE  Undisturbed
<1>1. Shrinking
  <2>1. \A i \in DOMAIN metaLog : i \in DOMAIN metaLog' /\ metaLog'[i] = metaLog[i]
    BY MetaLogGrows
  <2>2. Shrinking'
    BY DEF Undisturbed
  <2>3. QED
    BY <2>1, <2>2 DEF Shrinking
<1>2. used["scan"] = 0 /\ used["alter"] = 0 /\ used["restart"] = 0
  <2>1. /\ used["scan"] <= used'["scan"] /\ used["alter"] <= used'["alter"]
        /\ used["restart"] <= used'["restart"]
    BY UsedGrows DEF Events
  <2>2. /\ used'["scan"] = 0 /\ used'["alter"] = 0 /\ used'["restart"] = 0
        /\ used["scan"] \in Nat /\ used["alter"] \in Nat /\ used["restart"] \in Nat
    BY DEF Undisturbed, TypeInv, TypeOK, Events
  <2>3. QED
    BY <2>1, <2>2
<1>3. QED
  BY <1>1, <1>2 DEF Undisturbed

\* A step that leaves the partition undisturbed keeps the invariant.
LEMMA LineageNext ==
    ASSUME TypeInv, SafeInv, Lineage, [Next]_vars
    PROVE  Lineage'
<1>1. TypeInv'
  BY SafeNext
<1>2. SUFFICES ASSUME Undisturbed' PROVE LineageInv'
  BY DEF Lineage
<1>3. Undisturbed
  BY <1>1, <1>2, UndisturbedBefore
<1>4. LineageInv
  BY <1>3 DEF Lineage
<1>5. ASSUME NEW n \in Brokers, ClientStep(n) PROVE LineageInv'
  BY <1>1, <1>3, <1>4, <1>5, PublishLineage, DuplicateLineage, FailsLineage, CancelLineage DEF ClientStep
<1>6. ASSUME NEW n \in Brokers,
             LaneStep(n) \/ ApplyEntry(n) \/ BuildProof(n) \/ ScanStep(n) \/ RecoveryStep(n)
      PROVE  LineageInv'
  BY <1>1, <1>2, <1>3, <1>4, <1>6, LaneLineage, ApplyLineage, OtherLineage
<1>7. CASE ReplicaStep
  BY <1>1, <1>4, <1>7, ReplicaLineage DEF ReplicaStep
<1>8. CASE RaftStep
  <2>1. ASSUME NEW i \in Larger(1, Len(metaLog) - MaxISRLag)..Len(metaLog),
               NEW alive \in SUBSET metaLog[i].isr, ComputeISR(i, alive)
        PROVE  LineageInv'
    <3>1. Len(metaLog) \in Nat /\ DOMAIN metaLog = 1..Len(metaLog)
      BY LenProperties DEF TypeInv, TypeOK
    <3>2. i \in DOMAIN metaLog
      BY <3>1, BoundsAssumption DEF Larger
    <3>3. QED
      BY <1>1, <1>2, <1>4, <2>1, <3>2, ControllerLineage
  <2>2. ASSUME NEW b \in Brokers, ElectLeader(b) PROVE LineageInv'
    BY <1>1, <1>2, <1>4, <2>2, ControllerLineage
  <2>3. AlterTopic => LineageInv'
    BY <1>1, <1>2, <1>4, OtherLineage, BrokersAssumption
  <2>4. QED
    BY <1>1, <1>2, <1>4, <1>8, <2>1, <2>2, <2>3, CommitAcceptedLineage, CommitRejectedLineage,
       CatchupLineage DEF RaftStep
<1>9. CASE UNCHANGED vars
  BY <1>1, <1>2, <1>4, <1>9, OtherLineage, BrokersAssumption
<1>10. QED
  BY <1>5, <1>6, <1>7, <1>8, <1>9 DEF Next

\* While no re-admission, catch-up scan, topic update or restart has disturbed the
\* partition, the logs of the replicas that matter are one line.
THEOREM LineageHolds == Spec => []Lineage
<1>1. Init => Lineage
  BY InitLineage DEF Lineage
<1>2. TypeInv /\ SafeInv /\ Lineage /\ [Next]_vars => Lineage'
  BY LineageNext
<1>3. QED
  BY <1>1, <1>2, Invariance, PTL DEF Spec

\* The invariant gives every member of the ISR the committed records.
LEMMA ISRComplete ==
    ASSUME TypeInv, SafeInv, LineageInv
    PROVE  ISRHoldsCommitted
<1>1. MetadataMonotone /\ CoreHolds
  BY DEF SafeInv, LineageInv, Grounds
<1>2. ASSUME NEW n \in Meta.isr PROVE HoldsCommitted(n)
  <2>1. Len(metaLog) \in DOMAIN metaLog /\ Meta = metaLog[Len(metaLog)] /\ n \in Core(Len(metaLog))
    BY <1>1, <1>2, LogFacts DEF Core
  <2>2. n \in Brokers
    BY <1>1, <2>1, LogFacts
  <2>3. Len(committed) = Meta.hwm /\ Agrees(n, Len(committed))
    BY <1>1, <2>1 DEF CoreHolds
  <2>4. /\ log[n] \in Seq(Records) /\ LEO(n) \in Nat /\ Len(committed) \in Nat
        /\ committed \in Seq(Records \cup {0})
    BY <2>2, StateFacts DEF TypeInv, TypeOK
  <2>5. Len(committed) <= Len(log[n]) /\ \A k \in 1..Len(committed) : log[n][k] = committed[k]
    BY <2>3 DEF Agrees, LEO
  <2>6. SubSeq(log[n], 1, Len(committed)) = committed
    BY <2>4, <2>5
  <2>7. QED
    BY <2>5, <2>6 DEF HoldsCommitted, LEO
<1>3. QED
  BY <1>2 DEF ISRHoldsCommitted

\* Whatever its view, a broker that believes it leads shows committed records.
LEMMA LeaderShowsCommitted ==
    ASSUME TypeInv, SafeInv, LineageInv
    PROVE  LeaderReadsCommitted
<1>1. MetadataMonotone /\ Calm /\ PreparedPast /\ CoreHolds /\ ShownOK
  BY DEF SafeInv, LineageInv, Grounds
<1>2. ASSUME NEW n \in Brokers, View(n).leader = n
      PROVE  HWM[n] <= Len(committed) /\ \A k \in 1..HWM[n] : log[n][k] = committed[k]
  <2>1. applied[n] \in DOMAIN metaLog /\ applied[n] <= applied[n] /\ metaLog[applied[n]].leader = n
    BY <1>1, <1>2, ViewFacts, StateFacts
  <2>2. MayLead(n)
    BY <2>1 DEF MayLead
  <2>3. PICK i \in DOMAIN metaLog : n \in Core(i) /\ HWM[n] <= metaLog[i].hwm
    BY <1>1, <2>2 DEF ShownOK, Trusted
  <2>4. Agrees(n, metaLog[i].hwm) /\ metaLog[i].hwm \in Nat
    BY <1>1, <2>3, LogFacts DEF CoreHolds
  <2>5. HWM[n] \in Nat /\ Len(committed) \in Nat
    BY StateFacts
  <2>6. QED
    BY <2>3, <2>4, <2>5 DEF Agrees
<1>3. QED
  BY <1>2 DEF LeaderReadsCommitted

\* In an undisturbed partition only preparation cuts a log.
LEMMA OnlyPreparationCuts ==
    ASSUME TypeInv, TypeInv', SafeInv, LineageInv, Undisturbed', [Next]_vars
    PROVE  \A n \in Brokers : log'[n] = log[n] \/ Len(PreparedLog(n)) <= Len(log'[n])
<1>1. MetadataMonotone /\ Calm /\ PreparedPast /\ CoreHolds
  BY DEF SafeInv, LineageInv, Grounds
<1>2. \A n \in Brokers : PreparedLog(n) \in Seq(Records) /\ Len(PreparedLog(n)) \in Nat
  BY <1>1, PreparedFacts
<1>4. ASSUME NEW n \in Brokers, NEW acks \in AckModes, Publish(n, acks)
      PROVE  \A b \in Brokers : log'[b] = log[b] \/ Len(PreparedLog(b)) <= Len(log'[b])
  <2>1. PICK r : r = used["record"] + 1
    OBVIOUS
  <2>2. PICK l : l = Append(PreparedLog(n), r)
    OBVIOUS
  <2>3. log' = [log EXCEPT ![n] = l]
    BY <1>4, <2>1, <2>2 DEF Publish
  <2>4. Len(l) = Len(PreparedLog(n)) + 1
    BY <1>2, <2>2
  <2>5. log'[n] = l /\ \A b \in Brokers \ {n} : log'[b] = log[b]
    BY <2>3 DEF TypeInv, TypeOK
  <2>6. QED
    BY <1>2, <2>4, <2>5
<1>5. ASSUME NEW n \in Brokers,
             \/ \E k \in 1..LEO(n) : PublishDuplicate(n, k)
             \/ \E acks \in AckModes : PublishFails(n, acks)
      PROVE  \A b \in Brokers : log'[b] = log[b] \/ Len(PreparedLog(b)) <= Len(log'[b])
  <2>1. log' = [log EXCEPT ![n] = PreparedLog(n)]
    BY <1>5 DEF PublishDuplicate, PublishFails
  <2>2. log'[n] = PreparedLog(n) /\ \A b \in Brokers \ {n} : log'[b] = log[b]
    BY <2>1 DEF TypeInv, TypeOK
  <2>3. QED
    BY <1>2, <2>2
<1>6. ASSUME NEW n \in Brokers, ClientStep(n)
      PROVE  \A b \in Brokers : log'[b] = log[b] \/ Len(PreparedLog(b)) <= Len(log'[b])
  <2>1. ClientCancel(n) => UNCHANGED log
    BY DEF ClientCancel
  <2>2. QED
    BY <1>4, <1>5, <1>6, <2>1 DEF ClientStep
<1>7. ASSUME NEW m \in net, ReplicaAppend(m) \/ ReplicaReject(m) \/ ReplicaFence(m)
      PROVE  \A b \in Brokers : log'[b] = log[b] \/ Len(PreparedLog(b)) <= Len(log'[b])
  <2>1. PICK n \in Brokers : n = m.to
    BY RequestFacts
  <2>2. CASE ReplicaFence(m)
    BY <2>2 DEF ReplicaFence
  <2>3. ASSUME ReplicaAppend(m) \/ ReplicaReject(m)
        PROVE  \A b \in Brokers : log'[b] = log[b] \/ Len(PreparedLog(b)) <= Len(log'[b])
    <3>1. PICK l : l = IF ReplicaAppend(m) THEN Appended(PreparedLog(n), m) ELSE PreparedLog(n)
      OBVIOUS
    <3>2. Moves(n, l) /\ Gains(n, l)
      BY <2>1, <2>3, <3>1, FollowerMoves
    <3>3. /\ log'[n] = l /\ Len(PreparedLog(n)) <= Len(l)
          /\ \A b \in Brokers \ {n} : log'[b] = log[b]
      BY <1>1, <3>2, MoveFacts
    <3>4. QED
      BY <3>3
  <2>4. QED
    BY <1>7, <2>2, <2>3
<1>8. ASSUME NEW n \in Brokers,
             LaneStep(n) \/ BuildProof(n) \/ ApplyEntry(n) \/ ScanStep(n) \/ RecoveryStep(n)
      PROVE  UNCHANGED log
  <2>1. LaneStep(n) => UNCHANGED log
    BY DEF LaneStep, LaneFenced, LaneLeaderOutOfISR, LaneStart, LaneBarrier, LaneSend,
       LaneTimeout, LanePropose, LaneCommitted, LaneFinish, LaneUnchanged
  <2>2. BuildProof(n) => UNCHANGED log
    BY DEF BuildProof, brokerVars
  <2>3. ApplyEntry(n) => UNCHANGED log
    <3>1. ASSUME ApplyEntry(n) PROVE metaLog[applied[n] + 1].kind # "topic"
      <4>1. applied[n] \in 1..Len(metaLog) /\ applied[n] < Len(metaLog)
        BY <1>1, <3>1, ViewFacts, LogFacts DEF ApplyEntry
      <4>2. applied[n] + 1 \in DOMAIN metaLog /\ applied[n] + 1 > 1
        BY <1>1, <4>1, LogFacts
      <4>3. QED
        BY <1>1, <4>2 DEF Calm
    <3>2. QED
      BY <3>1 DEF ApplyEntry
  <2>4. used \in [Events -> Nat] /\ {"scan", "restart"} \subseteq Events
    BY DEF TypeInv, TypeOK, Events
  <2>5. ~ScanStep(n)
    <3>1. scan[n].phase = "idle"
      BY <1>1 DEF Calm
    <3>2. ~ScanCopy(n)
      BY <2>4 DEF ScanCopy, Count, Undisturbed
    <3>3. QED
      BY <3>1, <3>2 DEF ScanStep, ScanDecide, ScanReconcile, ScanFetch, ScanApply, ScanAbort
  <2>6. RecoveryStep(n) => UNCHANGED log
    BY <1>1, <2>4 DEF RecoveryStep, TakeSnapshot, Restart, FinishRecovery, Calm, Count, Undisturbed
  <2>7. QED
    BY <1>8, <2>1, <2>2, <2>3, <2>5, <2>6
<1>9. RaftStep => UNCHANGED log
  BY Zenon DEF RaftStep, CommitAccepted, CommitRejected, ComputeISR, ElectLeader, ISRCatchup, AlterTopic,
     FSMUnchanged
<1>10. UNCHANGED vars => UNCHANGED log
  BY DEF vars
<1>11. QED
  BY <1>6, <1>7, <1>8, <1>9, <1>10 DEF Next, ReplicaStep

\* What preparation cuts was not committed.
LEMMA CutsUncommitted ==
    ASSUME TypeInv, TypeInv', SafeInv, LineageInv, Undisturbed', [Next]_vars,
           NEW n \in Brokers, NEW k \in 1..LEO(n), k > Len(log'[n])
    PROVE  k > Meta.hwm \/ log[n][k] # committed[k]
<1>1. MetadataMonotone /\ Calm /\ PreparedPast /\ CoreHolds /\ LogOK
  BY DEF SafeInv, LineageInv, Grounds
<1>2. LEO(n) \in Nat /\ Len(log'[n]) \in Nat /\ Len(committed) \in Nat
  BY StateFacts, LenProperties DEF TypeInv, TypeOK
<1>3. Len(PreparedLog(n)) <= Len(log'[n]) /\ Len(PreparedLog(n)) \in Nat
  <2>1. log'[n] # log[n]
    BY <1>2 DEF LEO
  <2>2. QED
    BY <1>1, <2>1, OnlyPreparationCuts, PreparedFacts
<1>4. Len(PreparedLog(n)) < LEO(n) /\ Len(PreparedLog(n)) < k
  BY <1>2, <1>3
<1>5. prepared[n].epoch < View(n).epoch /\ View(n).hwm < k
  BY <1>1, <1>4, PreparedFacts
<1>6. applied[n] \in DOMAIN metaLog /\ View(n) = metaLog[applied[n]]
  BY <1>1, ViewFacts
<1>7. Lost(prepared[n].epoch, k, log[n][k])
  BY <1>1 DEF LogOK
<1>8. /\ prepared[n].epoch \in Nat /\ metaLog[applied[n]].epoch \in Nat
  BY <1>1, <1>6, StateFacts, LogFacts
<1>9. k <= Len(committed) => committed[k] # log[n][k]
  BY <1>5, <1>6, <1>7, <1>8 DEF Lost
<1>10. Len(committed) = Meta.hwm
  BY <1>1 DEF CoreHolds
<1>11. QED
  BY <1>2, <1>9, <1>10

-----------------------------------------------------------------------------
(* Refinement of the committed log.                                        *)

\* The abstract log is what the accepted commits covered.
LEMMA MappedLog ==
    ASSUME TypeInv, SafeInv, LineageInv
    PROVE  LeaderCommitted = committed
<1>1. MetadataMonotone /\ CoreHolds
  BY DEF SafeInv, LineageInv, Grounds
<1>2. PICK L : L = Meta.leader
  OBVIOUS
<1>3. Len(metaLog) \in DOMAIN metaLog /\ Meta = metaLog[Len(metaLog)] /\ L \in Core(Len(metaLog))
  BY <1>1, <1>2, LogFacts DEF Core
<1>4. L \in Brokers
  BY <1>1, <1>3, LogFacts
<1>5. Len(committed) = Meta.hwm /\ Agrees(L, Len(committed))
  BY <1>1, <1>3 DEF CoreHolds
<1>6. /\ log[L] \in Seq(Records) /\ LEO(L) = Len(log[L]) /\ Len(committed) \in Nat /\ LEO(L) \in Nat
      /\ committed \in Seq(Records \cup {0})
  BY <1>4, StateFacts DEF TypeInv, TypeOK, LEO
<1>7. Len(committed) <= Len(log[L]) /\ \A k \in 1..Len(committed) : log[L][k] = committed[k]
  BY <1>5, <1>6 DEF Agrees
<1>8. SubSeq(log[L], 1, Len(committed)) = committed
  BY <1>6, <1>7
<1>9. LeaderCommitted = SubSeq(log[L], 1, Len(committed))
  BY <1>2, <1>5, <1>6, <1>7 DEF LeaderCommitted, Smaller
<1>10. QED
  BY <1>8, <1>9

\* An accepted commit prolongs what was committed.
LEMMA CommitProlongs ==
    ASSUME TypeInv, TypeInv', NEW c \in cmds, CommitAccepted(c)
    PROVE  /\ UNCHANGED acked
           /\ \/ UNCHANGED committed
              \/ Len(committed') > Len(committed) /\ SubSeq(committed', 1, Len(committed)) = committed
<1>1. c \in Commits /\ c.hwm \in Nat \ {0} /\ Len(committed) \in Nat /\ committed \in Seq(Records \cup {0})
  BY StateFacts DEF TypeInv, TypeOK, Commits
<1>2. CASE c.hwm > Len(committed)
  <2>1. committed' = Covered(c)
    BY <1>2 DEF CommitAccepted
  <2>2. committed' \in Seq(Records \cup {0}) /\ Len(committed') = c.hwm
    BY <1>1, <2>1, CoveredType
  <2>3. ASSUME NEW k \in 1..Len(committed) PROVE committed'[k] = committed[k]
    <3>1. k \in 1..c.hwm /\ k <= Len(committed)
      BY <1>1, <1>2
    <3>2. QED
      BY <2>1, <3>1 DEF Covered
  <2>4. SubSeq(committed', 1, Len(committed)) = committed
    BY <1>1, <1>2, <2>2, <2>3
  <2>5. QED
    BY <1>2, <2>2, <2>4 DEF CommitAccepted
<1>3. CASE ~(c.hwm > Len(committed))
  BY <1>3 DEF CommitAccepted
<1>4. QED
  BY <1>2, <1>3

\* An answer under acks=all names the record committed at its offset.
LEMMA FinishAcknowledges ==
    ASSUME TypeInv, SafeInv, LineageInv, NEW n \in Brokers, LaneFinish(n)
    PROVE  /\ UNCHANGED committed
           /\ \/ UNCHANGED acked
              \/ \E k \in DOMAIN committed : acked' = acked \cup {<<committed[k], k>>}
<1>1. LaneOK /\ lane[n] # <<>>
  BY DEF LineageInv, WorkOK, LaneFinish, AtHead
<1>2. PICK t \in Tasks : t = Head(lane[n]) /\ TaskOK(n, t)
  BY <1>1, HeadOK
<1>3. /\ UNCHANGED committed /\ t.pc = "finish"
      /\ acked' = IF t.waiting THEN acked \cup {<<t.rec, t.hwm>>} ELSE acked
  BY <1>2 DEF LaneFinish, LaneUnchanged, AtHead
<1>4. t.hwm <= Len(committed) /\ committed[t.hwm] = t.rec /\ t.hwm \in Nat \ {0}
  BY <1>2, <1>3 DEF TaskOK, TaskDone, PastCommit, Tasks
<1>5. t.hwm \in DOMAIN committed
  BY <1>4, StateFacts
<1>6. QED
  BY <1>3, <1>4, <1>5

\* Every other step leaves the abstract state alone.
LEMMA AbstractStutters ==
    ASSUME [Next]_vars,
           \A n \in Brokers : ~LaneFinish(n), \A c \in cmds : ~CommitAccepted(c)
    PROVE  UNCHANGED <<committed, acked>>
<1>1. ASSUME NEW n \in Brokers,
             ClientStep(n) \/ LaneStep(n) \/ ApplyEntry(n) \/ BuildProof(n) \/ ScanStep(n) \/ RecoveryStep(n)
      PROVE  UNCHANGED <<committed, acked>>
  <2>1. CASE ClientStep(n)
    BY <2>1 DEF ClientStep, Publish, PublishDuplicate, PublishFails, ClientCancel
  <2>2. CASE LaneStep(n)
    BY <2>2 DEF LaneStep, LaneFenced, LaneLeaderOutOfISR, LaneStart, LaneBarrier, LaneSend,
       LaneTimeout, LanePropose, LaneCommitted, LaneUnchanged
  <2>3. CASE ApplyEntry(n) \/ BuildProof(n)
    BY <2>3 DEF ApplyEntry, BuildProof
  <2>4. CASE ScanStep(n)
    BY <2>4 DEF ScanStep, ScanCopy, ScanDecide, ScanReconcile, ScanFetch, ScanApply, ScanAbort,
       ScanUnchanged
  <2>5. CASE RecoveryStep(n)
    BY <2>5 DEF RecoveryStep, TakeSnapshot, Restart, FinishRecovery
  <2>6. QED
    BY <1>1, <2>1, <2>2, <2>3, <2>4, <2>5
<1>2. CASE ReplicaStep
  BY <1>2 DEF ReplicaStep, ReplicaAppend, ReplicaReject, ReplicaFence, FollowerUnchanged
<1>3. CASE RaftStep
  BY <1>3, Zenon DEF RaftStep, CommitRejected, ComputeISR, ElectLeader, ISRCatchup, AlterTopic
<1>4. CASE UNCHANGED vars
  BY <1>4 DEF vars
<1>5. QED
  BY <1>1, <1>2, <1>3, <1>4 DEF Next

\* Every step maps to a commit, to an acknowledgement or to a stutter.
LEMMA StepSimulates ==
    ASSUME TypeInv, TypeInv', SafeInv, LineageInv, [Next]_vars,
           LeaderCommitted = committed, (LeaderCommitted = committed)'
    PROVE  Abstract!Next \/ UNCHANGED <<LeaderCommitted, acked>>
<1>1. LeaderCommitted = committed /\ LeaderCommitted' = committed'
  OBVIOUS
<1>2. ASSUME NEW c \in cmds, CommitAccepted(c)
      PROVE  Abstract!Next \/ UNCHANGED <<LeaderCommitted, acked>>
  BY <1>1, <1>2, CommitProlongs DEF Abstract!Next, Abstract!Commit
<1>3. ASSUME NEW n \in Brokers, LaneFinish(n)
      PROVE  Abstract!Next \/ UNCHANGED <<LeaderCommitted, acked>>
  BY <1>1, <1>3, FinishAcknowledges DEF Abstract!Next, Abstract!Acknowledge
<1>4. QED
  BY <1>1, <1>2, <1>3, AbstractStutters

-----------------------------------------------------------------------------
(* The theorems.                                                           *)

\* While the partition is undisturbed every member of the ISR, hence every broker
\* that ComputeISR or an administrator may make leader, holds every committed record.
THEOREM ISRNeverMissesCommitted == Spec => [](Undisturbed => ISRHoldsCommitted)
<1>1. TypeInv /\ SafeInv /\ Lineage => (Undisturbed => ISRHoldsCommitted)
  BY ISRComplete DEF Lineage
<1>2. QED
  BY <1>1, Invariance, LineageHolds, PTL

\* While the partition is undisturbed a broker that believes it leads, deposed or
\* not, shows consumers only what was committed.
THEOREM LeadersShowCommitted == Spec => [](Undisturbed => LeaderReadsCommitted)
<1>1. TypeInv /\ SafeInv /\ Lineage => (Undisturbed => LeaderReadsCommitted)
  BY LeaderShowsCommitted DEF Lineage
<1>2. QED
  BY <1>1, Invariance, LineageHolds, PTL

\* In an undisturbed partition ReconcileCommittedHWM cuts no committed record.
THEOREM CutsOnlyUncommitted == Spec /\ []Undisturbed => TruncatesOnlyUncommitted
<1>1. /\ TypeInv /\ SafeInv /\ Lineage /\ Undisturbed /\ Undisturbed' /\ [Next]_vars
      => [\A n \in Brokers : \A k \in 1..LEO(n) :
             k > Len(log'[n]) => k > Meta.hwm \/ log[n][k] # committed[k]]_vars
  <2>1. SUFFICES ASSUME TypeInv, SafeInv, Lineage, Undisturbed, Undisturbed', [Next]_vars,
                        NEW n \in Brokers, NEW k \in 1..LEO(n), k > Len(log'[n])
                 PROVE  k > Meta.hwm \/ log[n][k] # committed[k]
    OBVIOUS
  <2>2. TypeInv' /\ LineageInv
    BY <2>1, SafeNext DEF Lineage
  <2>3. QED
    BY <2>1, <2>2, CutsUncommitted
<1>2. QED
  BY <1>1, Invariance, LineageHolds, PTL DEF Spec, TruncatesOnlyUncommitted

\* An undisturbed partition implements one committed log that only grows, whose
\* acks=all responses name the record committed at the acknowledged offset.
THEOREM CommittedLogRefined == Spec /\ []Undisturbed => ImplementsCommittedLog
<1>1. Init => Abstract!Init
  <2>1. SUFFICES ASSUME Init PROVE LeaderCommitted = <<>> /\ acked = {}
    BY DEF Abstract!Init
  <2>2. TypeInv /\ SafeInv /\ LineageInv
    BY <2>1, InitType, InitSafe, InitLineage
  <2>3. QED
    BY <2>1, <2>2, MappedLog DEF Init
<1>2. TypeInv /\ SafeInv /\ Lineage /\ Undisturbed => LeaderCommitted = committed
  BY MappedLog DEF Lineage
<1>3. /\ TypeInv /\ SafeInv /\ Lineage /\ Undisturbed /\ LeaderCommitted = committed
      /\ (TypeInv /\ SafeInv)' /\ (LeaderCommitted = committed)' /\ [Next]_vars
      => [Abstract!Next]_<<LeaderCommitted, acked>>
  BY StepSimulates DEF Lineage
<1>4. QED
  BY <1>1, <1>2, <1>3, Invariance, LineageHolds, PTL DEF Spec, ImplementsCommittedLog, Abstract!Spec

=============================================================================
