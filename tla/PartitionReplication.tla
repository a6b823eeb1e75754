------------------------ MODULE PartitionReplication ------------------------
(***************************************************************************)
(* Replication of one partition of a distributed topic: the leader's       *)
(* append and its ordered replication lane (pkg/controller), the Raft FSM  *)
(* that holds the partition metadata (pkg/cluster/replication/fsm), the    *)
(* ISR manager that shrinks the ISR and fails over, the followers' append, *)
(* catch-up and ISR re-admission, and broker restarts.                     *)
(*                                                                         *)
(* Raft itself is external.  It is a sequence of committed commands that   *)
(* every broker applies in order at its own pace: metaLog[i] is the        *)
(* partition metadata after the i-th command, applied[n] the number of     *)
(* commands broker n has applied, so that n acts on the possibly stale     *)
(* view metaLog[applied[n]].                                               *)
(*                                                                         *)
(* Offsets: log[n][k] is the record at offset k - 1, hence Len(log[n]) is  *)
(* the log end offset LEO, and a high watermark h covers log[n][1..h].     *)
(***************************************************************************)
EXTENDS Integers, Sequences, FiniteSets

CONSTANTS
    Brokers,        \* the replica set; a set of naturals, ordered as sort.Strings orders IDs
    FirstLeader,    \* the replica the topic command assigns as first leader
    MinISR,         \* effective min_in_sync_replicas
    AckModes,       \* the acks modes producers use, a subset of {"1", "all"}
    LaneCapacity,   \* slots of a partition's replication lane
    MaxRecords,     \* bound: records published in a behaviour
    MaxMeta,        \* bound: Raft commands in a behaviour
    MaxISRLag,      \* bound: commands between ComputeISR's read and its own command
    MaxProofs,      \* bound: ISR catch-up proofs built in a behaviour
    MaxScans,       \* bound: catch-up scans in a behaviour
    MaxAlters,      \* bound: topic definition updates in a behaviour
    MaxRestarts,    \* bound: broker restarts in a behaviour
    MaxDuplicates   \* bound: idempotent retries of a record that was appended

ASSUME BrokersAssumption == Brokers \subseteq Nat /\ IsFiniteSet(Brokers) /\ FirstLeader \in Brokers
ASSUME BoundsAssumption ==
    /\ MinISR \in Nat /\ LaneCapacity \in Nat /\ MaxRecords \in Nat /\ MaxMeta \in Nat
    /\ MaxISRLag \in Nat
    /\ MaxProofs \in Nat /\ MaxScans \in Nat /\ MaxAlters \in Nat /\ MaxRestarts \in Nat
    /\ MaxDuplicates \in Nat
    /\ AckModes \subseteq {"1", "all"}

VARIABLES
    metaLog,        \* partition metadata after each committed Raft command
    applied,        \* [Brokers -> Nat], commands applied by each broker's FSM
    log,            \* [Brokers -> Seq(Records)], durable local logs
    HWM,            \* [Brokers -> Nat], local high watermarks
    prepared,       \* [Brokers -> Fences], partitionPreparedEpochs (in memory)
    lane,           \* [Brokers -> Seq(Tasks)], replication lanes
    net,            \* REPLICATE_MESSAGE requests in flight
    cmds,           \* PARTITION_COMMIT commands proposed and not yet in the Raft log
    proofs,         \* ISR catch-up proofs in flight (heartbeats)
    scan,           \* [Brokers -> scan state], the catch-up goroutine
    snapshot,       \* [Brokers -> Nat], applied index of the newest Raft snapshot, 0 for none
    replayTarget,   \* [Brokers -> Nat], index to replay to before serving, 0 when recovered
    used,           \* how often each bounded event happened
    committed,      \* history: the record each accepted commit covered
    acked,          \* history: <<record, offset + 1>> pairs acknowledged under acks=all
    dupAcked        \* history: the same for retries answered as duplicates

vars == <<metaLog, applied, log, HWM, prepared, lane, net, cmds, proofs, scan,
          snapshot, replayTarget, used, committed, acked, dupAcked>>

brokerVars == <<applied, log, HWM, prepared, lane, scan, snapshot, replayTarget>>

Records  == 1..MaxRecords
NoFence  == [leader |-> 0, epoch |-> 0]
Fences   == [leader : Brokers, epoch : Nat \ {0}] \cup {NoFence}
Metadata == [kind : {"topic", "partition", "commit", "isr", "election"},
             leader : Brokers, epoch : Nat \ {0}, isr : SUBSET Brokers, hwm : Nat]
Tasks    == [rec : Records, hwm : Nat \ {0}, epoch : Nat \ {0}, isr : SUBSET Brokers,
             acks : {"1", "all"}, waiting : BOOLEAN, barrier : BOOLEAN, todo : SUBSET Brokers,
             pc : {"start", "send", "wait", "committing", "committed", "finish"}]
Requests == [to : Brokers, leader : Brokers, epoch : Nat \ {0}, rec : Records,
             hwm : Nat \ {0}, commit : BOOLEAN]
Commits  == [leader : Brokers, epoch : Nat \ {0}, rec : Records, hwm : Nat \ {0}]
Proofs   == [broker : Brokers, hwm : Nat, epoch : Nat \ {0}]
Scans    == [phase : {"idle", "copied", "reconcile", "request", "batch"},
             meta : Metadata, next : Nat, recs : Seq(Records)]
Events   == {"record", "duplicate", "proof", "scan", "alter", "restart"}

Minimum(S) == CHOOSE b \in S : \A c \in S : b <= c
Larger(a, b) == IF a >= b THEN a ELSE b
Smaller(a, b) == IF a <= b THEN a ELSE b

\* The authoritative metadata, and the view of it broker n acts on.
Meta == metaLog[Len(metaLog)]
View(n) == metaLog[applied[n]]
LEO(n) == Len(log[n])

\* A broker serves requests once the topic is materialised and recovery is over.
Serving(n) == applied[n] > 0 /\ replayTarget[n] = 0

\* partitionWriteLock is held by an acks=all publish until its response.
Locked(n) == \E i \in DOMAIN lane[n] : lane[n][i].waiting

Count(e) == used' = [used EXCEPT ![e] = @ + 1]

IdleScan == [phase |-> "idle", meta |-> metaLog[1], next |-> 0, recs |-> <<>>]

Init ==
    /\ metaLog = <<[kind |-> "topic", leader |-> FirstLeader, epoch |-> 1,
                    isr |-> Brokers, hwm |-> 0]>>
    /\ applied = [n \in Brokers |-> 1]
    /\ log = [n \in Brokers |-> <<>>]
    /\ HWM = [n \in Brokers |-> 0]
    /\ prepared = [n \in Brokers |-> NoFence]
    /\ lane = [n \in Brokers |-> <<>>]
    /\ net = {} /\ cmds = {} /\ proofs = {}
    /\ scan = [n \in Brokers |-> IdleScan]
    /\ snapshot = [n \in Brokers |-> 0]
    /\ replayTarget = [n \in Brokers |-> 0]
    /\ used = [e \in Events |-> 0]
    /\ committed = <<>>
    /\ acked = {} /\ dupAcked = {}

-----------------------------------------------------------------------------
(* Leader: preparation, append and submission to the lane.                 *)

\* Variant: the fence of the previous epoch.
PreviousFence(m) == [leader |-> m.leader, epoch |-> m.epoch - 1]

FenceOf(m) == [leader |-> m.leader, epoch |-> m.epoch]

\* Variant: every request reconciles, prepared fences are not remembered.
AlwaysUnprepared(n) == LEO(n) >= View(n).hwm

\* The first request under a new (leader, epoch) fence reconciles the local log
\* with the committed HWM of the local view: ReconcileCommittedHWM truncates a
\* longer log and sets the local HWM to the boundary.
Unprepared(n) == prepared[n] # FenceOf(View(n)) /\ LEO(n) >= View(n).hwm
PreparedLog(n) == IF Unprepared(n) THEN SubSeq(log[n], 1, View(n).hwm) ELSE log[n]

\* Variant: preparation makes the whole local log visible.
WholeLogVisible(n) == IF Unprepared(n) THEN View(n).hwm ELSE LEO(n)

PreparedHWM(n) == IF Unprepared(n) THEN View(n).hwm ELSE HWM[n]

CanLead(n, acks) ==
    /\ Serving(n) /\ ~Locked(n)
    /\ View(n).leader = n /\ n \in View(n).isr
    /\ acks = "all" => Cardinality(View(n).isr) >= MinISR
    /\ prepared[n] # FenceOf(View(n)) => LEO(n) >= View(n).hwm

NewTask(n, acks, rec, hwm, barrier) ==
    [rec |-> rec, hwm |-> hwm, epoch |-> View(n).epoch, isr |-> View(n).isr, acks |-> acks,
     waiting |-> acks = "all", barrier |-> barrier, todo |-> {}, pc |-> "start"]

Publish(n, acks) ==
    /\ CanLead(n, acks)
    /\ Len(lane[n]) < LaneCapacity
    /\ used["record"] < MaxRecords
    /\ LET rec == used["record"] + 1
           l == Append(PreparedLog(n), rec)
       IN  /\ log' = [log EXCEPT ![n] = l]
           /\ lane' = [lane EXCEPT ![n] = Append(@, NewTask(n, acks, rec, Len(l), FALSE))]
    /\ HWM' = [HWM EXCEPT ![n] = PreparedHWM(n)]
    /\ prepared' = [prepared EXCEPT ![n] = FenceOf(View(n))]
    /\ Count("record")
    /\ UNCHANGED <<metaLog, applied, net, cmds, proofs, scan, snapshot, replayTarget,
                   committed, acked, dupAcked>>

\* An idempotent retry of a record the log holds at offset k - 1: nothing is
\* appended, and a barrier task in the lane answers once what is queued before it
\* has left the lane.
PublishDuplicate(n, k) ==
    /\ CanLead(n, "all")
    /\ Len(lane[n]) < LaneCapacity
    /\ used["duplicate"] < MaxDuplicates
    /\ k \in DOMAIN PreparedLog(n)
    /\ log' = [log EXCEPT ![n] = PreparedLog(n)]
    /\ lane' = [lane EXCEPT ![n] = Append(@, NewTask(n, "all", PreparedLog(n)[k], k, TRUE))]
    /\ HWM' = [HWM EXCEPT ![n] = PreparedHWM(n)]
    /\ prepared' = [prepared EXCEPT ![n] = FenceOf(View(n))]
    /\ Count("duplicate")
    /\ UNCHANGED <<metaLog, applied, net, cmds, proofs, scan, snapshot, replayTarget,
                   committed, acked, dupAcked>>

\* Preparation succeeds and the request then fails: no lane slot before the
\* request is cancelled, or the disk refuses the append.
PublishFails(n, acks) ==
    /\ CanLead(n, acks)
    /\ prepared[n] # FenceOf(View(n))
    /\ log' = [log EXCEPT ![n] = PreparedLog(n)]
    /\ HWM' = [HWM EXCEPT ![n] = PreparedHWM(n)]
    /\ prepared' = [prepared EXCEPT ![n] = FenceOf(View(n))]
    /\ UNCHANGED <<metaLog, applied, lane, net, cmds, proofs, scan, snapshot, replayTarget,
                   used, committed, acked, dupAcked>>

\* The client gives up: the request ends and frees the lock, the task goes on.
ClientCancel(n) ==
    /\ Locked(n)
    /\ lane' = [lane EXCEPT ![n] = [i \in DOMAIN @ |-> [@[i] EXCEPT !.waiting = FALSE]]]
    /\ UNCHANGED <<metaLog, applied, log, HWM, prepared, net, cmds, proofs, scan, snapshot,
                   replayTarget, used, committed, acked, dupAcked>>

-----------------------------------------------------------------------------
(* The lane worker: one task at a time, retried until it is committed or    *)
(* fenced.  An error is reported to the client once.                        *)

AtHead(n, pc) == lane[n] # <<>> /\ Head(lane[n]).pc = pc
SetHead(n, t) == lane' = [lane EXCEPT ![n] = <<t>> \o Tail(@)]
DropHead(n) == lane' = [lane EXCEPT ![n] = Tail(@)]
Failed(t) == [t EXCEPT !.pc = "start", !.todo = {}, !.waiting = FALSE]

\* The three points where the worker takes a snapshot of the local view.
AtSnapshot(n) ==
    \/ AtHead(n, "start")
    \/ AtHead(n, "send") /\ Head(lane[n]).todo = {}
    \/ AtHead(n, "finish")

\* GetPartitionReplicationSnapshot and sameReplicationFence.
Fenced(n) ==
    \/ View(n).leader # n
    \/ n \in View(n).isr /\ View(n).epoch # Head(lane[n]).epoch
InFence(n) == View(n).leader = n /\ n \in View(n).isr /\ View(n).epoch = Head(lane[n]).epoch

LaneUnchanged == UNCHANGED <<metaLog, applied, log, HWM, prepared, proofs, scan, snapshot,
                             replayTarget, used, committed>>

LaneFenced(n) ==
    /\ AtSnapshot(n) /\ Fenced(n)
    /\ DropHead(n)
    /\ LaneUnchanged /\ UNCHANGED <<net, cmds, acked, dupAcked>>

LaneLeaderOutOfISR(n) ==
    /\ AtSnapshot(n) /\ ~Fenced(n) /\ ~InFence(n)
    /\ SetHead(n, Failed(Head(lane[n])))
    /\ LaneUnchanged /\ UNCHANGED <<net, cmds, acked, dupAcked>>

\* Variant: a task with acks=1 does not wait for the in-sync followers.
LaneStartWeak(n) ==
    /\ AtHead(n, "start") /\ InFence(n) /\ ~Head(lane[n]).barrier
    /\ LET t == Head(lane[n])
           isr == IF t.acks = "all" THEN t.isr ELSE View(n).isr
       IN  SetHead(n, [t EXCEPT !.pc = "send", !.isr = isr,
                                !.todo = IF t.acks = "all" THEN isr \ {n} ELSE {}])
    /\ LaneUnchanged /\ UNCHANGED <<net, cmds, acked, dupAcked>>

LaneStart(n) ==
    /\ AtHead(n, "start") /\ InFence(n) /\ ~Head(lane[n]).barrier
    /\ LET t == Head(lane[n])
           isr == IF t.acks = "all" THEN t.isr ELSE View(n).isr
       IN  SetHead(n, [t EXCEPT !.pc = "send", !.isr = isr, !.todo = isr \ {n}])
    /\ LaneUnchanged /\ UNCHANGED <<net, cmds, acked, dupAcked>>

\* A barrier at the head has nothing to replicate or to commit.
LaneBarrier(n) ==
    /\ AtHead(n, "start") /\ InFence(n) /\ Head(lane[n]).barrier
    /\ LET t == Head(lane[n])
       IN  dupAcked' = IF t.waiting THEN dupAcked \cup {<<t.rec, t.hwm>>} ELSE dupAcked
    /\ DropHead(n)
    /\ LaneUnchanged /\ UNCHANGED <<net, cmds, acked>>

\* Variant: a request carries its watermark before the commit.
EarlyCommitRequest(n, t, b, commit) ==
    [to |-> b, leader |-> n, epoch |-> t.epoch, rec |-> t.rec, hwm |-> t.hwm, commit |-> TRUE]

RequestOf(n, t, b, commit) ==
    [to |-> b, leader |-> n, epoch |-> t.epoch, rec |-> t.rec, hwm |-> t.hwm, commit |-> commit]

LaneSend(n) ==
    /\ AtHead(n, "send") /\ Head(lane[n]).todo # {}
    /\ LET t == Head(lane[n])
       IN  /\ net' = net \cup {RequestOf(n, t, Minimum(t.todo), FALSE)}
           /\ SetHead(n, [t EXCEPT !.pc = "wait"])
    /\ LaneUnchanged /\ UNCHANGED <<cmds, acked, dupAcked>>

\* Variant: a commit that timed out counts as applied.
LaneTimeoutCommits(n) ==
    /\ AtHead(n, "wait") \/ AtHead(n, "committing")
    /\ SetHead(n, IF AtHead(n, "wait") THEN Failed(Head(lane[n]))
                  ELSE [Head(lane[n]) EXCEPT !.pc = "committed"])
    /\ LaneUnchanged /\ UNCHANGED <<net, cmds, acked, dupAcked>>

\* A replica RPC or a Raft apply times out; what was sent may still happen.
LaneTimeout(n) ==
    /\ AtHead(n, "wait") \/ AtHead(n, "committing")
    /\ SetHead(n, Failed(Head(lane[n])))
    /\ LaneUnchanged /\ UNCHANGED <<net, cmds, acked, dupAcked>>

CommitOf(n, t) == [leader |-> n, epoch |-> t.epoch, rec |-> t.rec, hwm |-> t.hwm]

LanePropose(n) ==
    /\ AtHead(n, "send") /\ Head(lane[n]).todo = {} /\ InFence(n)
    /\ LET t == Head(lane[n])
       IN  /\ cmds' = cmds \cup {CommitOf(n, t)}
           /\ SetHead(n, [t EXCEPT !.pc = "committing"])
    /\ LaneUnchanged /\ UNCHANGED <<net, acked, dupAcked>>

\* Variant: the watermark is raised whether or not the records are there.
RaiseUnchecked(n, h) == TRUE

\* ApplyReplicaHWM raises the watermark only over records the log holds.
CanRaise(n, h) == h <= LEO(n)

\* Commit returned: ApplyReplicaHWM fails when the record is no longer local.
LaneCommitted(n) ==
    /\ AtHead(n, "committed")
    /\ LET t == Head(lane[n])
       IN  IF CanRaise(n, t.hwm)
           THEN /\ HWM' = [HWM EXCEPT ![n] = Larger(@, t.hwm)]
                /\ SetHead(n, [t EXCEPT !.pc = "finish"])
           ELSE /\ SetHead(n, Failed(t))
                /\ UNCHANGED HWM
    /\ UNCHANGED <<metaLog, applied, log, prepared, net, cmds, proofs, scan, snapshot,
                   replayTarget, used, committed, acked, dupAcked>>

\* The task succeeded: the client is answered and the replicas outside the
\* task's ISR get one best-effort copy with the commit watermark.
LaneFinish(n) ==
    /\ AtHead(n, "finish") /\ InFence(n)
    /\ LET t == Head(lane[n])
       IN  /\ acked' = IF t.waiting THEN acked \cup {<<t.rec, t.hwm>>} ELSE acked
           /\ net' = net \cup {RequestOf(n, t, b, TRUE) : b \in Brokers \ (t.isr \cup {n})}
    /\ DropHead(n)
    /\ LaneUnchanged /\ UNCHANGED <<cmds, dupAcked>>

-----------------------------------------------------------------------------
(* Follower: REPLICATE_MESSAGE.                                            *)

\* The leader's worker still waits for the answer to m.  An answer that comes
\* after the timeout changes nothing at the leader; a lost answer is a timeout
\* taken before the request is handled.
Awaiting(m) ==
    /\ AtHead(m.leader, "wait")
    /\ LET t == Head(lane[m.leader])
       IN  m = RequestOf(m.leader, t, Minimum(t.todo), FALSE)

\* The answer replaces the task at the head of the lane by the sequence ts.
Answer(m, ts) == lane' = IF Awaiting(m) THEN [lane EXCEPT ![m.leader] = ts \o Tail(@)] ELSE lane

\* Variant: a request is accepted from the current leader whatever its epoch.
LeaderOnlyFence(n, m) == View(n).leader = m.leader

CurrentFence(n, m) == View(n).leader = m.leader /\ View(n).epoch = m.epoch

\* ReplicaAppendWithMode: a known offset must hold the same record, the next
\* offset is appended, a gap is refused.
SameRecord(l, m) == m.hwm <= Len(l) /\ l[m.hwm] = m.rec
CanAppend(l, m) == m.hwm = Len(l) + 1 \/ SameRecord(l, m)
Appended(l, m) == IF SameRecord(l, m) THEN l ELSE Append(l, m.rec)

FollowerUnchanged == UNCHANGED <<metaLog, applied, cmds, proofs, scan, snapshot, replayTarget,
                                 used, committed, acked, dupAcked>>

ReplicaAppend(m) ==
    LET n == m.to IN
    /\ Serving(n) /\ ~Locked(n) /\ CurrentFence(n, m)
    /\ CanAppend(PreparedLog(n), m)
    /\ log' = [log EXCEPT ![n] = Appended(PreparedLog(n), m)]
    /\ HWM' = [HWM EXCEPT ![n] = IF m.commit THEN Larger(PreparedHWM(n), m.hwm) ELSE PreparedHWM(n)]
    /\ prepared' = [prepared EXCEPT ![n] = FenceOf(View(n))]
    /\ net' = net \ {m}
    /\ Answer(m, <<[Head(lane[m.leader]) EXCEPT !.pc = "send", !.todo = @ \ {n}]>>)
    /\ FollowerUnchanged

\* A conflicting record or a gap: the preparation stays, the append is refused.
ReplicaReject(m) ==
    LET n == m.to IN
    /\ Serving(n) /\ ~Locked(n) /\ CurrentFence(n, m)
    /\ ~CanAppend(PreparedLog(n), m)
    /\ log' = [log EXCEPT ![n] = PreparedLog(n)]
    /\ HWM' = [HWM EXCEPT ![n] = PreparedHWM(n)]
    /\ prepared' = [prepared EXCEPT ![n] = FenceOf(View(n))]
    /\ net' = net \ {m}
    /\ Answer(m, <<Failed(Head(lane[m.leader]))>>)
    /\ FollowerUnchanged

\* The request is from another leader or epoch than the follower's view.
ReplicaFence(m) ==
    LET n == m.to IN
    /\ Serving(n) /\ ~CurrentFence(n, m)
    /\ net' = net \ {m}
    /\ Answer(m, <<>>)
    /\ UNCHANGED <<log, HWM, prepared>>
    /\ FollowerUnchanged

-----------------------------------------------------------------------------
(* The Raft FSM: commands that reach the committed log, and their local    *)
(* side effects when a broker applies them.                                *)

FSMUnchanged == UNCHANGED <<applied, log, HWM, prepared, net, scan, snapshot, replayTarget>>

RaftAppend(m) == Len(metaLog) < MaxMeta /\ metaLog' = Append(metaLog, m)

AwaitingCommit(c) ==
    AtHead(c.leader, "committing") /\ c = CommitOf(c.leader, Head(lane[c.leader]))

CommitAnswer(c, ts) ==
    lane' = IF AwaitingCommit(c) THEN [lane EXCEPT ![c.leader] = ts \o Tail(@)] ELSE lane

\* Variant: a commit is accepted from whoever sends it.
CommitUnfenced(c) == TRUE

\* applyPartitionCommitCommand fences the commit by leader and epoch.
CommitFenceHolds(c) == c.leader = Meta.leader /\ c.epoch = Meta.epoch

\* What a commit makes committed: what was, the task's own record at the end, and
\* the leader's records in between if it skips any (0 if they are gone).
Covered(c) ==
    [k \in 1..c.hwm |->
        IF k <= Len(committed) THEN committed[k]
        ELSE IF k = c.hwm THEN c.rec
        ELSE IF k <= LEO(c.leader) THEN log[c.leader][k] ELSE 0]

\* PARTITION_COMMIT.  As for replica requests, the worker may have timed out.
CommitAccepted(c) ==
    /\ CommitFenceHolds(c) /\ c.hwm >= Meta.hwm
    /\ RaftAppend([Meta EXCEPT !.kind = "commit", !.hwm = c.hwm])
    /\ committed' = IF c.hwm > Len(committed) THEN Covered(c) ELSE committed
    /\ cmds' = cmds \ {c}
    /\ CommitAnswer(c, <<[Head(lane[c.leader]) EXCEPT !.pc = "committed"]>>)
    /\ FSMUnchanged /\ UNCHANGED <<proofs, used, acked, dupAcked>>

CommitRejected(c) ==
    /\ ~(CommitFenceHolds(c) /\ c.hwm >= Meta.hwm)
    /\ cmds' = cmds \ {c}
    /\ CommitAnswer(c, IF CommitFenceHolds(c) THEN <<Failed(Head(lane[c.leader]))>> ELSE <<>>)
    /\ FSMUnchanged /\ UNCHANGED <<metaLog, proofs, used, committed, acked, dupAcked>>

\* ISRManager.ComputeISR: computed from metadata m read earlier and the set of
\* members whose heartbeat is fresh; only existing members stay.
ComputedISR(m, alive) ==
    IF m.leader \notin alive /\ alive # {}
    THEN [m EXCEPT !.kind = "partition", !.isr = alive,
                   !.leader = Minimum(alive), !.epoch = @ + 1]
    ELSE [m EXCEPT !.kind = "partition", !.isr = alive]

\* Variant: the committed HWM carried by the command is not compared.
PartitionAcceptedBlind(m) ==
    /\ m.epoch >= Meta.epoch
    /\ m.leader # Meta.leader => m.epoch > Meta.epoch

\* applyPartitionCommand's checks against the current metadata.
PartitionAccepted(m) ==
    /\ m.epoch >= Meta.epoch
    /\ m.leader # Meta.leader => m.epoch > Meta.epoch
    /\ m.hwm >= Meta.hwm

ComputeISR(i, alive) ==
    /\ alive \subseteq metaLog[i].isr
    /\ metaLog[i].leader \notin alive \/ alive # metaLog[i].isr
    /\ PartitionAccepted(ComputedISR(metaLog[i], alive))
    /\ RaftAppend(ComputedISR(metaLog[i], alive))
    /\ FSMUnchanged /\ UNCHANGED <<lane, cmds, proofs, used, committed, acked, dupAcked>>

\* LEADER_ELECTION: the admin command names the epoch it was built from.
ElectLeader(b) ==
    /\ b \in Meta.isr /\ b # Meta.leader
    /\ RaftAppend([Meta EXCEPT !.kind = "election", !.leader = b, !.epoch = @ + 1])
    /\ FSMUnchanged /\ UNCHANGED <<lane, cmds, proofs, used, committed, acked, dupAcked>>

\* TOPIC on an existing topic, or TOPIC_CONFIG: a new definition revision.
AlterTopic ==
    /\ used["alter"] < MaxAlters
    /\ RaftAppend([Meta EXCEPT !.kind = "topic"])
    /\ Count("alter")
    /\ FSMUnchanged /\ UNCHANGED <<lane, cmds, proofs, committed, acked, dupAcked>>

\* Broker n applies its next command.  A topic command materialises the
\* definition and reconciles every partition with the metadata's committed HWM,
\* unless snapshot recovery is pending; a commit raises the local HWM when the
\* records are there.
ApplyEntry(n) ==
    /\ applied[n] < Len(metaLog)
    /\ LET e == metaLog[applied[n] + 1]
           reconcile == e.kind = "topic" /\ replayTarget[n] = 0 /\ LEO(n) >= e.hwm
           raise == e.kind = "commit" /\ CanRaise(n, e.hwm)
       IN  /\ log' = IF reconcile THEN [log EXCEPT ![n] = SubSeq(@, 1, e.hwm)] ELSE log
           /\ HWM' = IF reconcile THEN [HWM EXCEPT ![n] = e.hwm]
                     ELSE IF raise THEN [HWM EXCEPT ![n] = Larger(@, e.hwm)] ELSE HWM
    /\ applied' = [applied EXCEPT ![n] = @ + 1]
    /\ UNCHANGED <<metaLog, prepared, lane, net, cmds, proofs, scan, snapshot, replayTarget,
                   used, committed, acked, dupAcked>>

-----------------------------------------------------------------------------
(* ISR re-admission: a proof built from local state, carried by a          *)
(* heartbeat, validated by the FSM when the command is applied.            *)

BuildProof(n) ==
    /\ Serving(n) /\ used["proof"] < MaxProofs
    /\ n \notin View(n).isr
    /\ LEO(n) = View(n).hwm /\ HWM[n] = View(n).hwm
    /\ proofs' = proofs \cup {[broker |-> n, hwm |-> View(n).hwm, epoch |-> View(n).epoch]}
    /\ Count("proof")
    /\ UNCHANGED <<metaLog, net, cmds, committed, acked, dupAcked>> /\ UNCHANGED brokerVars

ISRCatchup(p) ==
    /\ proofs' = proofs \ {p}
    /\ IF p.hwm = Meta.hwm /\ p.epoch = Meta.epoch /\ p.broker \notin Meta.isr
       THEN RaftAppend([Meta EXCEPT !.kind = "isr", !.isr = @ \cup {p.broker}])
       ELSE UNCHANGED metaLog
    /\ FSMUnchanged /\ UNCHANGED <<lane, cmds, used, committed, acked, dupAcked>>

-----------------------------------------------------------------------------
(* Background catch-up of a follower below the committed HWM.              *)

ScanUnchanged == UNCHANGED <<metaLog, applied, prepared, lane, net, cmds, proofs, snapshot,
                             replayTarget, committed, acked, dupAcked>>
SetScan(n, s) == scan' = [scan EXCEPT ![n] = s]

\* BuildReplicaCatchupRequests copies the metadata under the FSM lock.
ScanCopy(n) ==
    /\ Serving(n) /\ used["scan"] < MaxScans
    /\ scan[n].phase = "idle" /\ View(n).leader # n
    /\ SetScan(n, [IdleScan EXCEPT !.phase = "copied", !.meta = View(n)])
    /\ Count("scan")
    /\ ScanUnchanged /\ UNCHANGED <<log, HWM>>

\* It then reads the local LEO and decides.
ScanDecide(n) ==
    /\ scan[n].phase = "copied"
    /\ LET m == scan[n].meta
       IN  SetScan(n, IF LEO(n) < m.hwm
                      THEN [scan[n] EXCEPT !.phase = "request", !.next = LEO(n)]
                      ELSE IF LEO(n) = m.hwm \/ n \notin m.isr
                      THEN [scan[n] EXCEPT !.phase = "reconcile"]
                      ELSE IdleScan)
    /\ ScanUnchanged /\ UNCHANGED <<log, HWM, used>>

\* ReconcileCommittedHWM, outside the partition write lock.
ScanReconcile(n) ==
    /\ scan[n].phase = "reconcile"
    /\ LET h == scan[n].meta.hwm
       IN  IF LEO(n) >= h
           THEN /\ log' = [log EXCEPT ![n] = SubSeq(@, 1, h)]
                /\ HWM' = [HWM EXCEPT ![n] = h]
           ELSE UNCHANGED <<log, HWM>>
    /\ SetScan(n, IdleScan)
    /\ ScanUnchanged /\ UNCHANGED used

\* FetchReplicaCatchup at the leader named by the request.
ScanFetch(n) ==
    /\ scan[n].phase = "request"
    /\ LET m == scan[n].meta
           b == m.leader
       IN  /\ Serving(b) /\ FenceOf(View(b)) = FenceOf(m) /\ View(b).hwm = m.hwm
           /\ HWM[b] >= m.hwm
           /\ SetScan(n, [scan[n] EXCEPT !.phase = "batch",
                              !.recs = SubSeq(log[b], scan[n].next + 1, m.hwm)])
    /\ ScanUnchanged /\ UNCHANGED <<log, HWM, used>>

\* ApplyReplicaCatchup: fences and boundary are checked again under the lock.
ScanApply(n) ==
    /\ scan[n].phase = "batch" /\ ~Locked(n)
    /\ LET m == scan[n].meta
       IN  /\ FenceOf(View(n)) = FenceOf(m) /\ View(n).hwm = m.hwm /\ LEO(n) = scan[n].next
           /\ log' = [log EXCEPT ![n] = @ \o scan[n].recs]
           /\ HWM' = [HWM EXCEPT ![n] = Larger(@, m.hwm)]
    /\ SetScan(n, IdleScan)
    /\ ScanUnchanged /\ UNCHANGED used

\* The fetch fails or times out, or a check of the application fails.
ScanAbort(n) ==
    /\ scan[n].phase \in {"request", "batch"}
    /\ SetScan(n, IdleScan)
    /\ ScanUnchanged /\ UNCHANGED <<log, HWM, used>>

-----------------------------------------------------------------------------
(* Snapshots and restarts.  Logs are durable; lanes, fences and scans are  *)
(* not.  Without a snapshot Raft replays its log from the first command.   *)

TakeSnapshot(n) ==
    /\ Serving(n) /\ used["restart"] < MaxRestarts /\ snapshot[n] # applied[n]
    /\ snapshot' = [snapshot EXCEPT ![n] = applied[n]]
    /\ UNCHANGED <<metaLog, applied, log, HWM, prepared, lane, net, cmds, proofs, scan,
                   replayTarget, used, committed, acked, dupAcked>>

\* Variant: the snapshot's watermark is not clamped to the local log.
UnclampedHWM(n) == IF snapshot[n] > 0 THEN metaLog[snapshot[n]].hwm ELSE 0

RestoredHWM(n) == IF snapshot[n] > 0 THEN Smaller(metaLog[snapshot[n]].hwm, LEO(n)) ELSE 0

\* Restore stages the snapshot's boundary: ReconcileSnapshotHWM moves only the
\* HWM, and the broker must replay up to target, what its Raft node then knows to
\* be committed, before it serves.
Restart(n, target) ==
    /\ used["restart"] < MaxRestarts
    /\ target >= applied[n] /\ (snapshot[n] = 0 => target = Len(metaLog))
    /\ applied' = [applied EXCEPT ![n] = snapshot[n]]
    /\ replayTarget' = [replayTarget EXCEPT ![n] = IF snapshot[n] > 0 THEN target ELSE 0]
    /\ HWM' = [HWM EXCEPT ![n] = RestoredHWM(n)]
    /\ prepared' = [prepared EXCEPT ![n] = NoFence]
    /\ lane' = [lane EXCEPT ![n] = <<>>]
    /\ net' = {m \in net : m.to # n}
    /\ SetScan(n, IdleScan)
    /\ Count("restart")
    /\ UNCHANGED <<metaLog, log, cmds, proofs, snapshot, committed, acked, dupAcked>>

\* FinalizeRecoveredPartitions, then ValidateLocalLeaderLogs: a leader that
\* misses committed records refuses to start.
FinishRecovery(n) ==
    /\ replayTarget[n] > 0 /\ applied[n] >= replayTarget[n]
    /\ View(n).leader = n => LEO(n) >= View(n).hwm
    /\ IF LEO(n) < View(n).hwm
       THEN /\ HWM' = [HWM EXCEPT ![n] = Smaller(@, LEO(n))]
            /\ UNCHANGED log
       ELSE /\ HWM' = [HWM EXCEPT ![n] = View(n).hwm]
            /\ log' = [log EXCEPT ![n] = SubSeq(@, 1, View(n).hwm)]
    /\ replayTarget' = [replayTarget EXCEPT ![n] = 0]
    /\ UNCHANGED <<metaLog, applied, prepared, lane, net, cmds, proofs, scan, snapshot, used,
                   committed, acked, dupAcked>>

-----------------------------------------------------------------------------
ClientStep(n) ==
    \/ \E acks \in AckModes : Publish(n, acks) \/ PublishFails(n, acks)
    \/ \E k \in 1..LEO(n) : PublishDuplicate(n, k)
    \/ ClientCancel(n)

LaneStep(n) ==
    \/ LaneFenced(n) \/ LaneLeaderOutOfISR(n) \/ LaneStart(n) \/ LaneBarrier(n) \/ LaneSend(n)
    \/ LaneTimeout(n) \/ LanePropose(n) \/ LaneCommitted(n) \/ LaneFinish(n)

ReplicaStep == \E m \in net : ReplicaAppend(m) \/ ReplicaReject(m) \/ ReplicaFence(m)

RaftStep ==
    \/ \E c \in cmds : CommitAccepted(c) \/ CommitRejected(c)
    \/ \E i \in Larger(1, Len(metaLog) - MaxISRLag)..Len(metaLog) : \E alive \in SUBSET metaLog[i].isr : ComputeISR(i, alive)
    \/ \E b \in Brokers : ElectLeader(b)
    \/ \E p \in proofs : ISRCatchup(p)
    \/ AlterTopic

ScanStep(n) ==
    \/ ScanCopy(n) \/ ScanDecide(n) \/ ScanReconcile(n)
    \/ ScanFetch(n) \/ ScanApply(n) \/ ScanAbort(n)

RecoveryStep(n) ==
    \/ TakeSnapshot(n)
    \/ \E target \in DOMAIN metaLog : Restart(n, target)
    \/ FinishRecovery(n)

Next ==
    \/ \E n \in Brokers :
          ClientStep(n) \/ LaneStep(n) \/ ApplyEntry(n) \/ BuildProof(n) \/ ScanStep(n)
          \/ RecoveryStep(n)
    \/ ReplicaStep
    \/ RaftStep

Spec == Init /\ [][Next]_vars

-----------------------------------------------------------------------------
(* Properties.                                                             *)

\* Every variable keeps its type; a record read back, a request or a task in a
\* lane is always one that some publish created.
TypeOK ==
    /\ metaLog \in Seq(Metadata) /\ metaLog # <<>>
    /\ applied \in [Brokers -> Nat]
    /\ log \in [Brokers -> Seq(Records)]
    /\ HWM \in [Brokers -> Nat]
    /\ prepared \in [Brokers -> Fences]
    /\ lane \in [Brokers -> Seq(Tasks)]
    /\ net \subseteq Requests /\ cmds \subseteq Commits /\ proofs \subseteq Proofs
    /\ scan \in [Brokers -> Scans]
    /\ snapshot \in [Brokers -> Nat] /\ replayTarget \in [Brokers -> Nat]
    /\ used \in [Events -> Nat]
    /\ committed \in Seq(Records \cup {0})
    /\ acked \subseteq (Records \X (Nat \ {0})) /\ dupAcked \subseteq (Records \X (Nat \ {0}))

\* Raft commands never take the partition back: the committed HWM and the leader
\* epoch do not fall, and an epoch has one leader.  A delayed PARTITION or
\* PARTITION_COMMIT command, computed from metadata that has moved on, is refused.
MetadataMonotone ==
    \A i, j \in DOMAIN metaLog :
        i < j => /\ metaLog[i].hwm <= metaLog[j].hwm
                 /\ metaLog[i].epoch <= metaLog[j].epoch
                 /\ metaLog[i].epoch = metaLog[j].epoch => metaLog[i].leader = metaLog[j].leader

\* No replica ever shows consumers an offset that Raft has not committed or that
\* its log does not hold, whatever the replica's own view of the metadata is.
VisibleWithinCommitted == \A n \in Brokers : HWM[n] <= Meta.hwm /\ HWM[n] <= LEO(n)

\* A producer that was told OK under acks=all has an offset below the committed
\* HWM, through timeouts of the Raft apply, retries and changes of leader.
StrongAckCommitted == \A a \in acked : a[2] <= Meta.hwm

\* "After append it waits for the ordered task to be acknowledged by every ISR
\* member ... followed by the fenced Raft commit": an acks=all producer that retries
\* and is told OK because its record is already there has a committed record too.
DuplicateAckCommitted == \A a \in dupAcked : a[2] <= Meta.hwm

HoldsCommitted(n) == Len(committed) <= LEO(n) /\ SubSeq(log[n], 1, Len(committed)) = committed

\* Every member of the ISR, hence every broker that may be elected, holds every
\* committed record.
ISRHoldsCommitted == \A n \in Meta.isr : HoldsCommitted(n)

\* What a broker that believes it leads shows to consumers is what was committed,
\* even when it has been deposed and does not know.
LeaderReadsCommitted ==
    \A n \in Brokers : Serving(n) /\ View(n).leader = n =>
        HWM[n] <= Len(committed) /\ \A k \in 1..HWM[n] : log[n][k] = committed[k]

\* A log is never cut below the committed HWM while it agrees with what was
\* committed: "any local tail beyond that watermark was never committed".
TruncatesOnlyUncommitted ==
    [][\A n \in Brokers : \A k \in 1..LEO(n) :
          k > Len(log'[n]) => k > Meta.hwm \/ log[n][k] # committed[k]]_vars

-----------------------------------------------------------------------------
(* The inductive invariant behind the properties above.                    *)

\* Indices into the Raft log stay inside it, and only a broker that has applied
\* the topic command has work in its lane.
Indices ==
    \A n \in Brokers :
        /\ applied[n] <= Len(metaLog) /\ snapshot[n] <= Len(metaLog)
        /\ lane[n] # <<>> => applied[n] > 0

\* Whatever carries a watermark through the system was preceded by the commit of
\* that watermark: a task past its commit, a best-effort copy to a replica outside
\* the ISR, and a catch-up scan with the records it fetched.
PastCommit(t) == t.pc \in {"committed", "finish"}
TaskEvidence ==
    \A n \in Brokers : \A i \in DOMAIN lane[n] : PastCommit(lane[n][i]) => lane[n][i].hwm <= Meta.hwm
RequestEvidence == \A m \in net : m.commit => m.hwm <= Meta.hwm
ScanEvidence ==
    \A n \in Brokers :
        /\ scan[n].meta.hwm <= Meta.hwm
        /\ scan[n].phase = "request" => scan[n].next <= scan[n].meta.hwm
        /\ scan[n].phase = "batch" => scan[n].next + Len(scan[n].recs) = scan[n].meta.hwm

CommitEvidence == TaskEvidence /\ RequestEvidence /\ ScanEvidence

TypeInv == TypeOK /\ Indices

SafeInv ==
    /\ MetadataMonotone
    /\ CommitEvidence
    /\ VisibleWithinCommitted
    /\ StrongAckCommitted

-----------------------------------------------------------------------------
(* The inductive invariant behind ISRHoldsCommitted, LeaderReadsCommitted, *)
(* TruncatesOnlyUncommitted and ImplementsCommittedLog.  They do not hold  *)
(* of every behaviour: a re-admission proof that the FSM accepts late, a   *)
(* replay after a restart, and the reconciliations a topic command or a    *)
(* catch-up scan makes outside the fence all cut or miss records that a    *)
(* leader counts as replicated.  Undisturbed says that none of these has   *)
(* happened so far.                                                        *)

\* No command has put a replica back into the ISR.
Shrinking == \A i, j \in DOMAIN metaLog : i <= j => metaLog[j].isr \subseteq metaLog[i].isr

Undisturbed ==
    /\ Shrinking
    /\ used["scan"] = 0 /\ used["alter"] = 0 /\ used["restart"] = 0

\* The replicas that matter to the i-th command: the leader and the ISR.
Core(i) == metaLog[i].isr \cup {metaLog[i].leader}

\* Nothing but preparation cuts a log, and the leader is taken from the ISR.
Calm ==
    /\ \A n \in Brokers : applied[n] > 0 /\ replayTarget[n] = 0 /\ scan[n].phase = "idle"
    /\ \A i \in DOMAIN metaLog : i > 1 => metaLog[i].kind # "topic"
    /\ \A i, j \in DOMAIN metaLog : i <= j => Core(j) \subseteq Core(i)

\* A replica prepares for fences of commands it has applied.
PreparedPast ==
    \A n \in Brokers :
        prepared[n] = NoFence \/ \E i \in 1..applied[n] : prepared[n] = FenceOf(metaLog[i])

\* The log of n is what was committed up to h.
Agrees(n, h) == h <= LEO(n) /\ h <= Len(committed) /\ \A k \in 1..h : log[n][k] = committed[k]

\* A replica that mattered to a command has kept what was committed then, and
\* nothing was committed under the fences it had not prepared for by then.
CoreHolds ==
    /\ Len(committed) = Meta.hwm
    /\ \A i \in DOMAIN metaLog : \A n \in Core(i) :
          /\ Agrees(n, metaLog[i].hwm)
          /\ \A j \in 1..i : metaLog[j].epoch > prepared[n].epoch => metaLog[j].hwm = metaLog[i].hwm

\* Under the current fence the leader prepares first, and the log of every other
\* replica that matters is a prefix of the leader's once it has prepared.
Prepared(n) == prepared[n] = FenceOf(Meta)
Behind(n, b) == LEO(n) <= LEO(b) /\ \A k \in 1..LEO(n) : log[n][k] = log[b][k]
OneLine ==
    \A n \in Brokers : Prepared(n) =>
        /\ Prepared(Meta.leader)
        /\ n \in Core(Len(metaLog)) => Behind(n, Meta.leader)

\* A record that left a leader under epoch e as the h-th of its log: it is there
\* while the epoch lasts, and once it is over, a record that was left uncommitted
\* is neither committed later nor in the new leader's log.
Issued(n, e) == \E i \in DOMAIN metaLog : metaLog[i].leader = n /\ metaLog[i].epoch = e
Leads(e, h, r) ==
    e = Meta.epoch => Prepared(Meta.leader) /\ h <= LEO(Meta.leader) /\ log[Meta.leader][h] = r
Lost(e, h, r) ==
    /\ \A i \in DOMAIN metaLog :
          metaLog[i].epoch > e /\ metaLog[i].hwm < h /\ h <= Len(committed) => committed[h] # r
    /\ e < Meta.epoch /\ Prepared(Meta.leader) /\ Meta.hwm < h /\ h <= LEO(Meta.leader)
          => log[Meta.leader][h] # r
Sound(n, e, h, r) == Issued(n, e) /\ Leads(e, h, r) /\ Lost(e, h, r) /\ r <= used["record"]

\* Every replica that matters has the leader's log up to h.
Copied(e, h, rest) ==
    e = Meta.epoch => \A n \in Core(Len(metaLog)) : n \in rest \/ (Prepared(n) /\ h <= LEO(n))

LogOK ==
    /\ \A n \in Brokers : \A k \in 1..LEO(n) :
          Lost(prepared[n].epoch, k, log[n][k]) /\ log[n][k] <= used["record"]
    /\ \A k \in 1..Len(committed) : committed[k] <= used["record"]

\* A task past its commit has its record committed where it says.
TaskDone(n, t) ==
    /\ \E i \in DOMAIN metaLog : metaLog[i].leader = n /\ t.hwm <= metaLog[i].hwm
    /\ t.hwm <= Len(committed) /\ committed[t.hwm] = t.rec
TaskOK(n, t) ==
    IF t.barrier THEN t.pc = "start"
    ELSE /\ Sound(n, t.epoch, t.hwm, t.rec)
         /\ Meta.isr \subseteq t.isr
         /\ t.pc # "start" => Copied(t.epoch, t.hwm, t.todo)
         /\ PastCommit(t) => TaskDone(n, t)
         /\ \E i \in DOMAIN metaLog : metaLog[i].epoch = t.epoch /\ t.isr = metaLog[i].isr

\* A best-effort copy goes to a replica that has left the ISR.
RequestOK(m) ==
    /\ Sound(m.leader, m.epoch, m.hwm, m.rec)
    /\ m.commit => \E i \in DOMAIN metaLog : metaLog[i].epoch = m.epoch /\ m.to \notin Core(i)
CommitOK(c) == Sound(c.leader, c.epoch, c.hwm, c.rec) /\ Copied(c.epoch, c.hwm, {})

LaneOK == \A n \in Brokers : \A i \in DOMAIN lane[n] : TaskOK(n, lane[n][i])
WorkOK == LaneOK /\ (\A m \in net : RequestOK(m)) /\ (\A c \in cmds : CommitOK(c))

\* A replica that leads, or may come to lead, shows no more than was committed
\* when it last mattered.
Trusted(n) == \E i \in DOMAIN metaLog : n \in Core(i) /\ HWM[n] <= metaLog[i].hwm
MayLead(n) ==
    n \in Core(Len(metaLog)) \/ \E i \in DOMAIN metaLog : applied[n] <= i /\ metaLog[i].leader = n
ShownOK == \A n \in Brokers : MayLead(n) => Trusted(n)

Grounds == Calm /\ PreparedPast /\ CoreHolds /\ OneLine /\ LogOK
LineageInv == Grounds /\ WorkOK /\ ShownOK

\* While nothing has disturbed the partition, the logs of the replicas that matter are
\* one line: they agree up to what was committed, follow the leader beyond it, and
\* whatever an old leader still has in a lane, on the wire or on its way to Raft is
\* fenced before it can put a record in another's place.
Lineage == Undisturbed => LineageInv

-----------------------------------------------------------------------------
(* Refinement.  The abstract log is the leader's log up to the committed   *)
(* HWM, whichever broker is the leader.                                    *)

LeaderCommitted == SubSeq(log[Meta.leader], 1, Smaller(Meta.hwm, LEO(Meta.leader)))

Abstract == INSTANCE CommittedLog WITH entries <- LeaderCommitted, acks <- acked

\* Through appends, replication, commits and failovers the committed log only
\* grows, and every acks=all response names the record committed at its offset.
ImplementsCommittedLog == Abstract!Spec

=============================================================================
