# A TLA+ verification of the cursus broker

Cursus is a message broker written in Go: topics split into partitions, an
append-only log per partition, consumer groups, transactions, and a clustered mode
in which a Raft group holds the metadata and the partition data is replicated from
a leader to an in-sync replica set (ISR). This project models the parts of it whose
correctness depends on the order in which several actors act, checks them with TLC on
small instances, and proves the most important invariants with TLAPS for every
value of the constants.

All source paths below are relative to the repository; `pkg/controller` is the
command layer of a broker, `pkg/cluster/controller` the layer that talks to the other
brokers.

## 1. The system

| component | state it keeps | operations |
|---|---|---|
| replication lane, `pkg/controller/replication_queue.go` | per partition: a queue of tasks, capacity slots, a catch-up queue, a worker for each queue, closed flag | reserve, submit, release, process (snapshot, replicate, commit, answer), close |
| publish handlers, `produce_handler.go`, `cluster_handler.go` | a write lock and a "prepared" fence per partition | PUBLISH, batches, REPLICATE_MESSAGE, preparation for a new leader epoch |
| cluster controller, `pkg/cluster/controller` | none of its own | snapshot of leader, epoch and ISR; fan-out to ISR and to other replicas; catch-up loop |
| ISR manager, `pkg/cluster/replication/isr_manager.go` | last heartbeat of each broker | shrink the ISR, fail over, build and submit catch-up proofs |
| Raft FSM, `pkg/cluster/replication/fsm` | topics, partition metadata (leader, epoch, ISR, committed HWM), brokers, groups, offsets, transactions | apply each command, snapshot, restore, finalise recovery |
| partition log, `pkg/topic/partition.go` | LEO, HWM, producer sequences, open transactions | leader append, replica append, reconcile, raise the HWM, read |
| disk engine, `pkg/disk` | segments, index, write queue, flushed and absolute offset | append (queued, synchronous), flush, roll, truncate, recover, retain, compact, install a compacted range |
| group coordinator, `pkg/coordinator` | members, generation, assignments, committed offsets, metadata log | register, join, leave, heartbeat, expire, commit, delete, replay and compact the metadata log |
| transactions, `pkg/transaction`, `transaction_*.go` | transaction state, producer epochs, journal | init, begin, add, prepare, apply, commit, abort, expire, recover |
| event sourcing, `pkg/eventsource` | stream index, snapshots | append with expected version, read, save snapshot, rebuild |
| topic manager, `pkg/topic` | manifest, topic directories, truncation fence, lifecycle epoch | create, grow, delete, truncate, restore at startup |
| streams, server, wire | connections, positions | push, framing, startup and shutdown |
| SDK, `sdk` | producer buffers and sequences, consumer membership and positions, commit queue | send, flush, close; join, poll or stream, handle, commit, rejoin |

How they interact. A clustered publish takes the partition's write lock, prepares the log for the
current leader epoch, reserves a slot of the lane, appends locally and submits a task.
The lane's worker sends the records to the ISR, proposes a fenced PARTITION_COMMIT
to Raft, raises the local HWM and answers the publisher if it waits. Followers check the
leader and epoch of each request against their own, possibly late, copy of the
metadata. A restarted broker restores a Raft snapshot, replays the rest and
reconciles its log with the committed HWM. Every append ends in the partition's disk handler, whose
queue, flush loop, tickers, retention and compaction run beside it. Consumers join a group, get
partitions and a generation, read from the group's committed offsets and commit under that
generation; the coordinator writes an offset snapshot to an internal topic before it changes its
memory. A transaction only stages until END_TXN journals the decision; the records, markers and
offsets follow, at restart too. An event append checks the version, publishes and extends an index
derived from the log. A lifecycle command changes the manifest, the directory, the groups, the
journal, the index and the snapshots one after the other.

What is hard: every broker acts on its own view of the metadata; a replica call and a Raft
apply may take effect after the caller has given up; ISR changes race with tasks that
captured the ISR; truncation races with late requests; a restart replays history over
logs that are ahead of it. On one broker: file operations fail or are cut short by a crash, and
what was acknowledged must be told from what was merely written; client answers are lost, so
everything is retried; membership changes between two critical sections of one command; a
command of many durable steps is killed inside any of them. `PROJECT.json` lists these as hazards,
each at its line.

## 2. Modules

| module | what it is |
|---|---|
| `PartitionReplication` | one partition on a set of brokers: publish, lane, replicas, FSM, ISR manager, catch-up, restarts |
| `CommittedLog` | what a partition promises its clients: a log that only grows, acknowledgements that name a committed record |
| `ReplicationLane` | the lane of one partition: reservations, slots, publishers, both workers and close |
| `ReplicationLaneProofs` | the lane's inductive invariant, one lemma per action, and the theorems |
| `PartitionReplicationProofs` | lemmas: every action preserves types, index bounds, the safety invariant and the lineage of the logs; the theorems |
| `DiskLog` | the files of one partition on one broker, above them LEO, HWM and its checkpoint |
| `DiskLogWorkloads` | the combinations of callers and policies its theorems and its run assume |
| `GroupCoordinator` | the broker's side of one group: membership, offsets, durable metadata |
| `ConsumerGroup` | SDK consumers composed with `GroupCoordinator` |
| `PartitionLog` | partitions as producers and `read_committed` readers see them: sequences, markers, last stable offset |
| `IdempotentProducer` | an SDK producer on those partitions |
| `Transactions` | transaction manager, handlers and transactional producers on the same partitions |
| `EventSource` | event writers, index and snapshots on the same partitions |
| `TopicLifecycle` | CREATE, growth, DELETE, TRUNCATE and startup over all of the above |
| `Broker` | the composition: a standalone broker with its clients, crashes and restarts |
| `GroupCoordinatorProofs` | lemmas: range assignment, replay of the metadata log, every coordinator action |
| `ConsumerGroupProofs` | lemmas: every step of the composed system; the coordinator's theorems |
| `DeliveryProofs` | at-least-once delivery on top of it |
| `BrokerProofs` | the theorems of the idempotent producer and of event streams on the whole standalone broker |
| `TransactionProofs` | the transactions' theorems on top of it: answers, stable reads, atomicity, offsets with output |
| `DiskLogProofs` | lemmas: what a file operation does to segments, every action of the disk log; the theorems |
| `MCDiskLog`, `MCConsumerGroup`, `MCBroker` | the instances TLC checks |

### PartitionReplication

*Raft* is external. It is the sequence `metaLog` of the metadata after each committed
command; broker `n` has applied `applied[n]` of them and acts on `View(n)`. A command is
validated against the newest metadata, because the FSM validates when it applies.

*Data.* A record is its number, a log a sequence of records, a high watermark a length.
A request carries one record. Formatting, authorisation, compression and the records'
content do not influence the properties and are left out.

*Publish* (`handlePublish`, distributed branch) is one action, since it runs under the partition
write lock: check the view, reconcile the log if the fence is new, append, submit.
`PublishFails` is the same request refused after the preparation. `PublishDuplicate` is an
idempotent retry of a record the log holds. `Locked` says an acks=all publisher still
waits and therefore still holds the lock; `ClientCancel` is its context ending.

*The lane worker* (`process`) is split where other actors can act: `LaneStart` (first
snapshot), `LaneSend` and the replica's answer once for every ISR member in order,
`LanePropose` (second snapshot), the Raft commit, `LaneCommitted` (local HWM), `LaneFinish`
(third snapshot, answer, copies for the replicas outside the ISR). `LaneFenced` and
`LaneLeaderOutOfISR` are the two outcomes of a failed snapshot: the task is dropped or
retried. `LaneTimeout` is an expired replica call or Raft apply, whose effect may still come.
`LaneBarrier` answers a duplicate. A failed task is reported once, so `waiting` is cleared.

*Replicas* (`handleReplicateMessage`): `ReplicaAppend`, `ReplicaReject` (gap or conflict),
`ReplicaFence` (another leader or epoch). A lost request is one that is never handled
and whose sender times out; a late one is handled after the time-out; a retry is a
second request.

*The FSM*: `CommitAccepted` and `CommitRejected` (PARTITION_COMMIT), `ComputeISR` (the ISR
manager's PARTITION command, computed from metadata up to `MaxISRLag` commands old and any set
of live members), `ElectLeader`, `AlterTopic`, `ISRCatchup`; `ApplyEntry` is a broker applying
its next command with the local effects: a topic command reconciles the log, a commit raises
the HWM.

*Catch-up*: `ScanCopy` ... `ScanAbort` follow the goroutine, which copies metadata under a
lock and uses it after the lock is released. *Restart*: logs survive; lanes, prepared fences,
scans and unhandled requests do not. With a snapshot the broker replays to a target before it
serves; without one it serves while it replays.

`committed`, `acked` and `dupAcked` are history variables.

### ReplicationLane

`PartitionReplication` asks what a task does to logs; this module asks what happens to the
task. A publisher goes through the write lock (`TakeLock`), the coordinator's mutex (`Reserve`),
the slot channel (`TakeSlot` or `GiveUpSlot`), the append (`AppendDone` or `Release`), the two
statements of `submit` (`Enqueue`, `SubmitDone`) and the wait (`StopWaiting`, with an answer or
because its context ended). The worker's loop is `WorkerTake`, `ProcessCheck`, one of three
outcomes of an attempt, `Backoff`, `Handover` to the catch-up queue and `FreeSlot`; after
the cancellation it is `WorkerStop` and `WorkerDrain`. `Close` ... `WorkersDone` are the statements of
close: refuse, cancel the reservations, wait for those granted, cancel the workers, wait for
them. Where a Go select has several ready cases any of them may be taken. A task whose
publisher stopped reading its result channel has no target (`Detached`). Publishers start new
requests for ever, so the instance has no bound but the number of publishers and the capacity.

### Workloads

The modules of a single broker have many callers, policies and faults, and one state space with all
of them would be out of reach and mostly redundant. Each behaviour therefore begins with a choice
of a *work*, a set of feature names out of the constant `Works` (`Workloads` in `DiskLog`); an action
that belongs to a feature has `Does("feature")` as a guard. A run checks every mix its
configuration lists, in one state space. Faults share a budget: `MaxFaults` of them, in `Broker` one unless the mix says
"twice". No mix changes what an action does, except that "short" and the ids' bounds
(`EpochBound`, `StagedBound`) make a log or a transaction smaller.

### DiskLog

State: `file` and `synced` give each segment's records and how many crossed fsync; `markers` the
segments with a compaction sidecar; `writeCh`, `batch`, `absoluteOffset`, `flushedOffset`,
`currentSegment` are the handler's fields; `leo`, `hwm`, `checkpoint` the partition's. Sizes are counted
in records. Every write goes through `WriteBatch` or `FlushBatch` and therefore through `Rolls`, which
rotates before and after as `WriteDirect` and `flushBatch` do. `Enqueue` is the acks=0 path into
the channel, `EnqueueSync` and `EnqueueBatchLeader` the durable ones, `WriteFails` an fsync that fails with
its bytes in the file. `FlushLoopTake`, `FlushLoopLinger`, `FlushDisk`, `SyncLoop`, `SegmentTicker` are the
background goroutines. Reads take a segment (`ReadBegin`, `ReadEnd`); retention and compaction
take their locks anew for every segment (`EnforceCompaction`, `CompactClosedSegment`,
`CompactionDeferred`). The installation of a compacted range on a follower and `TruncateTo` are
split where a crash can fall. `Crash` keeps any prefix between the synced and the written records of the
active segment; `NewDiskHandler` finishes a pending installation, drops a torn tail and puts the
watermark back into the log. `Without` is the rewrite of a compacted segment and `FindTruncatePosition` the scan for
the cut. `DiskLogWorkloads` names the combinations the code can bear: one kind of writer on a partition, and no timed
roll beside queued records or a failed write (section 3, weak spots). The sparse index is left out: each entry is checked against the log
before it is used, and a rejected one only lengthens the scan.

### GroupCoordinator and ConsumerGroup

`group` is members with their partitions, generation, offsets, offset revision and lifecycle epoch.
Standalone, a registration or deletion holds `lifecycleMu` over three steps (begin, write, finish) and
offsets are written to the internal topic before memory; `mlog` is the set of its records, since
replay chooses by epoch and revision. A write may fail with its record in the file, after which the
internal topic refuses writes until restart. In a cluster the same operations are applied whole from
Raft and survive the coordinator. Expiry is the two critical sections it is in the code (`ExpireScan`,
`ExpireApply`). JOIN_GROUP is split likewise: `JoinAdd` or `RaftJoin` and `RaftAssignments`, then
`JoinRespond`, which reads the generation.

A consumer is its main goroutine (`Main`: join, sync, fetch offsets, start, rebalance), a heartbeat, the commit
retry loop, and for each partition a reader and a worker. Commit and leave requests are in `net`
from sending to handling; `CommitLost` breaks the connection before the answer, and a request whose client has gone is
still handled, perhaps behind newer ones. Reads are not fenced, so two consumers may hold the same records; what keeps
the group right is the fencing of commits.

### PartitionLog, IdempotentProducer, Transactions, EventSource, TopicLifecycle, Broker

One after the other these extend `PartitionLog`, so that all clients write the same logs. A record is
producer, epoch, sequence, transactional id, marker flag and aggregate. That it is durable once appended is what
`DiskLog` shows.

`IdempotentProducer`: a lane per partition with buffer, batch, retries and connection. `HandleBatch`
is the broker's handler on a request that was written, whether or not its answer is read:
`AckTimeout` and `ConnBreak` lose it, and after a time-out the connection's next frame may answer the
request before (`behind`). `HandleBatchFails` stores a prefix of the batch. `HandleBatchRefused` is the error answered when
the topic or its partition is missing or fenced: a structured error of a class that is not retryable (`pkg/protocol/errors.go:72-86`).
`sendWithRetry` tries again on any error (`Attempt`). What follows the last attempt depends on its error: after a broken connection, a time-out or an answer
to another request the batch returns to the buffer (`HandleSendFailure`); after a refusal `sendBatch` returns without it
(`sdk/producer_batch.go:59-61`) and the batch is gone (`GiveUp`, which notes it in the history `dropped`). The drain waiters are released all the
same. `Flush` and `Close` register drain waiters.

`Transactions`: `txns` is the manager's table, `journal` the acknowledged records and `tail` one that may be
in the file unacknowledged. `EndTxnCommit` journals *committing* and leaves a `job`, whose steps (`ApplyTransaction`,
`PublishNext` record by record, `CommitTxnOffsets`, `DecideCommitted`) interleave with everything else and may
fail (`ApplyFails`). After a crash `LoadJournal` rebuilds the table and `RecoverTransaction` starts the jobs
before clients are served. Two clients may share an id, so that one becomes a zombie. Commit markers have a producer
of their own for each id (`MarkerPid`), whose only number in an epoch is 1, so that a repeated marker is a duplicate.
`PruneExpired` is expiry, which runs behind the journal's append of any id and at startup: a finished transaction becomes an epoch tombstone and,
one retention period later, a tombstone is deleted (`Pruned`, the two stages of `pruneExpiredLocked`); the journal is rewritten with what is left. The id's next
`InitProducerID` begins again at epoch 0 under the same producer id. `forgot` is the history of the ids this has happened to.

`EventSource`: `AppendStream` takes the index lock and checks the version, `AppendLocked` publishes, indexes and
answers; on an error the index is emptied and rebuilt in separate steps. `SaveSnapshot` may be torn.

`TopicLifecycle`: a command is a sequence of named steps on manifest, directory, groups, journal, index
and snapshots. `Perform` runs them all, or is killed inside one, or continues after a failed one
with what the handler still does (`Rest`, which depends on the command: TRUNCATE completes whether or not its
cleanup could be done, startup ends at the first error). They exclude other commands (`topicLifecycleMu`), so that
the sequence is one action. `RestoreTopics` and `RecoverPendingTruncations` are startup's part.

`Broker` adds the crash of the process and the order of startup: topics, pending truncations,
transactions, then serving.

## 3. Runs

No fairness is assumed by the replication runs; they check safety only. Deadlock is not
checked in them, nor in `disk`, `group` and `broker`, because the bounds end every behaviour. `lane_shutdown` checks
deadlock. Fairness, and why the code justifies it:

- `lane_shutdown`: weak fairness of each goroutine: a publisher that can go on does, the worker and
  the catch-up worker run, and close, once called, goes on. Goroutines are scheduled by the Go
  runtime, and every call an attempt makes (replica RPC, Raft apply, best-effort copy) has a time
  limit. Nothing is assumed of clients: they need not publish, cancel or close, and attempts
  may fail for ever.
- `disk`: weak fairness of the flush loop and its linger timer.
- `group`: weak fairness of the consumers' goroutines and timers, of the delivery of a request on an open
  connection, of the session check, of a registration or deletion once begun, and of the session of a member nobody
  speaks for lapsing. A crashed broker is started again. Faults are finite.
- `broker`: weak fairness of the producer's senders, of a commit once prepared, and of the
  stopped broker being started again; the application retries an END_TXN that was not answered;
  strong fairness of reconnecting, since the attempts alternate with failures.

| run | instance | what it shows |
|---|---|---|
| `replication_core` | 3 brokers, min ISR 2, acks=all, 2 records, 3 Raft commands | ISR members hold every committed record; the detailed specification implements `CommittedLog` |
| `replication_lanes` | 2 brokers, acks=1 and all, lane of 2, 2 records, 4 commands | pipelined tasks, leader reads, no cut of committed data, refinement |
| `replication_repair` | 2 brokers, 1 record, 4 metadata commands, stale ISR, one proof, scan and retry | metadata never goes back, every carried watermark was committed, `Lineage` (the inductive invariant of section 4) holds until the partition is disturbed |
| `replication_restart` | 2 brokers, 1 record, 3 metadata commands, one restart with or without snapshot, one topic update | visibility and acknowledgements survive recovery and reconciliation |
| `lane_shutdown` | 2 publishers, capacity 2, no other bound | a reservation never blocks on the queue, no waiter loses its task, close returns and leaves nothing, waiters are answered |
| `disk` | 5 mixes, segments, batches and channel of 2, offsets up to 4, one crash, one failed operation; about 1.07 million states | what was acknowledged survives, reads meet no hole, every segment is accepted by readers and by recovery, a reader keeps its segment, the last record of a producer outlives compaction, the queue drains |
| `group` | 8 mixes, 2 consumers, 2 partitions, 1 or 2 records, 4 joins, one fault; about 470 000 states | at-least-once, assignments partition the topic, acknowledged commits survive replay, the metadata log can always be replayed, a deleted group was empty, the log is consumed when faults end |
| `broker` | 24 mixes, 2 partitions, 3 sends, 2 transactional producers, 2 epochs, 2 event writers, 3 versions, 3 topic generations; about 465 000 states | exactly-once production, flush returns for what was acknowledged or finally refused, transactions are atomic and their answers stand for ids that were not forgotten, offsets imply output, the last stable offset and what is below it never change, one event per version, streams are complete, a new generation is clean, sends are acknowledged, restart finishes |
| `isr_proof_race`, `restart_replay`, `duplicate_ack`, `torn_join` | smallest instances | four places where the code does not do what its documents say, below |

The bounds let each hazard happen: three brokers with min ISR 2 are the least in which a
commit can be fenced by a leader elected without the old one; a lane of two has a task
queued behind a failing one; four commands are a creation, a commit, a failover and one
more. In the lane the write lock admits one publisher at a time, so a third would only be
another waiter for the lock, and two slots already allow a full queue, a task at the worker
and a refused reservation at once. Records are published by number, so a larger `MaxRecords` only repeats the same races.

On disk, two records per segment and four offsets give two closed segments, an active one and a
batch that crosses a roll; one crash can fall inside each operation that has several durable steps. In a group two
members on two partitions are the least that has an assignment to lose, and four joins let each
rejoin once. Two transactions on two partitions give a marker that is missing on one of them; two
epochs a zombie; three generations a recreation after an interrupted one. Where transactions expire they have one message, and an id is
forgotten once: a session, its tombstone, the deletion and a session at epoch 0 again. One fault at a time
is enough to reach every error path; "twice" is used where a fault has to meet the repair of another.

### Disagreements found

1. `isr_proof_race`. A catch-up proof may be applied while a task that captured the ISR
   without the replica is in flight. The commit compares leader and epoch, not the ISR, so
   the re-admitted member misses a committed record. The recovery design
   (`docs/superpowers/specs/2026-09-02-hwm-isr-recovery-design.md:162`) says the race "fails
   closed".
2. `restart_replay`. A broker restarted without a Raft snapshot has no pending recovery; the
   replayed TOPIC command reconciles its log with HWM 0 and cuts committed records, against
   `pkg/topic/partition.go:1121`. The records come back from other replicas only if they
   were not restarted the same way.
3. `duplicate_ack`. A retry of a record whose task was dropped by a follower's fence is answered
   OK by the lane barrier, though the record is not committed, against
   `docs/specs/topic-replication-ack-policy-design.md:137-140`.

4. `torn_join`. JOIN_GROUP takes the assignments and, in a second critical section
   (`pkg/controller/command_handler.go:522`), the generation. A member that leaves in between gives the joining
   consumer its old assignment under the new generation; every fence accepts it, nothing signals a rebalance, and a
   partition has no consumer as long as membership stays, against
   `docs/core/topic/consumer-groups.md:11` ("Each partition's messages are delivered to exactly one
   consumer"). `Drained` therefore excepts a consumer in that state.

`ISRHoldsCommitted` and `TruncatesOnlyUncommitted` are therefore checked as passing
only in runs without proofs, restarts and the weak spots below, and proved under that hypothesis (`Undisturbed`). `StrongAckCommitted` and the refinement
are about the answers of tasks that replicate; answers to retries are `dupAcked`.

### Weak spots without a run

Met while modelling. Where a property would fail because of one, the mix is left out of the run or the
property names the exception.

- Two more steps cut a log outside the fence. A live TOPIC or TOPIC_CONFIG command
  (`pkg/cluster/replication/fsm/fsm_topic_materialization.go:261`) and a catch-up scan that acts on metadata it copied
  earlier (`fsm/isr_catchup.go:276`) reconcile a follower's log with the committed HWM after the follower has confirmed a record
  and before the commit of it is applied; the commit then covers a record that an ISR member no longer has. Two brokers and one record with
  `MaxAlters = 1` violate `ISRHoldsCommitted` in eight steps, with `MaxScans = 1` in nine. (With `MaxISRLag = 2` the model also lets `ComputeISR` put an
  evicted member back. In the code it proposes right after it has read, so this is the model's generosity; `Undisturbed` excludes it.)
- The segment ticker rolls at `AbsoluteOffset` (`pkg/disk/flush_common.go:90`), which `AppendMessage` has moved past the
  acks=0 records that are still queued. They are written behind a base offset larger than theirs, so that reads look for
  them elsewhere and the next start refuses the segment, against `docs/core/storage/segment-management.md:12`
  ("`baseOffset` is the first logical record offset assigned to the segment"). An instance of `DiskLog` with
  `Workloads = {{"queued", "roll"}}` violates `SegmentsReadable` in three steps: `Enqueue`, `SegmentTicker`,
  `FlushDisk`. After a failed fsync a timed roll may leave an offset in two segments, and acks=0 and acks=1 on
  one partition may be written out of order (`pkg/disk/handler.go:365`). `disk` has no such mix and
  `WorkloadsAssumption` excludes them.
- `TruncateTo` looks for readers before it takes its lock (`pkg/disk/truncate.go:23`).
- A standalone broker that restarts with a committing transaction that has staged offsets has lost the group's
  membership; recovery fails and with it startup (`pkg/server/main.go:225`; `docs/protocol-spec.md:531` and `:597`
  say it retries). `RestartFinishes` excepts "offsets".
- When retention passes a group's committed offset, `resolveOffset` prefers that offset to the one the
  consumer was reset to (`pkg/controller/group_command_helpers.go:74`), so the reset of
  `docs/protocol-spec.md:786` does not last. `Drained` excepts "retention".
- A consumer that resumes a group that no longer exists rejoins only on `member_not_found`
  (`sdk/consumer.go:743`); `Drained` excepts "delete" and "diskfault".
- After an acknowledgement timed out the producer reads each answer one request late on the same
  connection (`sdk/producer_batch.go:233`); a producer forgotten by its TTL, or whose topic was truncated,
  is refused until it restarts. `SentIsAcked` and `AckedOnce` except "ttl", `SentIsAcked` also "late", "truncate", "delete" and "grow".
- A batch whose last attempt meets a topic that is being truncated, has been deleted or lacks the partition is dropped
  (`sdk/producer_batch.go:59-61`), and `Flush` and `Close` return as if it had been acknowledged. `FlushMeansAcked` excepts what was dropped, where the mix
  has "delete", "truncate" or "grow" (`Removable`) and nowhere else; without the exception {"produce", "truncate", "ioerr"} and
  {"produce", "delete", "create"} violate it. The producer's later batches then begin behind a gap, which the broker refuses, so `AckedOnce` holds.
- An epoch tombstone is deleted one retention period after it was made (`pkg/transaction/manager.go:104-108`, and
  `TestManagerDeletesExpiredEpochTombstoneAfterSecondRetentionWindow`), though `docs/user-guide/configuration.md:188` says "Epoch tombstones remain for
  fencing", `docs/protocol-spec.md:533` that the tombstone prevents "an older producer session from being revived" and
  `docs/reference/api-reference.md:573` that it is retained. The next session of the id has epoch 0 and the same producer id, while the logs still hold the first one's records. Its
  open state contradicts the old commit marker (`transactionDecisionMatchesMarker`), so that what was committed is hidden again and the last stable offset moves back; an
  abort answers for records that are in the logs; a commit finds its numbers taken, as duplicates or stale. `AtomicVisible`, `DecisionsHold`, `OffsetsImplyOutput` and
  `LSOStable` therefore speak of the ids that have not been forgotten (`Remembered`, `Tracked`) and `RestartFinishes` of brokers that forgot none. Stated for
  every id, {"txn", "expire"} and {"txn", "shared", "expire"} violate `DecisionsHold` and `LSOStable` in 12 states and `AtomicVisible` in 16.
- Pruning rewrites the journal with a copy of the table made under the state lock of one id (`pkg/controller/transaction_state.go:67-68`); a record that another id
  appends between the copy and the rename is lost. In the model the two are one step.
- An event append reads its offset as `NextOffset() - 1` (`pkg/eventsource/handler.go:374`), which
  a PUBLISH to the partition may have moved; `StreamComplete` excepts partitions somebody else has published to (`Unmixed`). After a failed append the index
  is behind the log, or emptied, and its lock is free until it has been rebuilt: another writer is then let in at a version the
  log already holds. The runs have one writer where appends fail ("solo"), and the theorems say so (`OneAtATime`). A snapshot file that ends inside the two bytes of a length is not truncated there
  (`pkg/eventsource/snapshot_store.go:97`).
- TRUNCATE completes, and lifts its fence, although the cleanup of groups and journal failed
  (`pkg/controller/command_handler.go:243`; the comment at `pkg/topic/truncate.go:210` says the marker comes only after every store
  is clean). The group then keeps offsets of records that are gone. `broker` has no mix of "truncate" with a failing cleanup,
  and `OutputBeforeOffsets` is stated for deployments without it (`CleansUp`).
- DELETE and CREATE begin again at revision 1, so an old expected revision may fit the new topic. A crash inside
  CREATE, DELETE or growth stops the next startup, as `docs/core/storage/disk-persistence.md:79` says
  it should; `RestartFinishes` excepts them.

## 4. Proofs

The theorems hold for every value of the constants that satisfies the named assumptions, so for any
number of brokers, clients, partitions, records, retries, crashes and faults. They hold for every mix of features,
those of the violation runs included, with three exceptions that are stated by name: on disk an assumption leaves out the mixes in which the
code loses the property, the theorems about the content of the replicated logs have the hypothesis `Undisturbed`, and those about transactions the
hypothesis `forgot = {}`. The bounds of the model are parameters of the theorems like the others.

### Replication

Assumptions: the brokers are a finite set of naturals that contains the first leader and the bounds are
naturals (`BrokersAssumption`, `BoundsAssumption`).

*Watermarks.* Restarts, proofs, scans, stale ISR commands, topic updates and
retries are all enabled. The inductive invariant is `TypeInv /\ SafeInv`:

- `TypeInv` adds `Indices` to `TypeOK`: `applied` and `snapshot` point into `metaLog`, and a lane
  has tasks only when the broker has a view. Without it `View(n)` has no type.
- `SafeInv` is `MetadataMonotone`, `CommitEvidence`, `VisibleWithinCommitted`, `StrongAckCommitted`.
  Visibility alone is not inductive: a broker raises its watermark because of a commit
  entry it applies late (hence `MetadataMonotone`: what an old entry names is still below the
  newest HWM), because its task is past the commit, because a request says so, or
  because a scan fetched the records (hence `CommitEvidence`: each carried watermark was committed).

`InitSafe` and `SafeNext` (one step per action) give `Invariance`; from it `TypeCorrect`,
`MetadataNeverRegresses`, `OnlyCommittedVisible`, `StrongAcksCommitted` and
`WatermarksHaveEvidence` follow.

*Records.* What the logs contain is proved for behaviours in which nothing disturbs the partition. `Undisturbed` is
a state predicate: so far no command has put a replica back into the ISR, and there has been no catch-up scan, no topic update and no
restart. Each of the four is needed, as `isr_proof_race`, `restart_replay` and the first weak spot of section 3 show. What
remains is what happens while brokers stay up: concurrent publishers under acks=1 and acks=all, pipelined tasks, timeouts whose effect comes late, requests and
commits of deposed leaders, views that lag by any number of commands, ISR shrinking, failovers, elections, idempotent retries, snapshots and
proofs that are refused.

The inductive invariant is `Lineage` (`Undisturbed => LineageInv`). Its parts, and what each is for:

- `Calm`: nothing but preparation cuts a log, and who matters to a command (`Core`: the leader and the ISR) mattered to every earlier one.
- `CoreHolds`: a replica that mattered to a command agrees with what was committed by then. The half that makes it inductive
  is about fences: no watermark rose under an epoch the replica had not prepared for, so preparing late cuts nothing committed.
- `OneLine`: under the current fence the leader prepares first and the others' logs are prefixes of its log, so one record per offset can be committed.
- `LogOK`, through `Lost`: a record left uncommitted when its epoch ended is never the one committed at that offset later, nor
  in the new leader's log. It tells the tail of a deposed leader from a committed record, which truncation needs.
- `WorkOK`: a task, a request or a proposed commit of the current epoch is backed by the leader's log (`Leads`) and by every replica that matters
  except those still to be asked (`Copied`); one of an old epoch is only bound by `Lost`, because the fences stop it.
- `ShownOK`: a replica that leads or may still come to lead shows no more than was committed when it last mattered. A best-effort copy raises the
  watermark of a replica outside the ISR, which cannot lead again (`OutsiderNeverLeads`).

The steps fall into three kinds, and the proof follows them: a replica prepares its log and perhaps adds a record (`Moves`: publish, retry, replica append),
a command reaches the Raft log (`Commands`: commit, ISR, election), or neither. For each kind one lemma says that `Grounds`, the facts about logs, are kept
and one that work in order stays in order (`Carries`); the lemmas per action then only show that the work they create is in order.
`UndisturbedBefore` (what disturbs does so for good) closes the induction in `LineageHolds`. From it:
`ISRNeverMissesCommitted` and `LeadersShowCommitted` (`Spec => [](Undisturbed => ...)`, so up to the first disturbance), and
`CutsOnlyUncommitted` and `CommittedLogRefined` (`Spec /\ []Undisturbed => ...`): the partition implements
`CommittedLog`, because the leader's log up to the HWM is what the accepted commits covered (`MappedLog`), an accepted commit prolongs it
and a finished task names a record in it.

`ReplicationLaneProofs` assumes only that the capacity is positive (`LaneAssumption`; the code
raises it to 1). Its invariant is `TypeOK /\ LaneInv`. `SubmitNeverBlocks` needs the exact
count `SlotInv`: a slot is a queued task, the task at the worker or the reservation of the
lock's holder; the holder is one because of `LockInv`. `CloseLeavesNothing` needs
`SubmissionInv` (no reservation is left once the workers are cancelled, so nothing enters the
queue after the drain) and `TaskInv` (the worker answers a task before it lets it go).
Theorems: `LaneTypeCorrect`, `ReservationsSuffice`, `NoTaskLost`, `CloseIsClean`.

### Consumer groups

Assumptions: clients are a finite set of naturals, there is a partition, sizes are positive, bounds natural
(`GroupConstants`, `ConsumerConstants`).

`GroupInvariant` is the invariant `GroupInv == CoordInv /\ ClientInv`, and these follow from it:

- `AssignmentsAlwaysCover`. `RebalanceCovers` proves the arithmetic of the range assignment for any numbers of members
  and partitions (each partition falls into exactly one share, and shares differ by at most one); `MemberInv`
  carries it through every change of membership.
- `MetadataAlwaysRecoverable`. The log alone says too little: a record may be ahead of memory because its write
  is pending or failed. `LogInv` says that this is at most one epoch, and only then; `SnapInv` the same for offset revisions,
  and that snapshots bracket the offsets in memory; `LifecycleInv` that what a registration or deletion checked
  before it wrote still holds when it finishes.
- `CommitsAlwaysDurable` needs both of those: what a replay would choose is the newest lifecycle record and of its epoch the
  highest revision, which `SnapInv` puts above everything acknowledged (`AckedInv`).
- `GroupsDeletedEmpty` is an action property. `LifecycleInv` keeps "no members" true from DeleteGroup's check to its
  removal, because registration and joining are excluded in between.

`CommittedIsHandled` (at-least-once) adds `DeliveryInv`, which follows an offset backwards from the commit: the
offsets of the group and of every snapshot in the log were handled (`OffsetsSeen`, `SnapsSeen`), so were those of a
request in flight (`NetInv`) and those fetched before starting (`GotInv`); a partition consumer has handled what it will commit,
and what it has read and not handled waits in its queue, in order, in front of the position it reads from (`WorkInv`). All of
these are claims about a client whose member is still in the group: a fenced client may hold anything, which is
why the fencing of commits is enough. Retention may remove unhandled records; they are excepted by `start`.

### The broker's producer

Assumptions: the sizes are positive and the bounds natural (`LogConstants`, `ProducerConstants`, `TxnConstants`,
`StreamConstants`, `LifecycleConstants`); transactional clients and writers are positive numbers and there is at least one
transactional client. Nothing is assumed of `Works`.

`BrokerInvariant` is `BrokerInv`:

- `ProducerInv`: in every lane the messages disposed of (acknowledged or dropped), in the batch and in the buffer are consecutive runs of the
  sequence numbers handed out (`Consistent`). It must be shown of the sort that puts a batch back in front of newer
  messages (`InOrder`, lemma `Consecutive`). A drain that completes therefore had nothing below its mark in buffer or batch, which is
  `FlushesAcknowledged` where the topic is removable. Elsewhere nothing may have been dropped: `SteadyInv` says that a topic nobody deletes, truncates or
  grows is registered with all its partitions and without a fence whenever the broker is up, so no batch is ever refused.
- `LogInv`: as long as the topic's first storage is there, the producer table remembers the last number `Top` in the log,
  the log holds `1 .. Top` once and in order (`Remembers`), everything acknowledged is at most `Top`, and so is the batch
  when its answer is on its connection. `AcknowledgedOnce` follows. The retry after a lost answer, a batch stored
  in part, and a table rebuilt from the log (`RecoverRemembers`) are the steps that need the table and the log to agree.
- `TxnInv`: no transaction job writes in the producer's name. `LogsOk`, `TopicOk`, `LifeInv`: a lifecycle command, performed whole, killed inside
  or continued after a failed step, leaves log and table together as they were, the table perhaps rescanned, or begins a new generation.

`AckedOnce` excepts "ttl" (a forgotten producer is refused, see above) and speaks of `topic.gen = 1`: the SDK does not
learn that a topic was truncated or recreated, and its numbers then belong to the storage that is gone.

The records a batch or a rescan produces are values of recursive functions. `EnqueueRun`, `RecoverRun` and `StepRun` show that
the functions exist, and what they compute is proved by minimal counterexample (`LeastNat`, `UpTo`), because the
library's induction theorems cannot be instantiated.

### Event streams

`StreamInvariant` is `StreamInv`, on top of `BrokerInv` and with no further assumption on the constants. It is stated under `OneAtATime`: where appends
or index writes may fail there is one writer, because of the weak spot above. Where they do not, any number of writers race. Two
numbers describe a stream: `k`, the versions the log holds, and `d`, those that have been settled.

- `Versioned`: the aggregate's events in the log are the versions `1 .. k`, once each and in order, whatever others published between them.
- `k` is `d`, or `d + 1` while the one writer at work has its event in the log and no answer yet (`StreamOf`, `WritersOf`): the holder of the lock, or the
  only writer while it recovers.
- The index, when it is open, has `d` entries, none while it is being rebuilt, each at the event of its version when nobody else publishes
  there (`IndexOf`); every append answered OK in this generation is one of the `d` (`AppendsKept`).

`ScanFinds` shows that `IndexMessages` over such a log finds all `k` versions, so that opening or rebuilding the index settles the version in progress.
Records of other clients are no events (`SameEvents`), and lifecycle commands close the index or remove the log only
when no writer is at work (`StreamLeft`). `VersionsUnique` and `StreamsComplete` follow in one state.

### Transactions

Assumptions: those of the broker's producer, and again nothing of `Works`: the theorems hold for every mix of transactions with
the other clients, crashes, lost answers, failed writes, journal failures, expiry, rebalances and topic commands. They hold until the coordinator deletes a
tombstone: the invariants are `[](forgot = {} => ...)` and `StableReads` is about behaviours with `[](forgot = {})`. Expiry to tombstones is inside that, the deletion is
where the code itself loses the properties (section 3). Since nothing is taken out of `forgot` (`ForgotGrows`), a step into a state where it is empty
comes from one, which makes the guarded invariants inductive. TLC checks more: the ids that are remembered beside a forgotten one.

`DecisionInvariant` says that `DecisionInv` holds so far; it adds to `BrokerInv`:

- `CoreInv`, what the parts of the coordinator may say of an id. Memory is what the journal says, or ahead of it by
  a PrepareCommit that could not be journaled (`StateInv`); an unacknowledged journal record may become the truth at a restart, so
  it must be a possible successor (`TailInv`); an epoch is decided only if it was prepared, and keeps its messages until its
  outcome is recorded (`DecidedInv`); what a client has sent is staged or decided (`ClientInv`); the answers
  given agree (`ToldInv`); a job carries out the durable decision (`WorkInv`); memory, journal and jobs agree
  while the broker restarts (`QuietInv`).
- `OutcomeInv`, the logs. Records and markers of an id are numbered and rise with the epoch (`Orderly`), the producer tables
  track them (`Tracks`), and a record is there only for a decided epoch (`Marked`); a job's list names what
  is not yet in the logs, records before markers before offsets (`Plan`); a finished transaction is whole in the storage it was
  prepared for (`FinInv`), and so is one whose outcome is only in the journal's tail (`TailWhole`).

`AnswersStand` follows: a "committed" answer comes from a finished transaction, whose records are all marked; "aborted" only
for an epoch that is dead, of which nothing was decided and so nothing is in a log. `StableReads` is about a step: a log only
grows at its end, and the coordinator's decision about an epoch with a marker stays "committed" or forgotten, so no
record becomes open again or changes its visibility.

`AllOrNothing` and `OutputBeforeOffsets` speak of the topic after commands that removed some of its directories and not others.
`StoreInvariant` is `StoreInv` for them: a registered topic has its storage and one that is not fenced has the
manifest's epoch (`RegistryOk`); transactions are in declared directories only (`PlacedOk`); a finished transaction has all of
its records, or none, or misses a directory, which no served topic does (`DoneOk`); the group's offsets have their output or
the storage is unfit to be served (`OffsOk`); jobs that passed their validation find their partitions (`JobsOn`).
A lifecycle command is one step of the specification with many inside: `Track` carries this invariant, with flags for
what was already done (`Flags`), through each of them, the half-done ones and what `Rest` still does (`PerformTracks`).
What cannot be proved of TRUNCATE with a failing cleanup is the condition `CleansUp` of `OutputBeforeOffsets`.

### The disk log

Assumptions: sizes are positive, bounds natural, there is a kind of record (`DiskConstants`); and
`WorkloadsAssumption`, the only assumption here that a configuration of the broker can fail to meet. It has three parts. One kind of
writer on a partition: a client that mixes acks=0 and acks=1 may have its records written out of order. A compacted
range is only installed by replication: `WriteCompactedReplicaRange` has no other caller. No timed roll beside queued
records or failed writes: the first weak spot of section 3 shows what happens otherwise. Every other combination of queueing, rolling,
retention, compaction, ranges, truncation, readers, failed writes and crashes is covered, and so are segment, batch and
channel sizes, offsets, crashes and faults without limit.

`DiskInvariant` is the inductive invariant `DiskInv`:

- `FileInv`, the files: bases are sorted and segments do not overlap, a segment without a sidecar is a
  consecutive run from its base, one with a sidecar rises, the last one has none (`FilesOk`); each acknowledged record is
  stored, superseded or retained away (`Survive`); segments meet without a hole (`Whole`) or at least as far as the cluster
  watermark (`Covers`), which is all that is left in the middle of a truncation and after a crash there. In a cluster the
  committed part is below the synced length.
- `PendingOk`, `WorkOk`: what a range installation and a truncation have done so far. The invariant is stated of `Files` and
  `Syncs`, the files without a pending range, because its segment may be there or not, and a restart completes it.
- `TailOk`: what the handler has assigned is in the last segment or queued behind it, consecutively; a failed write leaves
  one record more than the handler counts. `MarkOk`: watermark and checkpoint do not pass the cluster's.
- `PassOk`: what a compaction pass will drop has a later durable record of its key outside of what it drops and is no
  producer's last. A pass takes the lock again for every segment, so this has to survive writes, rolls and reads in between.
- `TypeOk`, `ModeOk`, `ReaderOk`: types; which caller can have left what; a reader's segment is there and committed.

The first part of the module proves what one file operation does to any segments: roll, append, range, removal of the
oldest or the latest, cut, rewrite. `Without` and `FindTruncatePosition` are proved by minimal counterexample (`LeastNat`), like the
recursive functions above. The second part has one lemma per action (`EnqueueKeeps` ... `NewDiskHandlerKeeps`), `StepKeeps` puts
them together. `RecoveredOk` shows that a restart finds well-formed files in every state, which is what `Crash` and
`NewDiskHandler` need and what `AlwaysReadable` says. `AckedAlwaysSurvive`, `ProducersAlwaysAnchored` and
`ServedAlwaysPresent` follow from `DiskInv` in one state; `ReadersUndisturbed` is about a step.

### Only model-checked

- Liveness (`CloseTerminates`, `WaitersAnswered`, `QueueDrains`, `Drained`, `SentIsAcked`, `RestartFinishes`, ...): outside the prover, as is ENABLED.
- What replicated logs contain once a replica has been re-admitted to the ISR, a scan or a topic update has run or a broker has restarted: the properties
  fail there in general (section 3), and the weaker ones that hold are the watermark theorems.
- Event streams where appends fail beside other writers, and `CleanSlate` of lifecycle commands.

## 5. Not modelled

- Replication: batches of several records, compacted catch-up, topic deletion and lifecycle
  epochs in the FSM, broker registration and discovery, and the two separate metadata reads of the leader
  preparation, which are one step.
- Disk: the sparse index, the reader cache, files changed from outside. The producer-state
  checkpoint file is an optimisation of the rebuild from the log that is modelled.
- Groups: topic patterns, upgrade of old group state, export, several topics in a group, the SDK's
  direct commit when its commit channel is full; of streams the scheduler, keepalives and control frames.
- A journal append that succeeds before a rewrite that fails: the caller gets an error though its record is durable, as after an unacknowledged append that
  surfaces at restart, but the running broker already knows; and a rewrite racing with an append (section 3).
- The watermark checkpoint of a replica: a restart without a snapshot begins at HWM 0 in `PartitionReplication`, where the code begins at the checkpoint, cut to the
  local log (`pkg/topic/partition.go:141`; `DiskLog` has it).
- Transactions of a cluster (TXN_SYNC and the FSM's snapshots), forwarding to the coordinator; event
  sourcing in a cluster.
- SDK: admin client, producers against a cluster, sagas and the event framework, which are built on the
  operations that are modelled.
- Topic policies, access control, storage migration.
- Text commands, framing, compression, TLS, configuration, metrics and tools: no protocol state.

## 6. Plan

1. Done: all modules of section 2; proofs of replication (watermarks, and the content of the logs up to the refinement of `CommittedLog`) and of the lane, of consumer groups with
   at-least-once delivery, of the idempotent producer, event streams and transactions on the whole broker, and of the disk log.
2. Proofs next: `CleanSlate`, on the tracking of lifecycle commands in `TransactionProofs`.
3. If PARTITION_COMMIT and ISR_CATCHUP come to compare the ISR, drop `Shrinking` from `Undisturbed`; the invariant then needs `Copied` for a re-admitted member.
4. Further modelling: cluster transactions, lifecycle epochs in the FSM.
