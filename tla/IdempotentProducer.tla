------------------------- MODULE IdempotentProducer -------------------------
(***************************************************************************)
(* One SDK producer (sdk/producer.go, producer_batch.go, producer_client.go*)
(* and pkg/wire/client.go) publishing with enable_idempotence and acks=all *)
(* to a standalone broker (HandleBatchMessage).  Every partition has a     *)
(* buffer, a sender goroutine and a connection of its own; a send that     *)
(* fails is retried; a batch that exhausts its retries goes back to the    *)
(* buffer, unless the last answer was an error the broker calls final:     *)
(* then it is dropped.                                                     *)
(***************************************************************************)
EXTENDS PartitionLog

CONSTANTS
    BatchSize, BufferSize, MaxRetries,  \* PublisherConfig
    MaxSends                            \* bound: calls of Send

ASSUME ProducerConstants ==
    {BatchSize, BufferSize, MaxRetries + 1} \subseteq Nat \ {0} /\ MaxSends \in Nat

VARIABLES
    lane,     \* per partition: the buffer, the batch being sent and its connection
    sends,    \* calls of Send so far; the round-robin counter rr
    sdk       \* "open", "closing" (Close called), "closed" (done is closed)

producerVars == <<lane, sends, sdk>>

Pid == 0
PlainRecord(s) == Record(Pid, 0, s, Plain, FALSE)

\* buf and batch hold sequence numbers; drain is a registered drain waiter and upto the last
\* sequence number handed out when it was registered; drained the last upto it reported;
\* behind says that the connection's next frame answers an earlier request; acked and dropped are
\* histories, of the messages acknowledged and of those given up.
ProducerInit ==
    /\ lane = [p \in Partitions |->
                 [buf |-> <<>>, batch |-> <<>>, next |-> 0, tries |-> 0, at |-> "idle",
                  conn |-> TRUE, behind |-> FALSE, drain |-> FALSE, upto |-> 0, drained |-> 0,
                  acked |-> {}, dropped |-> {}]]
    /\ sends = 0 /\ sdk = "open"

SetLane(p, l) == lane' = [lane EXCEPT ![p] = l]

\* nextPartition: round robin.
NextPartition == 1 + (sends % NumPartitions)

\* Send: the counter moves on even when the partition's buffer is full.
Send ==
    LET p == NextPartition
        l == lane[p] IN
    /\ Does("produce") /\ sdk = "open" /\ sends < MaxSends
    /\ sends' = sends + 1
    /\ SetLane(p, IF Len(l.buf) >= BufferSize THEN l
                  ELSE [l EXCEPT !.next = @ + 1, !.buf = Append(@, l.next + 1)])
    /\ UNCHANGED <<logVars, sdk>>

\* partitionSender: extract when the batch is full or a drain is wanted, extractAny on linger.
Extracted(l) ==
    IF Len(l.buf) >= BatchSize \/ l.drain \/ sdk # "open"
    THEN {SubSeq(l.buf, 1, IF Len(l.buf) < BatchSize THEN Len(l.buf) ELSE BatchSize)}
    ELSE {l.buf}
Take(p) ==
    LET l == lane[p] IN
    /\ sdk # "closed" /\ l.at = "idle" /\ l.buf # <<>>
    /\ \E batch \in Extracted(l) :
         SetLane(p, [l EXCEPT !.batch = batch, !.at = "write", !.tries = 0,
                              !.buf = SubSeq(@, Len(batch) + 1, Len(@))])
    /\ UNCHANGED <<logVars, sends, sdk>>

\* partitionSender with an empty buffer releases the drain waiters.
Drain(p) ==
    LET l == lane[p] IN
    /\ sdk # "closed" /\ l.at = "idle" /\ l.buf = <<>> /\ l.drain
    /\ SetLane(p, [l EXCEPT !.drain = FALSE, !.drained = l.upto])
    /\ UNCHANGED <<logVars, sends, sdk>>

\* sendBatch returns.
Finish(l) == [l EXCEPT !.batch = <<>>, !.at = "idle"]

\* handleSendFailure without the requeue.
DropBatch(l) == Finish(l)

\* sort.Slice: retried messages first, then by SeqNum.  The retried ones are those with the smallest
\* numbers, and no two of a lane have the same.
InOrder(s) ==
    CHOOSE t \in [DOMAIN s -> Range(s)] :
        Range(t) = Range(s) /\ \A i, j \in DOMAIN s : i < j => t[i] < t[j]

\* handleSendFailure: back to the buffer, in sequence order.
HandleSendFailure(l) == [Finish(l) EXCEPT !.buf = InOrder(@ \o l.batch)]

\* sendWithRetry: another attempt, or sendBatch deals with the last error.
Attempt(l, last) ==
    IF l.tries < MaxRetries THEN [l EXCEPT !.tries = @ + 1, !.at = "write"] ELSE last

\* sendWithRetry fails on the connection or on an answer that is not the request's.
AttemptFails(l) == Attempt(l, HandleSendFailure(l))

\* sendBatch returns without handleSendFailure (isNonRetryableProducerError).
GiveUp(l) == [Finish(l) EXCEPT !.dropped = @ \cup Range(l.batch)]

\* sendWithRetry fails on a BrokerError that is not retryable: it is retried all the same.
AttemptRefused(l) == Attempt(l, GiveUp(l))

\* ReconnectPartition that keeps the connection it has.
KeepConnection(l) == l

\* ReconnectPartition
Reconnected(l) == [l EXCEPT !.conn = TRUE, !.behind = FALSE]

\* WriteWithLength succeeds; on a connection the broker has closed, the read then fails.
Write(p) ==
    /\ sdk # "closed" /\ lane[p].at = "write"
    /\ SetLane(p, IF lane[p].conn THEN [lane[p] EXCEPT !.at = "broker"] ELSE AttemptFails(lane[p]))
    /\ UNCHANGED <<logVars, sends, sdk>>

\* WriteWithLength fails: ReconnectPartition, and the next attempt.
WriteFails(p) ==
    /\ sdk # "closed" /\ lane[p].at = "write" /\ ~lane[p].conn
    /\ SetLane(p, IF up = "up" THEN Reconnected(AttemptFails(lane[p])) ELSE AttemptFails(lane[p]))
    /\ UNCHANGED <<logVars, sends, sdk>>

\* HandleBatchMessage: an append error closes the connection without an answer.
HandleBatch(p) ==
    LET st == EnqueueAll(p, [i \in DOMAIN lane[p].batch |-> PlainRecord(lane[p].batch[i])]) IN
    /\ up = "up" /\ lane[p].at = "broker" /\ HasPartition(p)
    /\ Store(p, st)
    /\ SetLane(p, [lane[p] EXCEPT !.at = "ack", !.conn = @ /\ ~st.bad])
    /\ UNCHANGED <<sends, sdk>>

\* HandleBatchMessage without the topic or its partition, or during a truncation: the answer is a
\* structured error (topic_not_found, partition_not_found, topic_lifecycle_pending), classified as
\* not retryable.
HandleBatchRefused(p) ==
    /\ up = "up" /\ lane[p].at = "broker" /\ ~HasPartition(p)
    /\ SetLane(p, [lane[p] EXCEPT !.at = "refused"])
    /\ UNCHANGED <<logVars, sends, sdk>>

\* A storage error after part of the batch was appended (EnqueueBatchSyncWithMode).
HandleBatchFails(p) ==
    /\ Does("disk") /\ Fault /\ up = "up" /\ lane[p].at = "broker" /\ HasPartition(p)
    /\ \E n \in 0 .. Len(lane[p].batch) - 1 :
         Store(p, EnqueueAll(p, [i \in 1 .. n |-> PlainRecord(lane[p].batch[i])]))
    /\ SetLane(p, [lane[p] EXCEPT !.at = "ack", !.conn = FALSE])
    /\ UNCHANGED <<sends, sdk, work>>

\* The answer: Receive correlates it with the request, and parseAckResponse accepts it or
\* ReadWithLength returns the broker's error.
ReadAck(p) ==
    LET l == lane[p] IN
    /\ sdk # "closed" /\ l.at \in {"ack", "refused"}
    /\ SetLane(p, IF ~l.conn \/ l.behind THEN AttemptFails(l)
                  ELSE IF l.at = "refused" THEN AttemptRefused(l)
                  ELSE [Finish(l) EXCEPT !.acked = @ \cup Range(l.batch)])
    /\ UNCHANGED <<logVars, sends, sdk>>

\* The read deadline expires first; the connection is kept, and its answers come one late.
AckTimeout(p) ==
    /\ Does("late") /\ Fault /\ sdk # "closed" /\ lane[p].at \in {"ack", "refused"} /\ lane[p].conn
    /\ SetLane(p, [AttemptFails(lane[p]) EXCEPT !.behind = TRUE])
    /\ UNCHANGED <<logVars, sends, sdk, work>>

\* The connection breaks, before or after the broker has handled the batch.
ConnBreak(p) ==
    /\ Does("drop") /\ Fault /\ lane[p].conn
    /\ SetLane(p, [lane[p] EXCEPT !.conn = FALSE, !.at = IF @ = "broker" THEN "ack" ELSE @])
    /\ UNCHANGED <<logVars, sends, sdk, work>>

\* cleanStaleProducers: the producer has been idle on this partition for the TTL.
Evict(p) ==
    /\ Does("ttl") /\ Fault /\ lane[p].at = "idle" /\ lane[p].buf = <<>>
    /\ Forget(p, Pid) /\ UNCHANGED <<topic, log, producerVars, work>>

\* requestDrain
RequestDrain == [p \in Partitions |-> [lane[p] EXCEPT !.drain = TRUE, !.upto = lane[p].next]]
Flush ==
    /\ sdk = "open" /\ sends > 0 /\ \A p \in Partitions : ~lane[p].drain
    /\ \E p \in Partitions : lane[p].upto < lane[p].next
    /\ lane' = RequestDrain
    /\ UNCHANGED <<logVars, sends, sdk>>

\* Close drains too, and closes the client once the waiters report or its timeout expires.
CloseProducer ==
    /\ Does("produce") /\ sdk = "open" /\ lane' = RequestDrain /\ sdk' = "closing" /\ UNCHANGED <<logVars, sends>>
CloseClient ==
    /\ sdk = "closing"
    /\ (\A p \in Partitions : ~lane[p].drain) \/ Does("late")
    /\ sdk' = "closed" /\ lane' = [p \in Partitions |-> [lane[p] EXCEPT !.conn = FALSE]]
    /\ UNCHANGED <<logVars, sends>>

ProducerStep ==
    \/ Send \/ Flush \/ CloseProducer \/ CloseClient
    \/ \E p \in Partitions : Take(p) \/ Drain(p) \/ Write(p) \/ WriteFails(p) \/ HandleBatch(p)
                               \/ HandleBatchRefused(p) \/ ReadAck(p)
ProducerFault ==
    \E p \in Partitions : HandleBatchFails(p) \/ AckTimeout(p) \/ ConnBreak(p) \/ Evict(p)

\* The producer's part of a broker restart.
ProducerRestart ==
    lane' = [p \in Partitions |->
               [lane[p] EXCEPT !.conn = FALSE, !.at = IF @ = "broker" THEN "ack" ELSE @]]

\* The producer's records in a partition's log.
Own(p) == {i \in DOMAIN log[p] : log[p][i].pid = Pid}

(***************************************************************************)
(* Exactly once: what was acknowledged is in the partition's log exactly   *)
(* once, and the producer's records are there in the order they were sent, *)
(* without a gap, whatever answers were lost and batches resent (until     *)
(* the topic's storage is removed).                                        *)
(***************************************************************************)
AckedOnce ==
    ~Does("ttl") /\ topic.gen = 1 =>
    \A p \in Partitions :
        /\ \A i, j \in Own(p) : i < j => log[p][i].seq < log[p][j].seq
        /\ \A i \in Own(p) : log[p][i].seq = 1 \/ \E j \in Own(p) : log[p][j].seq = log[p][i].seq - 1
        /\ \A s \in lane[p].acked : \E i \in Own(p) : log[p][i].seq = s

\* A drain that reports completion has had every earlier message acknowledged, short of batches whose
\* last attempt met a broker without the partition, where the topic is deleted, truncated or still to
\* get its partitions.
Removable == {"delete", "truncate", "grow"} \cap work # {}
FlushMeansAcked ==
    \A p \in Partitions :
        1 .. lane[p].drained \subseteq lane[p].acked \cup (IF Removable THEN lane[p].dropped ELSE {})

\* Every message that Send accepted is acknowledged in the end (short of a batch that may be dropped, a
\* producer that was forgotten, with its topic or by the TTL, or a connection that answers one late,
\* which nothing repairs).
Delivered(p) == \A s \in 1 .. lane[p].next : s \in lane[p].acked
SentIsAcked ==
    []<>({"ttl", "late", "truncate", "delete", "grow"} \cap work = {} => \A p \in Partitions : Delivered(p))
=============================================================================
