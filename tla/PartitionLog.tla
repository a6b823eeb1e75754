---------------------------- MODULE PartitionLog ----------------------------
(***************************************************************************)
(* The partitions of a topic as idempotent producers, the transaction      *)
(* coordinator and read_committed readers use them (pkg/topic/partition.go)*)
(* Records are durable when they are appended (module DiskLog) and stay    *)
(* with a failed-over leader (module PartitionReplication); the producer   *)
(* table is memory, rebuilt from the log at start.                         *)
(***************************************************************************)
EXTENDS Integers, FiniteSets, FiniteSetsExt, Sequences, SequencesExt, Functions

CONSTANTS
    NumPartitions,
    Works,         \* the deployments and faults checked: sets of feature names
    MaxFaults      \* bound: faults of every kind together (one unless the work says "twice")

ASSUME LogConstants == NumPartitions \in Nat \ {0} /\ MaxFaults \in Nat

VARIABLES
    work,        \* this behaviour's deployment and faults, a member of Works
    up,          \* "up"; "killed" inside a lifecycle command; "down"; "recover" at startup
    topic,       \* TopicManager's registry entry for the topic, and its truncation fence
    log,         \* the records of each partition
    producers,   \* producerState: what each partition remembers of each producer
    faults

logVars == <<topic, log, producers>>

Does(what) == what \in work
Standalone == ~Does("cluster")
Partitions == 1 .. NumPartitions
Fault      == faults < (IF Does("twice") THEN MaxFaults ELSE 1) /\ faults' = faults + 1
None       == "none"
Plain      == 0                      \* the transactional id of an ordinary record

\* A record: producer, epoch, sequence, transactional id, whether it is a commit marker, and the
\* aggregate whose event it is (module EventSource).
Record(pid, e, s, t, mark) ==
    [pid |-> pid, epoch |-> e, seq |-> s, txn |-> t, mark |-> mark, key |-> None]
NoPid == -1

LogInit ==
    /\ work \in Works /\ faults = 0 /\ up = "up"
    /\ topic = [reg |-> TRUE, fenced |-> FALSE, gen |-> 1,
                parts |-> IF Does("grow") THEN 1 ELSE NumPartitions]
    /\ log = [p \in Partitions |-> <<>>]
    /\ producers = [p \in Partitions |-> << >>]

\* GetTopic and GetPartition: nothing while a truncation is pending.
HasPartition(p) == topic.reg /\ ~topic.fenced /\ p <= topic.parts

(***************************************************************************)
(* Producer sequences.                                                     *)
(***************************************************************************)
\* validateAgainstProducerState with the duplicate check left out.
AppendAgain(known, m) ==
    IF m.pid \notin DOMAIN known THEN IF m.seq = 1 THEN "append" ELSE "error"
    ELSE IF m.epoch < known[m.pid].epoch THEN "error" ELSE "append"

\* validateProducerMessageWithStage against what a partition knows of the producer.
ValidateProducer(known, m) ==
    IF m.pid \notin DOMAIN known THEN IF m.seq = 1 THEN "append" ELSE "error"
    ELSE LET last == known[m.pid]
         IN  IF m.epoch < last.epoch THEN "error"
             ELSE IF m.epoch > last.epoch THEN IF m.seq = 1 THEN "append" ELSE "error"
             ELSE IF m.seq <= last.seq THEN "duplicate"
             ELSE IF m.seq = last.seq + 1 THEN "append" ELSE "error"

\* updateProducerState
Known(known, m) ==
    IF m.pid = NoPid THEN known
    ELSE [q \in DOMAIN known \cup {m.pid} |->
            IF q = m.pid THEN [epoch |-> m.epoch, seq |-> m.seq] ELSE known[q]]

\* enqueueSync and EnqueueBatchSyncWithMode: the messages in turn, up to the first error.
Enqueue(st, m) ==
    LET verdict == ValidateProducer(st.known, m)
    IN  IF st.bad \/ verdict = "error" THEN [st EXCEPT !.bad = TRUE]
        ELSE IF verdict = "duplicate" THEN st
        ELSE [st EXCEPT !.recs = Append(@, m), !.known = Known(@, m)]
EnqueueAll(p, msgs) ==
    LET st[n \in 0 .. Len(msgs)] ==
          IF n = 0 THEN [recs |-> log[p], known |-> producers[p], bad |-> FALSE]
          ELSE Enqueue(st[n - 1], msgs[n])
    IN  st[Len(msgs)]
Store(p, st) ==
    /\ log' = [log EXCEPT ![p] = st.recs]
    /\ producers' = [producers EXCEPT ![p] = st.known]
    /\ UNCHANGED topic

\* RecoverProducerStateFromLog: the last record of each producer.
RecoverProducers(recs) ==
    LET known[n \in 0 .. Len(recs)] == IF n = 0 THEN << >> ELSE Known(known[n - 1], recs[n])
    IN  known[Len(recs)]

\* cleanStaleProducers: a producer idle for the TTL is forgotten.
Forget(p, pid) ==
    producers' = [producers EXCEPT ![p] = RestrictDomain(@, LAMBDA q : q # pid)]

(***************************************************************************)
(* Transactions in the log.  states maps a transactional id and an epoch   *)
(* to the coordinator's state for it, None when it no longer knows.        *)
(***************************************************************************)
RecordsOf(p, t, e) == {i \in DOMAIN log[p] : log[p][i].txn = t /\ log[p][i].epoch = e /\ ~log[p][i].mark}
MarkersOf(p, t, e) == {i \in DOMAIN log[p] : log[p][i].txn = t /\ log[p][i].epoch = e /\ log[p][i].mark}

\* The commit marker behind record i counts when the coordinator agrees or has forgotten the
\* epoch (transactionDecisionMatchesMarker; the index keeps the latest marker).
Resolved(p, i, states) ==
    LET r == log[p][i] IN
    /\ \E j \in MarkersOf(p, r.txn, r.epoch) : j > i
    /\ states[r.txn][r.epoch] \in {None, "committed"}

\* isReadCommittedVisible
Visible(p, i, states) ==
    ~log[p][i].mark /\ (log[p][i].txn = Plain \/ Resolved(p, i, states))

\* firstUnresolvedOpenOffset: of each transaction the index keeps the first record.
LastStableOffset(p, states) ==
    LET open == {i \in DOMAIN log[p] :
                    LET r == log[p][i] IN
                    r.txn # Plain /\ ~r.mark /\ i = Min(RecordsOf(p, r.txn, r.epoch))
                        /\ ~Resolved(p, i, states)}
    IN  IF open = {} THEN Len(log[p]) ELSE Min(open) - 1

\* ReadCommitted from the start: what a reader is given now.
ReadCommitted(p, states) ==
    {i \in 1 .. LastStableOffset(p, states) : Visible(p, i, states)}
=============================================================================
