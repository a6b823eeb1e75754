---------------------------- MODULE Transactions ----------------------------
(***************************************************************************)
(* Transactions of a standalone broker: the transaction manager            *)
(* (pkg/transaction), the command handlers that stage, prepare, apply and  *)
(* recover (pkg/controller/transaction_*.go) and the SDK's transactional   *)
(* producer (sdk/transaction.go).  Messages and offsets are only staged    *)
(* while a transaction is open; END_TXN first makes the decision to commit *)
(* durable (committing), then appends the records, a commit marker to each *)
(* touched partition and the group's offsets, then records the outcome.    *)
(* Restart finishes whatever the journal says is committing before the     *)
(* broker serves clients.                                                  *)
(***************************************************************************)
EXTENDS IdempotentProducer

CONSTANTS
    TxnClients,            \* the transactional producers, 1 .. n
    MaxEpoch, MaxStaged    \* bounds of a shared id: its epochs, the messages of a transaction

ASSUME TxnConstants ==
    /\ TxnClients \subseteq Nat \ {0} /\ TxnClients # {}
    /\ MaxEpoch \in Nat /\ MaxStaged \in Nat

VARIABLES
    txns,      \* Manager.txns
    journal,   \* the latest acknowledged journal record of each id
    tail,      \* an unacknowledged record that may be in the file
    job,       \* per id: the END_TXN or the recovery being carried out
    client,    \* each transactional producer
    group,     \* the consumer group of the staged offsets: membership and generation
    goff,      \* the transactions whose offsets the group has committed
    told,      \* what a client was answered about an id's epoch
    decided,   \* the messages an id's epoch had staged when it was prepared, and for which storage
    forgot     \* the ids whose epoch tombstone was deleted

txnVars == <<txns, journal, tail, job, client, group, goff, told, decided, forgot>>

Ids == IF Does("shared") THEN {Min(TxnClients)} ELSE TxnClients
IdOf(c) == IF Does("shared") THEN Min(TxnClients) ELSE c
Epochs == 0 .. MaxEpoch

\* Bounds: an id of one's own has one epoch; transactions have one message there and where they expire.
EpochBound == IF Does("shared") THEN MaxEpoch ELSE 0
StagedBound == IF Does("shared") /\ ~Does("expire") THEN MaxStaged ELSE 1

NoTxn == [state |-> None, epoch |-> -1, ready |-> FALSE, expired |-> FALSE, msgs |-> <<>>, offs |-> 0]
Nobody == 0
Recovery == -1
NoJob == [todo |-> <<>>, by |-> Nobody]
Terminal(tx) == tx.state \in {"committed", "aborted"}

TxnInit ==
    /\ txns = [i \in Ids |-> NoTxn] /\ journal = txns /\ tail = <<>>
    /\ job = [i \in Ids |-> NoJob]
    /\ client = [c \in TxnClients |-> [at |-> "new", epoch |-> -1, sent |-> {}]]
    /\ group = [member |-> TRUE, gen |-> 1]
    /\ goff = {} /\ forgot = {}
    /\ told = [i \in Ids |-> [e \in Epochs |-> [what |-> None, msgs |-> {}]]]
    /\ decided = [i \in Ids |-> [e \in Epochs |-> [gen |-> 0, msgs |-> {}]]]

(***************************************************************************)
(* Staging.  A command takes the id's state lock, changes the manager's    *)
(* memory and appends the snapshot to the journal.                         *)
(***************************************************************************)
Locked(i) == job[i] # NoJob
Serving(i) == up = "up" /\ ~Locked(i)

\* syncTransactionState and persistFinalTransactionDecision succeed: Append, which first cuts an
\* unacknowledged tail.
Sync(i, tx) ==
    /\ txns' = [txns EXCEPT ![i] = tx] /\ journal' = [journal EXCEPT ![i] = tx]
    /\ tail' = <<>>

\* Append fails: the record may have reached the file; memory becomes what the handler leaves.
SyncFails(i, tx, left) ==
    /\ Does("journal") /\ Fault
    /\ txns' = [txns EXCEPT ![i] = left] /\ UNCHANGED journal
    /\ tail' \in {<<>>, <<i, tx>>}

SetClient(c, r) == client' = [client EXCEPT ![c] = r]

\* The command's answer reaches the client, or it is lost and the client keeps its state.
Answered(c, r) ==
    \/ SetClient(c, r) /\ UNCHANGED faults
    \/ Does("lost") /\ Fault /\ UNCHANGED client

\* InitProducer even while the transaction is committing.
InitWhileCommitting(tx) == tx.epoch < EpochBound

\* InitProducer: a new epoch, refused while the previous one is committing.
MayInit(tx) == tx.state # "committing" /\ tx.epoch < EpochBound
NewSession(tx) ==
    [NoTxn EXCEPT !.state = "aborted", !.epoch = tx.epoch + 1, !.ready = TRUE]

\* handleInitProducerID, from NewTransactionalProducer, Reinitialize or Begin.
InitProducerID(c) ==
    LET i == IdOf(c)
        tx == NewSession(txns[i]) IN
    /\ Does("txn") /\ client[c].at # "ready" /\ Serving(i) /\ MayInit(txns[i])
    /\ \/ Sync(i, tx) /\ Answered(c, [at |-> "ready", epoch |-> tx.epoch, sent |-> {}])
       \/ SyncFails(i, tx, txns[i]) /\ UNCHANGED client
    /\ UNCHANGED <<work, logVars, producerVars, up, job, group, goff, told, decided, forgot>>

\* validateOwner
Owns(c) == LET tx == txns[IdOf(c)] IN ~tx.expired /\ tx.epoch = client[c].epoch

\* Manager.Begin: needs a session that has not been used.
MayBegin(tx) == tx.ready /\ Terminal(tx)
Begin(tx) == [NoTxn EXCEPT !.state = "open", !.epoch = tx.epoch]

\* handleBeginTxn
BeginTxn(c) ==
    LET i == IdOf(c)
        tx == Begin(txns[i]) IN
    /\ client[c].at = "ready" /\ Serving(i)
    /\ Owns(c) /\ MayBegin(txns[i])
    /\ \/ Sync(i, tx) /\ Answered(c, [client[c] EXCEPT !.at = "open"])
       \/ SyncFails(i, tx, txns[i]) /\ UNCHANGED client
    /\ UNCHANGED <<work, logVars, producerVars, up, job, group, goff, told, decided, forgot>>

\* A BEGIN whose answer was lost finds the session used: the application starts a new one.
BeginRefused(c) ==
    /\ client[c].at = "ready" /\ Serving(IdOf(c)) /\ Owns(c) /\ ~txns[IdOf(c)].ready
    /\ SetClient(c, [client[c] EXCEPT !.at = "new"])
    /\ UNCHANGED <<work, faults, logVars, producerVars, up, txns, journal, tail, job, group, goff,
                   told, decided, forgot>>

\* Manager.AddMessage, AddOffsets, PrepareCommit and BuildCommittedSnapshot.
AddMessage(tx, m) == [tx EXCEPT !.msgs = Append(@, m)]
AddOffsets(tx, gen) == [tx EXCEPT !.offs = gen]
PrepareCommit(tx) == [tx EXCEPT !.state = "committing"]
BuildCommitted(tx) == [tx EXCEPT !.state = "committed"]
BuildAborted(tx) == [tx EXCEPT !.state = "aborted"]

\* handleTxnPublish: AddMessage.  Resending after a lost answer stages the message twice.
TxnPublish(c, p) ==
    LET i   == IdOf(c)
        seq == 1 + Cardinality({m \in client[c].sent : m[1] = p})
        tx  == AddMessage(txns[i], <<p, seq>>) IN
    /\ client[c].at = "open" /\ Cardinality(client[c].sent) < StagedBound /\ Len(tx.msgs) <= StagedBound + 1
    /\ HasPartition(p) /\ Serving(i) /\ Owns(c) /\ txns[i].state = "open"
    /\ \/ Sync(i, tx) /\ Answered(c, [client[c] EXCEPT !.sent = @ \cup {<<p, seq>>}])
       \/ SyncFails(i, tx, txns[i]) /\ UNCHANGED client
    /\ UNCHANGED <<work, logVars, producerVars, up, job, group, goff, told, decided, forgot>>

\* ValidateOwnershipFailure
OwnsOffsets(gen) == group.member /\ gen = group.gen

\* handleSendOffsetsToTxn: AddOffsets (of the one group and generation; sent again, a no-op).
SendOffsets(c) ==
    LET i  == IdOf(c)
        tx == AddOffsets(txns[i], group.gen) IN
    /\ Does("offsets") /\ client[c].at = "open" /\ client[c].sent # {}
    /\ Serving(i) /\ Owns(c) /\ txns[i].state = "open" /\ txns[i].offs = 0 /\ OwnsOffsets(group.gen)
    /\ (Sync(i, tx) /\ UNCHANGED faults) \/ SyncFails(i, tx, txns[i])
    /\ UNCHANGED <<work, logVars, producerVars, up, job, client, group, goff, told, decided, forgot>>

(***************************************************************************)
(* END_TXN.                                                                *)
(***************************************************************************)
\* BuildAbortedSnapshot from any active state.
AbortAnyActive(tx) == tx.state \in {"open", "committing"}

\* handleEndTxn result=abort is refused once the transaction is committing.
MayAbort(tx) == tx.state = "open"
Tell(c, what) ==
    told' = [told EXCEPT ![IdOf(c)][client[c].epoch] = [what |-> what, msgs |-> client[c].sent]]

\* handleEndTxn result=abort: the decision is journaled before memory changes.
EndTxnAbort(c) ==
    LET i  == IdOf(c)
        tx == IF MayAbort(txns[i]) THEN BuildAborted(txns[i]) ELSE txns[i] IN
    /\ client[c].at \in {"open", "abort", "commit"} /\ Serving(i) /\ Owns(c)
    /\ tx.state = "aborted"
    /\ \/ /\ MayAbort(txns[i]) /\ Sync(i, tx)
          /\ Answered(c, [client[c] EXCEPT !.at = "new"])
       \/ /\ MayAbort(txns[i]) /\ SyncFails(i, tx, txns[i])
          /\ SetClient(c, [client[c] EXCEPT !.at = "abort"])
       \/ /\ ~MayAbort(txns[i]) /\ SetClient(c, [client[c] EXCEPT !.at = "new"])
          /\ UNCHANGED <<txns, journal, tail, faults>>
    /\ IF client'[c].at = "new" THEN Tell(c, "aborted") ELSE UNCHANGED told
    /\ UNCHANGED <<work, logVars, producerVars, up, job, group, goff, decided, forgot>>

\* The parts of applyTransaction: the records in the order staged, a marker for each touched
\* partition (touchedTransactionPartitions), the offsets.
Records(i, tx) ==
    [n \in DOMAIN tx.msgs |->
        [do |-> "write", p |-> tx.msgs[n][1], rec |-> Record(i, tx.epoch, tx.msgs[n][2], i, FALSE)]]
\* transactionMarkerProducerID
MarkerPid(i) == -1 - i
Markers(i, tx) ==
    LET touched == {m[1] : m \in Range(tx.msgs)}
    IN  [n \in 1 .. Cardinality(touched) |->
           [do  |-> "write",
            p   |-> CHOOSE p \in touched : Cardinality({q \in touched : q < p}) = n - 1,
            rec |-> Record(MarkerPid(i), tx.epoch, 1, i, TRUE)]]
Do(what) == <<[do |-> what]>>
Offsets(tx) == IF tx.offs = 0 THEN <<>> ELSE Do("offsets")

\* applyTransaction with the offsets before the records.
OffsetsFirst(i, tx) ==
    Do("apply") \o Offsets(tx) \o Records(i, tx) \o Markers(i, tx) \o Do("decide")

\* applyTransaction, then commitTransactionDecision.
Todo(i, tx) ==
    Do("apply") \o Records(i, tx) \o Markers(i, tx) \o Offsets(tx) \o Do("decide")

SetJob(i, j) == job' = [job EXCEPT ![i] = j]
Prepared(i, tx, by) ==
    /\ SetJob(i, [todo |-> Todo(i, tx), by |-> by])
    /\ decided' = [decided EXCEPT ![i][tx.epoch] = [gen |-> topic.gen, msgs |-> Range(tx.msgs)]]

\* validateTransaction: the partitions exist and the staged offsets' owner holds its membership.
ValidateTransaction(tx) ==
    /\ \A m \in Range(tx.msgs) : HasPartition(m[1])
    /\ tx.offs = 0 \/ OwnsOffsets(tx.offs)

\* handleEndTxn result=commit takes an open transaction that validateTransaction accepts, and
\* takes up again one that is committing.
MayCommit(tx) ==
    tx.state = "committing" \/ (tx.state = "open" /\ ValidateTransaction(tx))

\* handleEndTxn result=commit: validateTransaction, PrepareCommit and its journal record; a
\* failed append leaves memory committing.
EndTxnCommit(c) ==
    LET i  == IdOf(c)
        tx == PrepareCommit(txns[i]) IN
    /\ client[c].at \in {"open", "commit"} /\ Serving(i) /\ Owns(c)
    /\ MayCommit(txns[i])
    /\ SetClient(c, [client[c] EXCEPT !.at = "commit"])
    /\ \/ Sync(i, tx) /\ Prepared(i, tx, c) /\ UNCHANGED faults
       \/ SyncFails(i, tx, tx) /\ UNCHANGED <<job, decided>>
    /\ UNCHANGED <<work, logVars, producerVars, up, group, goff, told, forgot>>

\* handleEndTxn result=commit, retried after the outcome was recorded.
EndTxnCommitted(c) ==
    /\ client[c].at = "commit" /\ Serving(IdOf(c)) /\ Owns(c) /\ txns[IdOf(c)].state = "committed"
    /\ Tell(c, "committed") /\ SetClient(c, [client[c] EXCEPT !.at = "new"])
    /\ UNCHANGED <<work, faults, logVars, producerVars, up, txns, journal, tail, job, group, goff,
                   decided, forgot>>

\* A fenced, expired or misplaced command: the application gives the transaction up.
TxnRefused(c) ==
    LET tx == txns[IdOf(c)] IN
    /\ client[c].at \in {"ready", "open", "abort", "commit"} /\ Serving(IdOf(c))
    /\ \/ ~Owns(c)
       \/ client[c].at = "commit" /\ tx.state = "open" /\ ~ValidateTransaction(tx)
    /\ SetClient(c, [client[c] EXCEPT !.at = "new"])
    /\ UNCHANGED <<work, faults, logVars, producerVars, up, txns, journal, tail, job, group, goff,
                   told, decided, forgot>>

Doing(i) == IF Locked(i) /\ up # "killed" THEN Head(job[i].todo).do ELSE None
Advance(i) == SetJob(i, [job[i] EXCEPT !.todo = Tail(@)])

\* The handler returns an error (the client may retry), or recovery fails and so does startup.
GiveUpJob(i) == SetJob(i, NoJob)

\* txnApplyMu, then validateTransaction and the ownership fence.
ApplyTransaction(i) ==
    /\ Doing(i) = "apply" /\ \A k \in Ids \ {i} : Doing(k) \in {None, "apply", "decide"}
    /\ IF ValidateTransaction(txns[i]) THEN Advance(i) ELSE GiveUpJob(i)
    /\ UNCHANGED <<work, faults, logVars, producerVars, up, txns, journal, tail, client, group, goff,
                   told, decided, forgot>>

\* publishCommittedTransactionMessage and publishTransactionMarker.
PublishNext(i) ==
    /\ Doing(i) = "write"
    /\ LET next == Head(job[i].todo)
           st   == EnqueueAll(next.p, <<next.rec>>)
       IN  Store(next.p, st) /\ IF st.bad THEN GiveUpJob(i) ELSE Advance(i)
    /\ UNCHANGED <<work, faults, producerVars, up, txns, journal, tail, client, group, goff, told,
                   decided, forgot>>

\* commitTransactionOffsets: ValidateAndCommitOffsetsBulk checks the ownership again.
CommitTxnOffsets(i) ==
    /\ Doing(i) = "offsets"
    /\ IF OwnsOffsets(txns[i].offs)
       THEN Advance(i) /\ goff' = goff \cup {<<i, txns[i].epoch>>}
       ELSE GiveUpJob(i) /\ UNCHANGED goff
    /\ UNCHANGED <<work, faults, logVars, producerVars, up, txns, journal, tail, client, group, told,
                   decided, forgot>>

\* commitTransactionDecision, and END_TXN's answer.
DecideCommitted(i) ==
    LET tx == BuildCommitted(txns[i])
        c  == job[i].by IN
    /\ Doing(i) = "decide" /\ GiveUpJob(i)
    /\ \/ /\ Sync(i, tx)
          /\ IF c \in TxnClients /\ client[c].at = "commit"
             THEN /\ Answered(c, [client[c] EXCEPT !.at = "new"])
                  /\ IF client'[c].at = "new" THEN Tell(c, "committed") ELSE UNCHANGED told
             ELSE UNCHANGED <<client, told, faults>>
       \/ SyncFails(i, tx, txns[i]) /\ UNCHANGED <<client, told>>
    /\ UNCHANGED <<work, logVars, producerVars, up, group, goff, decided, forgot>>

\* A record, a marker or the offsets cannot be written.
ApplyFails(i) ==
    /\ Does("disk") /\ Fault /\ Doing(i) \in {"write", "offsets"}
    /\ GiveUpJob(i)
    /\ UNCHANGED <<work, logVars, producerVars, up, txns, journal, tail, client, group, goff, told,
                   decided, forgot>>

\* pruneExpiredLocked: a transaction that finished a retention period ago becomes an epoch tombstone
\* (expireTransactionLocked), and a tombstone is deleted after another one.
Tombstone(tx) == [tx EXCEPT !.expired = TRUE, !.ready = FALSE, !.msgs = <<>>, !.offs = 0]
Pruned(tx) == IF tx.expired THEN NoTxn ELSE Tombstone(tx)

\* The expired transactions are pruned and the journal rewritten, by syncTransactionState behind the
\* Append of any id and by ConfigureTransactionJournal.  Bound: an id is forgotten once.
PruneExpired(i) ==
    /\ Does("expire") /\ up \in {"up", "recover"} /\ Terminal(txns[i]) /\ i \notin forgot
    /\ txns' = [txns EXCEPT ![i] = Pruned(@)] /\ journal' = txns' /\ tail' = <<>>
    /\ forgot' = IF txns[i].expired THEN forgot \cup {i} ELSE forgot
    /\ UNCHANGED <<work, faults, logVars, producerVars, up, job, client, group, goff, told, decided>>

\* The member leaves the group, or a rebalance moves its generation on.
Rebalance ==
    /\ Does("rebalance") /\ Fault
    /\ group' \in {[group EXCEPT !.member = FALSE], [group EXCEPT !.gen = @ + 1]}
    /\ UNCHANGED <<work, logVars, producerVars, up, txns, journal, tail, job, client, goff, told,
                   decided, forgot>>

(***************************************************************************)
(* Crash and restart.  Group membership is memory.                         *)
(***************************************************************************)
\* OpenJournal that does not look at the file.
LoadNothing(i) == NoTxn

\* ConfigureTransactionJournal: loadLocked and ImportState.
LoadJournal(i) == journal'[i]

Crash ==
    /\ \/ Does("crash") /\ up \in {"up", "recover"} /\ Fault
       \/ up = "killed" /\ UNCHANGED faults
    /\ up' = "down"
    /\ topic' = [topic EXCEPT !.reg = FALSE, !.fenced = FALSE]
    /\ \E surfaced \in {{}, Range(<<tail>>) \ {<<>>}} :
         journal' = [i \in Ids |-> IF \E t \in surfaced : t[1] = i
                                    THEN (CHOOSE t \in surfaced : t[1] = i)[2] ELSE journal[i]]
    /\ txns' = [i \in Ids |-> LoadJournal(i)]
    /\ tail' = <<>> /\ job' = [i \in Ids |-> NoJob]
    /\ group' = [group EXCEPT !.member = FALSE]
    /\ ProducerRestart
    /\ UNCHANGED <<work, log, producers, sends, sdk, client, goff, told, decided, forgot>>

\* RecoverPreparedTransactions: one after the other; an error fails startup, which is tried again.
RecoverTransaction(i) ==
    /\ up = "recover" /\ ~topic.fenced /\ \A k \in Ids : ~Locked(k)
    /\ txns[i].state = "committing"
    /\ Prepared(i, txns[i], Recovery)
    /\ UNCHANGED <<work, faults, logVars, producerVars, up, txns, journal, tail, client, group, goff,
                   told, forgot>>

Ready ==
    /\ up = "recover" /\ ~topic.fenced /\ \A i \in Ids : ~Locked(i) /\ txns[i].state # "committing"
    /\ up' = "up"
    /\ UNCHANGED <<work, faults, logVars, producerVars, txns, journal, tail, job, client, group, goff,
                   told, decided, forgot>>

TxnCommand ==
    \E c \in TxnClients :
        \/ InitProducerID(c) \/ BeginTxn(c) \/ BeginRefused(c) \/ SendOffsets(c)
        \/ EndTxnAbort(c) \/ EndTxnCommit(c) \/ EndTxnCommitted(c) \/ TxnRefused(c)
        \/ \E p \in Partitions : TxnPublish(c, p)
TxnApply(i) == ApplyTransaction(i) \/ PublishNext(i) \/ CommitTxnOffsets(i) \/ DecideCommitted(i)
TxnStep ==
    \/ TxnCommand \/ Rebalance
    \/ \E i \in Ids : TxnApply(i) \/ ApplyFails(i) \/ RecoverTransaction(i) \/ PruneExpired(i)

(***************************************************************************)
(* Properties.                                                             *)
(***************************************************************************)
\* TransactionDecision: what the manager says of an id's epoch.
Decision ==
    [i \in Ids |-> [e \in Epochs |->
        IF txns[i].expired \/ txns[i].epoch # e THEN None ELSE txns[i].state]]

\* What a read_committed reader can be shown of a transaction, record by record.
Shown(i, e) ==
    UNION {{p} \X {n \in RecordsOf(p, i, e) : Visible(p, n, Decision)} : p \in Partitions}

\* The ids the coordinator has known throughout.  Once an id's tombstone is deleted its next session
\* has epoch 0 and the producer id of the first one, and nothing tells the two apart: the properties
\* below are about the others.
Remembered == Ids \ forgot

\* All or nothing, once each: a read_committed reader of the topic sees either no record of a
\* transaction or every message it had staged when it was prepared, each exactly once.
AtomicVisible ==
    topic.reg /\ ~topic.fenced =>
    \A i \in Remembered : \A e \in Epochs :
        \/ Shown(i, e) = {}
        \/ /\ {<<x[1], log[x[1]][x[2]].seq>> : x \in Shown(i, e)} = decided[i][e].msgs
           /\ Cardinality(Shown(i, e)) = Cardinality(decided[i][e].msgs)

\* END_TXN's answers stand: after "committed" every acknowledged message is visible, as long as the
\* storage it went to is there; after "aborted" no record of the transaction is ever in a log.
DecisionsHold ==
    \A i \in Remembered : \A e \in Epochs :
        /\ (told[i][e].what = "committed" /\ decided[i][e].gen = topic.gen) =>
             told[i][e].msgs \subseteq {<<x[1], log[x[1]][x[2]].seq>> : x \in Shown(i, e)}
        /\ told[i][e].what = "aborted" => \A p \in Partitions : RecordsOf(p, i, e) = {}

\* Consume-transform-produce: input offsets are only committed once the output is in the logs,
\* complete and marked; a topic that is truncated or recreated takes them with it.
OffsetsImplyOutput ==
    topic.reg /\ ~topic.fenced =>
    \A x \in goff : x[1] \in Remembered =>
        \A m \in decided[x[1]][x[2]].msgs :
            /\ MarkersOf(m[1], x[1], x[2]) # {}
            /\ \E n \in RecordsOf(m[1], x[1], x[2]) : log[m[1]][n].seq = m[2]

\* The last stable offset of a partition never moves back, and no record below it appears to or
\* disappears from a read_committed reader that has passed it, across commits, new epochs, expiry
\* and restart (short of removing the topic's storage, and of a record whose id is forgotten).
Tracked(p) == \A n \in DOMAIN log[p] : log[p][n].txn \in {Plain} \cup Remembered
LSOStable ==
    [][topic'.gen = topic.gen =>
         \A p \in {q \in Partitions : Tracked(q)'} :
            /\ LastStableOffset(p, Decision)' >= LastStableOffset(p, Decision)
            /\ ReadCommitted(p, Decision) =
                 {i \in ReadCommitted(p, Decision)' : i <= LastStableOffset(p, Decision)}]_<<log, txns>>
=============================================================================
