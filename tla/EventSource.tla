----------------------------- MODULE EventSource -----------------------------
(***************************************************************************)
(* Event sourcing on a standalone broker (pkg/eventsource, the handlers of *)
(* pkg/controller/eventsource_handler.go and sdk/eventstore.go): writers   *)
(* append versioned events of one aggregate under optimistic concurrency,  *)
(* save snapshots and read the stream through an index derived from the    *)
(* partition's log.  The index lock is held from the version check to the  *)
(* index entry; after an error the index is emptied and rebuilt, without   *)
(* the lock in between.                                                    *)
(***************************************************************************)
EXTENDS Transactions

CONSTANTS
    Writers,      \* the SDK's EventStore clients
    MaxEvents     \* bound: the versions of the aggregate

ASSUME StreamConstants == Writers \subseteq Nat \ {0} /\ MaxEvents \in Nat

VARIABLES
    index,     \* the StreamIndex of the aggregate's partition: open, entries, lock holder
    snap,      \* the SnapshotStore: open, the latest version saved, a torn entry at the end
    writer,    \* each writer's APPEND_STREAM in progress
    appended   \* the appends answered OK: version, writer and the storage they went to

streamVars == <<index, snap, writer, appended>>

Aggregate == "aggregate"
Home == 1               \* GetPartitionForMessage of the aggregate's key

Event(v, c) == [Record(NoPid, c, v, Plain, FALSE) EXCEPT !.key = Aggregate]
Closed == [open |-> FALSE, at |-> <<>>, lock |-> Nobody]

StreamInit ==
    /\ index = Closed
    /\ snap = [open |-> FALSE, version |-> 0, torn |-> None]
    /\ writer = [c \in Writers |-> [at |-> "idle", version |-> 0]]
    /\ appended = {}

\* indexMessages: the next version of the aggregate is indexed at the record's offset, older ones
\* are skipped and a gap ends the scan.
IndexMessage(at, n) ==
    LET r == log[Home][n]
    IN  IF r.key = Aggregate /\ r.seq = Len(at) + 1 THEN Append(at, n) ELSE at

\* RecoverIndexFromLog without the scan.
KeepIndex(at) == at

\* RecoverIndexFromLog: the whole log.
IndexMessages(at) ==
    LET scan[n \in 0 .. Len(log[Home])] == IF n = 0 THEN at ELSE IndexMessage(scan[n - 1], n)
    IN  scan[Len(log[Home])]

\* getIndex: the index is rebuilt from the log when it is first used (RecoverIndexFromLog).
GetIndex == IF index.open THEN index ELSE [Closed EXCEPT !.open = TRUE, !.at = IndexMessages(<<>>)]

SetWriter(c, at, v) == writer' = [writer EXCEPT ![c] = [at |-> at, version |-> v]]
Streaming(c) == up = "up" /\ HasPartition(Home) /\ (Does("solo") => c = Min(Writers))

\* CheckEnqueueAndAppend that takes any version beyond the current one.
AcceptsLater(at, v) == v > Len(at)

\* CheckEnqueueAndAppend's version check.
Accepts(at, v) == v = Len(at) + 1

\* AppendStream: the check, then EnqueueSync under the index lock; a refusal changes nothing more.
AppendStream(c, v) ==
    /\ Does("events") /\ Streaming(c) /\ writer[c].at = "idle" /\ index.lock = Nobody
    /\ IF ~Accepts(GetIndex.at, v)
       THEN index' = GetIndex /\ UNCHANGED <<logVars, writer, faults>>
       ELSE \/ /\ log' = [log EXCEPT ![Home] = Append(@, Event(v, c))]
               /\ index' = [GetIndex EXCEPT !.lock = c]
               /\ SetWriter(c, "enqueued", v) /\ UNCHANGED <<topic, producers, faults>>
            \/ /\ Does("disk") /\ Fault
               /\ index' = GetIndex /\ SetWriter(c, "failed", v) /\ UNCHANGED logVars
    /\ UNCHANGED <<snap, appended>>

\* The append's answer, which may be lost.
Succeeds(c) ==
    /\ SetWriter(c, "idle", 0)
    /\ \/ appended' = appended \cup {<<writer[c].version, c, topic.gen>>} /\ UNCHANGED faults
       \/ Does("lost") /\ Fault /\ UNCHANGED appended

\* appendLocked at the offset NextOffset() - 1, or its write to the index file fails.
AppendLocked(c) ==
    /\ up = "up" /\ writer[c].at = "enqueued"
    /\ \/ /\ index' = [index EXCEPT !.at = Append(@, Len(log[Home])), !.lock = Nobody]
          /\ Succeeds(c)
       \/ /\ Does("index") /\ Fault
          /\ index' = [index EXCEPT !.lock = Nobody]
          /\ SetWriter(c, "failed", writer[c].version) /\ UNCHANGED appended
    /\ UNCHANGED <<logVars, snap>>

\* RecoverIndexFromLog after an error: Reset, then the scan.  The append succeeded after all when
\* the rebuilt index holds its version.
ResetIndex(c) ==
    /\ up = "up" /\ writer[c].at = "failed" /\ index.lock = Nobody
    /\ index' = [index EXCEPT !.at = <<>>]
    /\ SetWriter(c, "reset", writer[c].version)
    /\ UNCHANGED <<logVars, snap, appended, faults>>
RebuildIndex(c) ==
    LET at == IndexMessages(index.at) IN
    /\ up = "up" /\ writer[c].at = "reset" /\ index.lock = Nobody
    /\ index' = [index EXCEPT !.at = at]
    /\ IF Len(at) = writer[c].version THEN Succeeds(c)
       ELSE SetWriter(c, "idle", 0) /\ UNCHANGED <<appended, faults>>
    /\ UNCHANGED <<logVars, snap>>

\* NewSnapshotStore: loadFromDisk cuts a torn entry off, unless exactly its length was written.
OpenStore ==
    IF snap.torn = "length" THEN snap
    ELSE [snap EXCEPT !.open = TRUE, !.torn = None]

\* SaveSnapshot's check: not beyond the stream.
WithinStream(v) == v <= Len(GetIndex.at)

\* SnapshotStore.Save whole, and killed between the writes of its entry.
Save(v) == [OpenStore EXCEPT !.version = v]
TornSave == {[OpenStore EXCEPT !.torn = torn] : torn \in {"length", "more"}}

\* SaveSnapshot: the last one saved wins; the process may be killed between its writes.
SaveSnapshot(c, v) ==
    /\ Does("events") /\ Streaming(c) /\ writer[c].at = "idle" /\ index.lock = Nobody
    /\ WithinStream(v) /\ OpenStore.open
    /\ index' = GetIndex
    /\ \/ snap' = Save(v) /\ UNCHANGED <<up, faults>>
       \/ /\ Does("crash") /\ Fault /\ up' = "killed"
          /\ snap' \in TornSave
    /\ UNCHANGED <<logVars, writer, appended>>

\* A PUBLISH to the same partition.
PlainPublish ==
    /\ Does("plain") /\ up = "up" /\ HasPartition(Home) /\ Len(log[Home]) <= MaxEvents
    /\ log' = [log EXCEPT ![Home] = Append(@, Record(NoPid, 0, 0, Plain, FALSE))]
    /\ UNCHANGED <<topic, producers, streamVars, faults>>

StreamStep ==
    \/ /\ \/ PlainPublish
          \/ \E c \in Writers : AppendLocked(c) \/ ResetIndex(c) \/ RebuildIndex(c)
                                  \/ \E v \in 1 .. MaxEvents : AppendStream(c, v)
       /\ UNCHANGED up
    \/ \E c \in Writers : \E v \in 1 .. MaxEvents : SaveSnapshot(c, v)

\* A crash ends the requests and closes the files.
StreamRestart ==
    /\ index' = Closed /\ snap' = [snap EXCEPT !.open = FALSE]
    /\ writer' = [c \in Writers |-> [at |-> "idle", version |-> 0]]
    /\ UNCHANGED appended

(***************************************************************************)
(* Properties.                                                             *)
(***************************************************************************)
\* HandleReadStream: the event at a version's indexed offset.
ReadEvent(v, e) == v \in DOMAIN GetIndex.at /\ log[Home][GetIndex.at[v]] = e

\* The acknowledged events that no truncation or deletion removed.
Kept == {x \in appended : x[3] = topic.gen}

\* An index that no request is emptying and rebuilding; a reader is shown less during that.
Settled == \A c \in Writers : writer[c].at # "reset"

\* The aggregate's events, and whether nobody else has published to their partition.
Events == {n \in DOMAIN log[Home] : log[Home][n].key = Aggregate}
Unmixed == Events = DOMAIN log[Home]

\* Optimistic concurrency: no two appends of a version are both answered OK, and the log holds one
\* event for each version of the aggregate, in order, whoever wrote it and whatever failed.
OneEventPerVersion ==
    /\ \A m, n \in Events : m < n => log[Home][m].seq < log[Home][n].seq
    /\ \A n \in Events : {log[Home][m].seq : m \in Events \cap (1 .. n)} = 1 .. log[Home][n].seq
    /\ \A x \in Kept : \E n \in Events : log[Home][n].seq = x[1] /\ log[Home][n].epoch = x[2]

\* READ_STREAM gives every acknowledged event at its version, after
\* failed appends, restarts and rebuilt indexes (a PUBLISH to the same partition can come between
\* an event and the reading of its offset).
StreamComplete ==
    topic.reg /\ ~topic.fenced /\ Settled /\ Unmixed =>
        \A x \in Kept : ReadEvent(x[1], Event(x[1], x[2]))
=============================================================================
