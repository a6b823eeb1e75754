------------------------------- MODULE DiskLog -------------------------------
(***************************************************************************)
(* The log of one partition on one broker: pkg/disk/DiskHandler below the  *)
(* Partition of pkg/topic that owns it.  Segment files, the asynchronous   *)
(* write channel and its flush loop, synchronous writes, the sync loop,    *)
(* segment rolling, retention, compaction, installation of a compacted     *)
(* range on a follower, truncation of an uncommitted tail, the HWM         *)
(* checkpoint, crashes and the recovery that newDiskHandler performs.      *)
(*                                                                         *)
(* A record is its offset with the key and producer that compaction tells  *)
(* apart; sizes are counted in records.  The sparse index is left out:     *)
(* every entry is validated against the log before it is used and a        *)
(* rejected one only lengthens the scan.                                   *)
(***************************************************************************)
EXTENDS Naturals, Sequences, FiniteSets, FiniteSetsExt, SequencesExt

CONSTANTS
    Kinds,        \* what a client may write: records [key, prod]
    Workloads,    \* the combinations of callers and policies one partition may have
    SegmentSize,  \* records a segment holds before a write rolls it
    BatchSize,    \* DiskFlushBatchSize
    ChannelSize,  \* ChannelBufferSize
    MaxOffset,    \* bound: offsets the clients write
    MaxCrashes,   \* bound: crashes of the broker
    MaxFaults     \* bound: failed file operations

None == ""

ASSUME DiskConstants ==
    /\ Kinds # {} /\ \A k \in Kinds : DOMAIN k = {"key", "prod"}
    /\ {SegmentSize, BatchSize, ChannelSize} \subseteq Nat \ {0}
    /\ {MaxOffset, MaxCrashes, MaxFaults} \subseteq Nat

VARIABLES
    workload,       \* callers and policies of this partition, a member of Workloads
    up,             \* the broker runs
    writeCh, batch, \* queued records; the batch the flush loop is filling
    absoluteOffset, flushedOffset, currentSegment,
    file,           \* base offset -> records of the segment's log file
    synced,         \* base offset -> how many of them crossed fsync
    markers,        \* segments with a compaction sidecar: offset gaps are legal
    writeFailure,   \* the handler refuses writes until restart
    pass,           \* the compaction pass under way: offsets to drop, segments to rewrite
    work,           \* a truncation or range installation holding every lock
    pending,        \* the durable manifest of a compacted range
    reader,         \* the segment a ReadMessages call is reading, a set of at most one
    leo, hwm, checkpoint,
    reconciled,     \* the replica has been aligned with the cluster watermark
    committed,      \* the cluster watermark, kept by Raft
    acked,          \* history: records acknowledged as durable
    crashes, faults

fileVars  == <<currentSegment, file, synced, markers>>
queueVars == <<writeCh, batch>>
markVars  == <<leo, hwm, checkpoint, reconciled, committed>>
history   == <<acked, crashes, faults>>
vars == <<workload, up, queueVars, absoluteOffset, flushedOffset, fileVars, writeFailure,
          pass, work, pending, reader, markVars, history>>

Does(what)   == what \in workload
Idle         == [op |-> "idle"]
NoPass       == [drop |-> {}, todo |-> {}]
Record(o, k) == [off |-> o, key |-> k.key, prod |-> k.prod]
Bases        == DOMAIN file
Closed       == Bases \ {currentSegment}
Active       == file[currentSegment]
AllRecords   == UNION {ToSet(file[b]) : b \in Bases}
EarliestOffset == Min(Bases)                       \* GetFirstOffset
WithinHandler == up /\ work = Idle                 \* the locks are free

\* The segment the reader and the truncation look an offset up in.
SegmentFor(o) == Max({b \in Bases : b <= o})

(***************************************************************************)
(* Rolling and writing.  Both return the files after the operation.        *)
(***************************************************************************)
View == [current |-> currentSegment, file |-> file, synced |-> synced]

\* rotateSegment: sync and close the active file, open the next; nothing when it is still empty.
RotateSegment(v, next) ==
    IF next <= v.current /\ v.file[v.current] = <<>> THEN v
    ELSE [current |-> next,
          file    |-> [b \in DOMAIN v.file \cup {next} |-> IF b \in DOMAIN v.file THEN v.file[b] ELSE <<>>],
          synced  |-> [b \in DOMAIN v.file \cup {next} |->
                         IF b = v.current THEN Len(v.file[b])
                         ELSE IF b \in DOMAIN v.file THEN v.synced[b] ELSE 0]]

\* A write rolls when the data does not fit; it also rolls when its index entries do not.
Rolls(v, n) == IF Len(v.file[v.current]) + n > SegmentSize THEN {TRUE} ELSE BOOLEAN

\* Defect: the writer is flushed to the file descriptor and never synced.
WrittenUnsynced(v, recs, fsync) == [v EXCEPT !.file[v.current] = @ \o recs]

\* The buffered bytes reach the file; fsync makes them durable.
Written(v, recs, fsync) ==
    LET all == v.file[v.current] \o recs
    IN  [current |-> v.current,
         file    |-> [v.file EXCEPT ![v.current] = all],
         synced  |-> [v.synced EXCEPT ![v.current] = IF fsync THEN Len(all) ELSE @]]

SetFiles(v) == currentSegment' = v.current /\ file' = v.file /\ synced' = v.synced

\* Defect: the tail readers trust is the assigned one, queued records included.
AssignedTail(recs) == absoluteOffset

\* What readers may trust after a batch: the record behind its last one.
FlushedTail(recs) == Last(recs).off + 1

\* WriteBatch: one roll decision for the whole batch, then every record.
WriteBatch(recs, fsync) ==
    \E roll \in Rolls(View, Len(recs)) :
        /\ SetFiles(Written(IF roll THEN RotateSegment(View, recs[1].off) ELSE View, recs, fsync))
        /\ absoluteOffset' = Max({absoluteOffset, Last(recs).off + 1})
        /\ flushedOffset' = FlushedTail(recs)

\* The flush loop gives up a batch when the handler no longer writes.
FlushBatch(recs) ==
    IF writeFailure \/ recs = <<>>
    THEN UNCHANGED <<absoluteOffset, flushedOffset, currentSegment, file, synced>>
    ELSE WriteBatch(recs, FALSE)

(***************************************************************************)
(* Appends.                                                                *)
(***************************************************************************)
\* The channel accepts a record; at its capacity AppendMessage times out without an offset.
ChannelHasRoom == Len(writeCh) < ChannelSize

\* Enqueue with acks=0: the offset is assigned and the record queued; the watermark moves at once.
Enqueue(k) ==
    /\ WithinHandler /\ Does("queued") /\ ~writeFailure
    /\ absoluteOffset < MaxOffset /\ ChannelHasRoom
    /\ writeCh' = Append(writeCh, Record(absoluteOffset, k))
    /\ absoluteOffset' = absoluteOffset + 1
    /\ leo' = absoluteOffset + 1
    /\ hwm' = Max({hwm, absoluteOffset + 1})
    /\ UNCHANGED <<workload, up, batch, flushedOffset, fileVars, writeFailure, pass, work, pending,
                   reader, checkpoint, reconciled, committed, history>>

\* EnqueueSync with acks=1: WriteDirect writes, flushes and syncs the record before the answer.
EnqueueSync(k) ==
    /\ WithinHandler /\ Does("direct") /\ ~writeFailure /\ absoluteOffset < MaxOffset
    /\ LET r == Record(absoluteOffset, k)
       IN  /\ \E roll \in Rolls(View, 1) :
                  SetFiles(Written(IF roll THEN RotateSegment(View, r.off) ELSE View, <<r>>, TRUE))
           /\ absoluteOffset' = r.off + 1 /\ flushedOffset' = r.off + 1
           /\ leo' = r.off + 1
           /\ hwm' = Max({hwm, r.off + 1})
           /\ acked' = acked \cup {r}
    /\ UNCHANGED <<workload, up, queueVars, markers, writeFailure, pass, work, pending, reader,
                   checkpoint, reconciled, committed, crashes, faults>>

\* EnqueueBatchLeader and ReplicaAppend: one synced batch at the local end; the watermark stays.
EnqueueBatchLeader(ks) ==
    /\ WithinHandler /\ Does("replicated") /\ reconciled /\ ~writeFailure
    /\ leo + Len(ks) <= MaxOffset
    /\ WriteBatch([i \in 1..Len(ks) |-> Record(leo + i - 1, ks[i])], TRUE)
    /\ leo' = leo + Len(ks)
    /\ UNCHANGED <<workload, up, queueVars, markers, writeFailure, pass, work, pending, reader,
                   hwm, checkpoint, reconciled, committed, history>>

\* The same writes when fsync fails: the bytes may be in the file, nothing is acknowledged and
\* the handler refuses every later write.
WriteFails(k) ==
    /\ WithinHandler /\ (Does("direct") \/ (Does("replicated") /\ reconciled)) /\ ~writeFailure
    /\ Does("fault") /\ absoluteOffset < MaxOffset /\ faults < MaxFaults
    /\ \E roll \in Rolls(View, 1) :
           SetFiles(Written(IF roll THEN RotateSegment(View, absoluteOffset) ELSE View,
                            <<Record(absoluteOffset, k)>>, FALSE))
    /\ writeFailure' = TRUE
    /\ faults' = faults + 1
    /\ UNCHANGED <<workload, up, queueVars, absoluteOffset, flushedOffset, markers, pass, work,
                   pending, reader, markVars, acked, crashes>>

\* The replication path raises the watermark over records this replica holds.
ApplyReplicaHWM(h) ==
    /\ WithinHandler /\ Does("replicated") /\ reconciled /\ h \in (hwm + 1)..leo /\ h >= committed
    /\ hwm' = h /\ committed' = h
    /\ acked' = acked \cup {r \in AllRecords : r.off < h}
    /\ UNCHANGED <<workload, up, queueVars, absoluteOffset, flushedOffset, fileVars, writeFailure,
                   pass, work, pending, reader, leo, checkpoint, reconciled, crashes, faults>>

(***************************************************************************)
(* The background loops.                                                   *)
(***************************************************************************)
\* flushLoop takes a queued record and writes the batch once it is full.
FlushLoopTake ==
    /\ WithinHandler /\ writeCh # <<>>
    /\ LET b == Append(batch, Head(writeCh))
       IN  /\ writeCh' = Tail(writeCh)
           /\ IF Len(b) >= BatchSize
              THEN batch' = <<>> /\ FlushBatch(b)
              ELSE /\ batch' = b
                   /\ UNCHANGED <<absoluteOffset, flushedOffset, currentSegment, file, synced>>
    /\ UNCHANGED <<workload, up, markers, writeFailure, pass, work, pending, reader, markVars, history>>

\* Defect: the ticker only writes what the size threshold would have written.
LingerFull == Len(batch) >= BatchSize

\* The linger ticker finds records in the batch.
LingerDue == batch # <<>>

\* It writes a partial batch.
FlushLoopLinger ==
    /\ WithinHandler /\ LingerDue
    /\ batch' = <<>>
    /\ FlushBatch(batch)
    /\ UNCHANGED <<workload, up, writeCh, markers, writeFailure, pass, work, pending, reader,
                   markVars, history>>

\* FlushDisk: drain the channel, write, sync, then persist the watermark.
FlushDisk ==
    /\ WithinHandler /\ batch \o writeCh # <<>>
    /\ batch' = <<>> /\ writeCh' = <<>>
    /\ IF writeFailure
       THEN UNCHANGED <<absoluteOffset, flushedOffset, currentSegment, file, synced>>
       ELSE WriteBatch(batch \o writeCh, TRUE)
    /\ checkpoint' = hwm
    /\ UNCHANGED <<workload, up, markers, writeFailure, pass, work, pending, reader,
                   leo, hwm, reconciled, committed, history>>

\* syncLoop: fsync of the active file; what the channel still holds is not in it.
SyncLoop ==
    /\ WithinHandler /\ synced[currentSegment] < Len(Active)
    /\ synced' = [synced EXCEPT ![currentSegment] = Len(Active)]
    /\ UNCHANGED <<workload, up, queueVars, absoluteOffset, flushedOffset, currentSegment, file,
                   markers, writeFailure, pass, work, pending, reader, markVars, history>>

\* flushLoop's segment ticker rolls at the assigned end, whatever is still queued.
SegmentTicker ==
    /\ WithinHandler /\ Does("roll")
    /\ RotateSegment(View, absoluteOffset) # View
    /\ SetFiles(RotateSegment(View, absoluteOffset))
    /\ UNCHANGED <<workload, up, queueVars, absoluteOffset, flushedOffset, markers, writeFailure,
                   pass, work, pending, reader, markVars, history>>

\* runHWMCheckpointLoop: the watermark is written to its synced file.
PersistHWMCheckpoint ==
    /\ WithinHandler /\ checkpoint # hwm
    /\ checkpoint' = hwm
    /\ UNCHANGED <<workload, up, queueVars, absoluteOffset, flushedOffset, fileVars, writeFailure,
                   pass, work, pending, reader, leo, hwm, reconciled, committed, history>>

(***************************************************************************)
(* Reads.                                                                  *)
(***************************************************************************)
\* ReadMessages registers as active reader and picks its first segment ...
ReadBegin(o) ==
    /\ up /\ work.op \in {"idle", "check"} /\ Does("read") /\ reader = {}
    /\ o \in EarliestOffset..(Min({hwm, flushedOffset}) - 1)
    /\ reader' = {SegmentFor(o)}
    /\ UNCHANGED <<workload, up, queueVars, absoluteOffset, flushedOffset, fileVars, writeFailure,
                   pass, work, pending, markVars, history>>

\* ... and leaves when the batch is complete.
ReadEnd ==
    /\ up /\ reader # {}
    /\ reader' = {}
    /\ UNCHANGED <<workload, up, queueVars, absoluteOffset, flushedOffset, fileVars, writeFailure,
                   pass, work, pending, markVars, history>>

(***************************************************************************)
(* Retention and compaction.                                               *)
(***************************************************************************)
\* Defect: the reader count is checked when a pass starts and never again.
ReadersIgnored == TRUE

\* The reader count is zero, checked with the metadata lock held before files are replaced.
NoReaders == reader = {}

WithoutSegments(gone) ==
    /\ file' = [b \in Bases \ gone |-> file[b]]
    /\ synced' = [b \in Bases \ gone |-> synced[b]]
    /\ markers' = markers \ gone

\* EnforceRetention removes the oldest closed segments, never under a reader.
EnforceRetention(n) ==
    /\ WithinHandler /\ Does("delete") /\ pass = NoPass /\ NoReaders
    /\ n \in Closed /\ n < currentSegment
    /\ WithoutSegments({b \in Closed : b <= n})
    /\ UNCHANGED <<workload, up, queueVars, absoluteOffset, flushedOffset, currentSegment,
                   writeFailure, pass, work, pending, reader, markVars, history>>

\* Defect: the last record of a producer is dropped like any superseded one.
SupersededByKey(r, S) == r.key # None /\ \E s \in S : s.key = r.key /\ s.off > r.off

\* shouldRemoveCompactionRecord: superseded by key, and not the last of its producer.
ShouldRemove(r, S) ==
    /\ r.key # None
    /\ \E s \in S : s.key = r.key /\ s.off > r.off
    /\ r.prod = None \/ \E s \in S : s.prod = r.prod /\ s.off > r.off

ClosedRecords == UNION {ToSet(file[b]) : b \in Closed}
Removable     == {r \in ClosedRecords : ShouldRemove(r, ClosedRecords)}

\* EnforceCompaction: scan the closed segments and decide; a replicated partition only does so
\* when everything it holds is committed, and half of what was scanned must be removable.
EnforceCompaction ==
    /\ WithinHandler /\ Does("compact") /\ pass = NoPass /\ reader = {}
    /\ Does("replicated") => leo = hwm
    /\ Removable # {} /\ 2 * Cardinality(Removable) >= Cardinality(ClosedRecords)
    /\ pass' = [drop |-> {r.off : r \in Removable},
                todo |-> {b \in Closed : ToSet(file[b]) \cap Removable # {}}]
    /\ UNCHANGED <<workload, up, queueVars, absoluteOffset, flushedOffset, fileVars, writeFailure,
                   work, pending, reader, markVars, history>>

\* compactClosedSegment's rewrite: a segment's records without those that are dropped.
Without(recs, drop) ==
    LET kept[n \in 0..Len(recs)] ==
          IF n = 0 THEN <<>>
          ELSE IF recs[n].off \in drop THEN kept[n - 1] ELSE Append(kept[n - 1], recs[n])
    IN  kept[Len(recs)]

\* compactClosedSegment: the sidecar, bound to the new size, is installed before the rewritten
\* file replaces the old one, so a crash between the two leaves the old pair.
CompactClosedSegment ==
    /\ WithinHandler /\ pass # NoPass /\ NoReaders
    /\ LET b == Min(pass.todo)
           rest == pass.todo \ {b}
       IN  /\ file' = [file EXCEPT ![b] = Without(@, pass.drop)]
           /\ synced' = [synced EXCEPT ![b] = Len(Without(file[b], pass.drop))]
           /\ markers' = markers \cup {b}
           /\ pass' = IF rest = {} THEN NoPass ELSE [pass EXCEPT !.todo = rest]
    /\ UNCHANGED <<workload, up, queueVars, absoluteOffset, flushedOffset, currentSegment,
                   writeFailure, work, pending, reader, markVars, history>>

\* A reader that came in between ends the pass before the segment is replaced.
CompactionDeferred ==
    /\ WithinHandler /\ pass # NoPass /\ reader # {}
    /\ pass' = NoPass
    /\ UNCHANGED <<workload, up, queueVars, absoluteOffset, flushedOffset, fileVars, writeFailure,
                   work, pending, reader, markVars, history>>

(***************************************************************************)
(* A follower of a compacted leader installs a range with gaps.            *)
(***************************************************************************)
\* WriteCompactedReplicaRange: roll to the start, stage the files, make the manifest durable.
StageCompactedRange(end, keep) ==
    /\ WithinHandler /\ Does("range") /\ reconciled /\ ~writeFailure
    /\ pass = NoPass /\ reader = {} /\ pending = Idle
    /\ end \in (leo + 1)..MaxOffset /\ keep \subseteq leo..(end - 1)
    /\ SetFiles(RotateSegment(View, leo))
    /\ \E k \in Kinds :
           pending' = [op |-> "range", from |-> leo, to |-> end,
                       recs |-> Without([i \in 1..(end - leo) |-> Record(leo + i - 1, k)],
                                        (leo..(end - 1)) \ keep)]
    /\ work' = pending'
    /\ UNCHANGED <<workload, up, queueVars, absoluteOffset, flushedOffset, markers, writeFailure,
                   pass, reader, markVars, history>>

\* installCompactedRangeFile: the staged log replaces the empty segment.
InstallCompactedRange ==
    /\ up /\ work.op = "range" /\ file[work.from] # work.recs
    /\ file' = [file EXCEPT ![work.from] = work.recs]
    /\ synced' = [synced EXCEPT ![work.from] = Len(work.recs)]
    /\ UNCHANGED <<workload, up, queueVars, absoluteOffset, flushedOffset, currentSegment, markers,
                   writeFailure, pass, work, pending, reader, markVars, history>>

\* What completeCompactedRangeTransaction leaves: log, sidecar and the empty tail segment.
RangeFiles(f, p)   == [b \in DOMAIN f \cup {p.from, p.to} |->
                         IF b = p.from THEN p.recs ELSE IF b = p.to THEN <<>> ELSE f[b]]

\* Sidecar, empty tail, then the manifest goes; the handler continues behind the range.
CompleteCompactedRange ==
    /\ up /\ work.op = "range" /\ file[work.from] = work.recs
    /\ file' = RangeFiles(file, work)
    /\ synced' = [b \in DOMAIN file' |-> IF b \in Bases THEN synced[b] ELSE 0]
    /\ markers' = markers \cup {work.from}
    /\ currentSegment' = work.to
    /\ absoluteOffset' = work.to /\ flushedOffset' = work.to /\ leo' = work.to
    /\ work' = Idle /\ pending' = Idle
    /\ UNCHANGED <<workload, up, queueVars, writeFailure, pass, reader, hwm, checkpoint, reconciled,
                   committed, history>>

(***************************************************************************)
(* Truncation of the uncommitted tail.                                     *)
(***************************************************************************)
\* ReconcileCommittedHWM when nothing is ahead of the watermark.
ReconcileAligned ==
    /\ WithinHandler /\ Does("replicated") /\ leo = committed /\ ~(reconciled /\ hwm = leo)
    /\ hwm' = committed /\ reconciled' = TRUE
    /\ UNCHANGED <<workload, up, queueVars, absoluteOffset, flushedOffset, fileVars, writeFailure,
                   pass, work, pending, reader, leo, checkpoint, committed, history>>

\* TruncateTo is refused while a reader is active.  The check precedes the locks: a read may
\* still begin before they are taken.
TruncateCheck ==
    /\ WithinHandler /\ Does("replicated") /\ leo > committed /\ pass = NoPass /\ reader = {}
    /\ work' = [op |-> "check"]
    /\ UNCHANGED <<workload, up, queueVars, absoluteOffset, flushedOffset, fileVars, writeFailure,
                   pass, pending, reader, markVars, history>>

\* Below the retained log and inside a compacted segment it fails without a change.
TruncateRefused ==
    /\ up /\ work.op = "check"
    /\ IF committed < EarliestOffset THEN TRUE ELSE SegmentFor(committed) \in markers
    /\ work' = Idle
    /\ UNCHANGED <<workload, up, queueVars, absoluteOffset, flushedOffset, fileVars, writeFailure,
                   pass, pending, reader, markVars, history>>

\* The target is the segment the watermark falls into.
TruncateBegin ==
    /\ up /\ work.op = "check" /\ committed >= EarliestOffset
    /\ SegmentFor(committed) \notin markers
    /\ work' = [op |-> "truncate", to |-> committed, target |-> SegmentFor(committed)]
    /\ UNCHANGED <<workload, up, queueVars, absoluteOffset, flushedOffset, fileVars, writeFailure,
                   pass, pending, reader, markVars, history>>

\* Later segments are removed one by one, in ascending order.
TruncateRemove ==
    /\ up /\ work.op = "truncate"
    /\ \E b \in Bases : /\ b > work.target /\ \A c \in Bases : c > work.target => b <= c
                        /\ WithoutSegments({b})
    /\ UNCHANGED <<workload, up, queueVars, absoluteOffset, flushedOffset, currentSegment,
                   writeFailure, pass, work, pending, reader, markVars, history>>

\* findTruncatePosition: the first record at or behind the offset.
FindTruncatePosition(recs, next) ==
    CHOOSE n \in 0..Len(recs) : /\ \A i \in 1..n : recs[i].off < next
                                /\ n < Len(recs) => recs[n + 1].off >= next

\* The target is cut and synced, and every offset of the handler and partition follows.
TruncateFinish ==
    /\ up /\ work.op = "truncate" /\ \A b \in Bases : b <= work.target
    /\ LET n == FindTruncatePosition(file[work.target], work.to)
       IN  /\ file' = [file EXCEPT ![work.target] = SubSeq(@, 1, n)]
           /\ synced' = [synced EXCEPT ![work.target] = n]
    /\ currentSegment' = work.target
    /\ absoluteOffset' = work.to /\ flushedOffset' = work.to
    /\ leo' = work.to /\ hwm' = work.to /\ reconciled' = TRUE
    /\ work' = Idle
    /\ UNCHANGED <<workload, up, queueVars, markers, writeFailure, pass, pending, reader,
                   checkpoint, committed, history>>

(***************************************************************************)
(* Shutdown, crash and recovery.                                           *)
(***************************************************************************)
\* drainAndShutdown and Partition.Close: the batch and the channel are written and synced.
Close ==
    /\ WithinHandler /\ crashes < MaxCrashes
    /\ up' = FALSE /\ crashes' = crashes + 1
    /\ IF writeFailure \/ batch \o writeCh = <<>>
       THEN /\ synced' = [synced EXCEPT ![currentSegment] = Len(Active)]
            /\ UNCHANGED <<absoluteOffset, flushedOffset, currentSegment, file>>
       ELSE WriteBatch(batch \o writeCh, TRUE)
    /\ batch' = <<>> /\ writeCh' = <<>>
    /\ checkpoint' = hwm
    /\ pass' = NoPass /\ reader' = {}
    /\ UNCHANGED <<workload, markers, writeFailure, work, pending, leo, hwm, reconciled, committed,
                   acked, faults>>

\* A crash keeps what was synced of the active file and any part of what was not.
Crash ==
    /\ up /\ crashes < MaxCrashes
    /\ up' = FALSE /\ crashes' = crashes + 1
    /\ \E n \in synced[Max(Bases)]..Len(file[Max(Bases)]) :
           file' = [file EXCEPT ![Max(Bases)] = SubSeq(@, 1, n)]
    /\ writeCh' = <<>> /\ batch' = <<>> /\ pass' = NoPass /\ work' = Idle /\ reader' = {}
    /\ UNCHANGED <<workload, absoluteOffset, flushedOffset, currentSegment, synced, markers,
                   writeFailure, pending, markVars, acked, faults>>

\* scanSegmentTail accepts exactly the records base, base + 1, ...
ScanSegmentTail(recs, base) == \A i \in 1..Len(recs) : recs[i].off = base + i - 1

\* Defect: temporary files are cleaned up before the pending range is looked at.
FilesAsFound == file

\* What newDiskHandler finds: a pending range is completed first, the last segment is scanned.
RecoveredFiles   == IF pending = Idle THEN file ELSE RangeFiles(file, pending)
RecoveredMarkers == IF pending = Idle THEN markers ELSE markers \cup {pending.from}
RecoveredTail    == LET last == Max(DOMAIN RecoveredFiles) IN last + Len(RecoveredFiles[last])

\* newDiskHandler and NewPartition: the watermark is the checkpoint clamped to the log.
NewDiskHandler ==
    /\ ~up
    /\ LET f == RecoveredFiles
           last == Max(DOMAIN f)
       IN  /\ ScanSegmentTail(f[last], last)
           /\ file' = f
           /\ synced' = [b \in DOMAIN f |-> Len(f[b])]
           /\ currentSegment' = last
    /\ markers' = RecoveredMarkers /\ pending' = Idle
    /\ absoluteOffset' = RecoveredTail /\ flushedOffset' = RecoveredTail
    /\ leo' = RecoveredTail /\ hwm' = Min({checkpoint, RecoveredTail})
    /\ up' = TRUE /\ writeFailure' = FALSE /\ reconciled' = FALSE
    /\ UNCHANGED <<workload, queueVars, pass, work, reader, checkpoint, committed, history>>

Init ==
    /\ workload \in Workloads
    /\ up = TRUE /\ writeCh = <<>> /\ batch = <<>>
    /\ absoluteOffset = 0 /\ flushedOffset = 0 /\ currentSegment = 0
    /\ file = [b \in {0} |-> <<>>] /\ synced = [b \in {0} |-> 0] /\ markers = {}
    /\ writeFailure = FALSE /\ pass = NoPass /\ work = Idle /\ pending = Idle /\ reader = {}
    /\ leo = 0 /\ hwm = 0 /\ checkpoint = 0 /\ reconciled = TRUE /\ committed = 0
    /\ acked = {} /\ crashes = 0 /\ faults = 0

Next ==
    \/ \E k \in Kinds : Enqueue(k) \/ EnqueueSync(k) \/ WriteFails(k)
    \/ \E k \in Kinds : EnqueueBatchLeader(<<k>>)
    \/ \E k, l \in Kinds : EnqueueBatchLeader(<<k, l>>)
    \/ \E h \in 1..MaxOffset : ApplyReplicaHWM(h)
    \/ FlushLoopTake \/ FlushLoopLinger \/ FlushDisk \/ SyncLoop \/ SegmentTicker
    \/ PersistHWMCheckpoint
    \/ \E o \in 0..MaxOffset : ReadBegin(o)
    \/ ReadEnd
    \/ \E n \in 0..MaxOffset : EnforceRetention(n)
    \/ EnforceCompaction \/ CompactClosedSegment \/ CompactionDeferred
    \/ \E end \in 1..MaxOffset, keep \in SUBSET (0..MaxOffset) : StageCompactedRange(end, keep)
    \/ InstallCompactedRange \/ CompleteCompactedRange
    \/ ReconcileAligned \/ TruncateCheck \/ TruncateRefused \/ TruncateBegin \/ TruncateRemove \/ TruncateFinish
    \/ Close \/ Crash \/ NewDiskHandler

\* The flush loop runs as long as the handler is open; nothing obliges a client, a reader or an
\* operator to act.
Fairness == WF_vars(FlushLoopTake) /\ WF_vars(FlushLoopLinger)

Spec == Init /\ [][Next]_vars /\ Fairness

(***************************************************************************)
(* Properties.                                                             *)
(***************************************************************************)
\* readMessagesFromPosition and scanCompactionSegment reject any other segment: the first record
\* has the offset in the file name and offsets are contiguous, or strictly increasing under a
\* sidecar.
WellFormed(f, m, b) ==
    IF b \in m THEN \A i, j \in 1..Len(f[b]) : i < j => f[b][i].off < f[b][j].off
               ELSE ScanSegmentTail(f[b], b)

\* A segment's base offset is the offset of its first record (segment-management.md) and no
\* offset is in two segments, so that a read accepts every segment and a restart from the files
\* on disk accepts the active one, whatever order the queue, the direct writes, the tickers, a
\* failed write and a crash have come in.
SegmentsReadable ==
    LET f == RecoveredFiles
        m == RecoveredMarkers
    IN  /\ Max(DOMAIN f) \notin m
        /\ \A b \in DOMAIN f : WellFormed(f, m, b)
        /\ \A b, c \in DOMAIN f : b < c => \A i \in 1..Len(f[b]) : f[b][i].off < c

\* Present on disk past any crash, in the segment a reader looks it up in.
Durable(r) == LET b == SegmentFor(r.off) IN \E i \in 1..synced[b] : file[b][i] = r

\* A record whose durable write was acknowledged (acks=1 append, or replicated and committed) is
\* on disk past any crash until retention removes its segment or compaction replaces it by a
\* later record of its key; no truncation, roll, range installation or restart loses it.
AckedSurvive ==
    \A r \in acked :
        \/ r.off < EarliestOffset
        \/ Durable(r)
        \/ /\ r.key # None /\ SegmentFor(r.off) \in markers
           /\ \E s \in AllRecords : s.key = r.key /\ s.off > r.off

\* Compaction leaves every producer an anchor from which RecoverProducerStateFromLog rebuilds its
\* sequence: a record of the producer that is durable and no older than the last acknowledged one
\* (later than it only when an unacknowledged write reached the file).
ProducerAnchored ==
    \A r \in acked :
        (r.prod # None /\ r.off >= EarliestOffset)
        => \E s \in AllRecords : s.prod = r.prod /\ s.off >= r.off /\ Durable(s)

\* Every offset a consumer may be served (below the watermark and the flushed tail) is on disk
\* in its segment, or that segment is compacted: reads never skip a hole silently.  It holds in
\* the middle of a truncation and after a crash there.
ServedOffsetsPresent ==
    up => \A o \in EarliestOffset..(Min({hwm, flushedOffset}) - 1) :
              LET b == SegmentFor(o)
              IN  b \in markers \/ \E i \in 1..Len(file[b]) : file[b][i].off = o

\* Retention and compaction never replace or remove the segment a read is using, although a pass
\* takes its locks anew for every segment and a read may begin in between (OpenForRead).
ReadersHoldOffMaintenance ==
    [][ (reader # {} /\ reader' = reader /\ work = Idle) =>
            \A b \in reader : b \in DOMAIN file' /\ IsPrefix(file[b], file'[b]) ]_vars

\* What acks=0 clients queued reaches the file without further traffic.
QueueDrains == [](batch \o writeCh # <<>> => <>(batch \o writeCh = <<>>))

=============================================================================
