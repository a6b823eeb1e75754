---------------------------- MODULE ConsumerGroup ----------------------------
(***************************************************************************)
(* Consumers of sdk/ against the coordinator of their group.  A consumer   *)
(* joins, fetches the committed offsets of its partitions, polls or streams*)
(* records, hands them to its handler and commits; it rejoins on a fenced  *)
(* answer.  Reads are not fenced by the broker: CONSUME and STREAM start   *)
(* from the group's committed offset and serve whoever asks.               *)
(*                                                                         *)
(* A batch is a run of offsets.  Commit requests stay in net until the     *)
(* broker handles them, even when the client has given up waiting.         *)
(***************************************************************************)
EXTENDS GroupCoordinator

CONSTANTS
    LogEnd,      \* the committed end of each partition
    BatchSize,   \* records a read returns at most
    QueueSize    \* WorkerChannelSize

ASSUME ConsumerConstants ==
    /\ LogEnd \in [Partitions -> Nat]
    /\ {BatchSize, QueueSize} \subseteq Nat \ {0}

VARIABLES
    cl,       \* the consumers
    part,     \* their PartitionConsumers
    net,      \* commit and leave requests on their way
    start,    \* the earliest retained offset of each partition
    handled   \* history: <<group epoch, partition, offset>> the handler has seen

vars == <<work, coordVars, faults, cl, part, net, start, handled>>

Closed == -1
NoPart == [conn |-> Closed, fetch |-> 0, offs |-> 0, queue |-> <<>>,
           commit |-> 0, retry |-> 0, dead |-> FALSE]
NoParts   == [p \in Partitions |-> NoPart]
NewClient == [phase |-> "join", boot |-> TRUE, mid |-> NoMember, gen |-> 0, asg |-> {},
              jmid |-> NoMember, jgen |-> 0, got |-> <<>>, sig |-> FALSE, beats |-> FALSE]

\* A short log ends after its first record.
End(p) == IF Does("short") THEN Min({1, LogEnd[p]}) ELSE LogEnd[p]

Streaming == Does("stream")

Init ==
    /\ work \in Works /\ up = TRUE
    /\ group = NoGroup /\ groupEpoch = 0 /\ lifecycle = NoLifecycle
    /\ mlog = {} /\ logDown = FALSE /\ lapsed = {} /\ scan = NoScan
    /\ joins = 0 /\ acked = NoOffsets /\ faults = 0
    /\ cl = [c \in Clients |-> NewClient]
    /\ part = [c \in Clients |-> NoParts]
    /\ net = {}
    /\ start = [p \in Partitions |-> 0]
    /\ handled = {}

Phase(c, ph) == cl[c].phase = ph
SetClient(c, r) == cl' = [cl EXCEPT ![c] = r]
To(c, ph) == [cl[c] EXCEPT !.phase = ph]
Rejoin(c) == [To(c, "join") EXCEPT !.jmid = NoMember, !.jgen = 0, !.asg = {}, !.got = <<>>]
Gone      == [NewClient EXCEPT !.phase = "closed"]
Quiet == UNCHANGED <<work, net, start, handled>>
NoCoord == UNCHANGED coordVars
Workload == UNCHANGED <<work, start, handled>>

\* The requests of c whose connection is still open.
Live(c) == {r \in net : r.client = c /\ r.live}
Hangup(c, n) == {IF r.client = c THEN [r EXCEPT !.live = FALSE] ELSE r : r \in n}

(***************************************************************************)
(* Joining.  JOIN_GROUP without a generation adds a member; with one it    *)
(* resumes the session.                                                    *)
(***************************************************************************)
Fresh(c) == cl[c].mid = NoMember \/ cl[c].gen = 0

\* handleJoinGroup, standalone: the group is registered when it is missing.
HandleJoin(c) ==
    /\ Phase(c, "join") /\ Fresh(c) /\ up /\ Standalone /\ joins < MaxJoins
    /\ SetClient(c, To(c, IF Exists THEN "add" ELSE "register"))
    /\ NoCoord /\ UNCHANGED <<part, faults>> /\ Quiet

\* RegisterGroup behind lifecycleMu: another handler may have registered it meanwhile.
RegisterGroup(c) ==
    /\ Phase(c, "register") /\ up
    /\ IF Exists /\ Idle THEN /\ SetClient(c, To(c, "add")) /\ NoCoord
       ELSE /\ LifecycleBegin("register") /\ UNCHANGED cl
    /\ UNCHANGED <<part, faults>> /\ Quiet

\* AddConsumer's error is only logged: the client is told OK with a member nobody knows.
JoinAdd(c) ==
    /\ Phase(c, "add") /\ up /\ joins < MaxJoins
    /\ AddConsumer(<<c, joins + 1>>)
    /\ LET m == <<c, joins + 1>>
       IN  SetClient(c, [To(c, "answer") EXCEPT !.jmid = m,
               !.asg = IF m \in DOMAIN group'.members THEN group'.members[m] ELSE {}])
    /\ UNCHANGED <<up, groupEpoch, lifecycle, mlog, logDown, scan, acked, part, faults>> /\ Quiet

\* handleJoinGroup in a cluster.
RaftJoin(c) ==
    /\ Phase(c, "join") /\ Fresh(c) /\ up /\ ~Standalone /\ joins < MaxJoins
    /\ Exists \/ groupEpoch < MaxEpoch
    /\ LET m == <<c, joins + 1>>
       IN  /\ \/ ApplyJoin(m, FALSE) /\ UNCHANGED faults
              \/ Does("lost") /\ ApplyJoin(m, TRUE) /\ Fault
           /\ SetClient(c, [To(c, "answer") EXCEPT !.jmid = m, !.asg = {}])
    /\ UNCHANGED <<up, lifecycle, mlog, logDown, scan, acked, part>> /\ Quiet

Assigned(m) == m \in DOMAIN group.members /\ group.members[m] # {}

\* The wait for the local FSM reads the assignments long after the entry was applied.
RaftAssignments(c) ==
    /\ Phase(c, "answer") /\ ~Standalone /\ up /\ cl[c].asg = {}
    /\ Assigned(cl[c].jmid)
    /\ SetClient(c, [cl[c] EXCEPT !.asg = group.members[cl[c].jmid]])
    /\ NoCoord /\ UNCHANGED <<part, faults>> /\ Quiet

\* What the consumer does next with a generation, a member and assignments.  A first join
\* publishes generation and member before SYNC_GROUP.
Joined(c, gen, m, asg) ==
    [To(c, IF asg = {} THEN "sync" ELSE "offsets") EXCEPT
        !.jgen = gen, !.jmid = m, !.asg = asg, !.got = <<>>,
        !.gen = IF cl[c].boot THEN gen ELSE @, !.mid = IF cl[c].boot THEN m ELSE @]

\* The generation is read after the assignments, in a critical section of its own.
JoinRespond(c) ==
    /\ Phase(c, "answer") /\ up
    /\ Standalone \/ cl[c].asg # {} \/ ~Assigned(cl[c].jmid)
    /\ SetClient(c, Joined(c, group.gen, cl[c].jmid, cl[c].asg))
    /\ NoCoord /\ UNCHANGED <<part, faults>> /\ Quiet

\* The answer does not arrive: the member stays, and the client asks for another.
JoinLost(c) ==
    /\ Does("lost") /\ Phase(c, "answer") /\ Fault
    /\ SetClient(c, Rejoin(c))
    /\ NoCoord /\ UNCHANGED part /\ Quiet

\* Resuming: a moved generation is taken from the answer and synchronised, an unknown member
\* starts over, and an unknown group is retried.
HandleResume(c) ==
    /\ Phase(c, "join") /\ ~Fresh(c) /\ up
    /\ LET m == cl[c].mid
           v == Validate(m, cl[c].gen)
           known == v \in {"OK", "GEN_MISMATCH"}
       IN  /\ v # "group_not_found"
           /\ IF known
              THEN /\ Refresh(m)
                   /\ SetClient(c, [Joined(c, group.gen, m, group.members[m]) EXCEPT
                                       !.gen = group.gen, !.mid = m])
              ELSE /\ SetClient(c, [cl[c] EXCEPT !.mid = NoMember, !.gen = 0]) /\ UNCHANGED lapsed
    /\ UNCHANGED <<up, group, groupEpoch, lifecycle, mlog, logDown, scan, joins, acked, part, faults>>
    /\ Quiet

\* A failed first start closes the consumer; a failed rebalance is scheduled again.
Leave(c) == IF cl[c].mid # NoMember /\ cl[c].gen > 0
            THEN {[client |-> c, kind |-> "leave", mid |-> cl[c].mid, gen |-> cl[c].gen,
                   offs |-> <<>>, live |-> FALSE]}
            ELSE {}

GiveUp(c) ==
    IF cl[c].boot THEN /\ SetClient(c, Gone) /\ net' = net \union Leave(c)
                  ELSE /\ SetClient(c, Rejoin(c)) /\ UNCHANGED net

\* SYNC_GROUP, sent only when the join brought no partition.
SyncGroup(c) ==
    /\ Phase(c, "sync") /\ up
    /\ LET m == cl[c].jmid
       IN  IF Validate(m, cl[c].jgen) = "OK"
           THEN /\ Refresh(m) /\ UNCHANGED net
                /\ SetClient(c, [To(c, "offsets") EXCEPT !.asg = group.members[m],
                                                         !.gen = cl[c].jgen, !.mid = m])
           ELSE GiveUp(c) /\ UNCHANGED lapsed
    /\ UNCHANGED <<up, group, groupEpoch, lifecycle, mlog, logDown, scan, joins, acked, part, faults>>
    /\ Workload

\* FETCH_OFFSET, partition by partition; no commit yet counts as zero.
FetchOffset(c) ==
    /\ Phase(c, "offsets") /\ up
    /\ \E p \in cl[c].asg \ DOMAIN cl[c].got :
          IF Exists
          THEN /\ SetClient(c, [cl[c] EXCEPT !.got = [q \in DOMAIN @ \union {p} |->
                                      IF q = p THEN Max({group.offs[p], 0}) ELSE @[q]]])
               /\ UNCHANGED net
          ELSE GiveUp(c)
    /\ NoCoord /\ UNCHANGED <<part, faults>> /\ Workload

\* The assignment becomes active and its workers start.
AssignmentReady(c) ==
    /\ Phase(c, "offsets") /\ DOMAIN cl[c].got = cl[c].asg
    /\ SetClient(c, [To(c, "work") EXCEPT !.gen = cl[c].jgen, !.mid = cl[c].jmid,
                                          !.jmid = NoMember, !.jgen = 0, !.got = <<>>,
                                          !.boot = FALSE, !.beats = TRUE])
    /\ part' = [part EXCEPT ![c] = [p \in Partitions |->
                   IF p \in cl[c].asg THEN [NoPart EXCEPT !.fetch = cl[c].got[p], !.offs = cl[c].got[p]]
                                      ELSE NoPart]]
    /\ NoCoord /\ UNCHANGED faults /\ Quiet

(***************************************************************************)
(* Reading.                                                                *)
(***************************************************************************)
Reads(c, p) == Phase(c, "work") /\ up /\ p \in cl[c].asg
SetPart(c, p, r) == part' = [part EXCEPT ![c][p] = r]

\* The worker's channel takes another batch.
QueueHasRoom(c, p) == Len(part[c][p].queue) < QueueSize

\* resolveOffset: the group's committed offset, or the requested one.
ResolveOffset(p, requested) == IF group.offs[p] # None THEN group.offs[p] ELSE requested

\* Where a read starts: the position the broker keeps for the connection, or a fresh one.
Position(c, p) == IF part[c][p].conn # Closed THEN part[c][p].conn
                  ELSE ResolveOffset(p, IF Streaming THEN part[c][p].offs ELSE part[c][p].fetch)

\* The ends a read from there may have: nothing beyond the log, up to BatchSize records.
Ends(p, from) == IF from >= End(p) THEN {from} ELSE from + 1 .. Min({from + BatchSize, End(p)})

\* The batch [from, to) reaches the worker's queue.  A stream's fetchOffset is overwritten
\* before it is used.
Delivered(r, from, to) ==
    IF from = to THEN [r EXCEPT !.conn = from]
    ELSE [r EXCEPT !.conn = to, !.fetch = IF Streaming THEN @ ELSE to,
                   !.queue = Append(@, [inc |-> groupEpoch, from |-> from, to |-> to])]

\* STREAM: the client falls back to what it committed; the broker replaces the group's stream
\* on the partition and sends a first batch before it looks at anything else.
StreamOpen(c, p) ==
    LET from == ResolveOffset(p, part[c][p].offs)
    IN  /\ Streaming /\ Reads(c, p) /\ part[c][p].conn = Closed
        /\ QueueHasRoom(c, p) /\ from >= start[p]
        /\ \E to \in Ends(p, from) :
             part' = [d \in Clients |-> [part[d] EXCEPT ![p] =
                 IF d = c THEN Delivered(@, from, to)
                          ELSE [@ EXCEPT !.conn = Closed]]]
        /\ NoCoord /\ UNCHANGED <<cl, faults>> /\ Quiet

\* The next batch, through a CONSUME answer or the stream.
Read(c, p) ==
    LET from == Position(c, p)
    IN  /\ Reads(c, p) /\ (Streaming => part[c][p].conn # Closed)
        /\ QueueHasRoom(c, p)
        /\ start[p] <= from /\ from < End(p)
        /\ \E to \in Ends(p, from) : SetPart(c, p, Delivered(part[c][p], from, to))
        /\ NoCoord /\ UNCHANGED <<cl, faults>> /\ Quiet

\* OFFSET_OUT_OF_RANGE under auto_offset_reset=earliest.
OutOfRange(c, p) ==
    /\ Reads(c, p) /\ QueueHasRoom(c, p)
    /\ Position(c, p) < start[p]
    /\ SetPart(c, p, [part[c][p] EXCEPT !.fetch = start[p], !.offs = start[p], !.conn = Closed])
    /\ NoCoord /\ UNCHANGED <<cl, faults>> /\ Quiet

\* The broker or the network closes a data connection.
ConnDrop(c, p) ==
    /\ Does("drop") /\ Reads(c, p) /\ part[c][p].conn # Closed /\ Fault
    /\ SetPart(c, p, [part[c][p] EXCEPT !.conn = Closed])
    /\ NoCoord /\ UNCHANGED cl /\ Quiet

(***************************************************************************)
(* Handling and committing.                                                *)
(***************************************************************************)
Busy(c, p) == Phase(c, "work") /\ part[c][p].queue # <<>> /\ ~part[c][p].dead /\ part[c][p].commit = 0

\* Defect: the position is committed when the batch is taken, before the handler has seen it.
CommitBeforeHandling(c, p) ==
    /\ Busy(c, p)
    /\ SetPart(c, p, [part[c][p] EXCEPT !.queue = Tail(@), !.commit = Head(part[c][p].queue).to])
    /\ UNCHANGED handled

\* runWorker: every record of the batch, then the batch's end is to be committed.
HandleBatch(c, p) ==
    /\ Busy(c, p)
    /\ LET b == Head(part[c][p].queue)
       IN  /\ handled' = handled \union {<<b.inc, p, o>> : o \in b.from .. b.to - 1}
           /\ SetPart(c, p, [part[c][p] EXCEPT !.queue = Tail(@), !.commit = b.to])

Handle(c, p) ==
    /\ HandleBatch(c, p)
    /\ NoCoord /\ UNCHANGED <<work, net, start, cl, faults>>

\* The handler returns an error: the worker ends and a rebalance is requested.
HandlerFails(c, p) ==
    /\ Does("fail") /\ Busy(c, p) /\ Fault
    /\ SetPart(c, p, [part[c][p] EXCEPT !.queue = Tail(@), !.dead = TRUE, !.fetch = part[c][p].offs,
                                        !.conn = Closed])
    /\ SetClient(c, [cl[c] EXCEPT !.sig = TRUE])
    /\ NoCoord /\ Quiet

Request(c, kind, offs) == [client |-> c, kind |-> kind, mid |-> cl[c].mid, gen |-> cl[c].gen,
                           offs |-> offs, live |-> TRUE]

\* commitOffsetWithRetry through the commit worker, one request at a time.
SendBatchCommit(c, p) ==
    /\ Phase(c, "work") /\ up /\ part[c][p].commit # 0 /\ Live(c) = {}
    /\ net' = net \union {Request(c, "batch", [q \in {p} |-> part[c][p].commit])}
    /\ NoCoord /\ UNCHANGED <<cl, part, faults>> /\ Workload

\* No coordinator answers for as long as the worker tries: it moves on.
CommitUnreachable(c, p) ==
    /\ Phase(c, "work") /\ ~up /\ part[c][p].commit # 0
    /\ SetPart(c, p, [part[c][p] EXCEPT !.retry = Max({@, part[c][p].commit}), !.commit = 0])
    /\ NoCoord /\ UNCHANGED <<cl, faults>> /\ Quiet

\* The commit ticker sends what the workers gave up.
ProcessRetryQueue(c) ==
    LET P == {p \in Partitions : part[c][p].retry # 0}
    IN  /\ Phase(c, "work") /\ up /\ P # {} /\ Live(c) = {}
        /\ net' = net \union {Request(c, "retry", [p \in P |-> part[c][p].retry])}
        /\ part' = [part EXCEPT ![c] = [p \in Partitions |-> [@[p] EXCEPT !.retry = 0]]]
        /\ NoCoord /\ UNCHANGED <<cl, faults>> /\ Workload

\* A position goes to the retry map.
Postponed(x, o) == [x EXCEPT !.retry = Max({@, o})]

\* An answered commit: c.offsets advances.  A refused one goes to the retry map, and the worker
\* tries again or, after MaxCommitRetries, moves on.
Answered(x, r, p, res, again) ==
    IF p \notin DOMAIN r.offs \/ (res = "OK" /\ r.kind = "retry") THEN x
    ELSE IF res = "OK" THEN [x EXCEPT !.offs = r.offs[p], !.commit = 0]
    ELSE [Postponed(x, r.offs[p]) EXCEPT !.commit = IF r.kind = "retry" \/ again THEN @ ELSE 0]

Answer(c, r, res) ==
    /\ net' = net \ {r}
    /\ IF ~r.live THEN UNCHANGED <<cl, part>>
       ELSE /\ SetClient(c, [cl[c] EXCEPT !.sig = @ \/ res \in Fenced])
            /\ \E again \in BOOLEAN :
                 part' = [part EXCEPT ![c] = [p \in Partitions |-> Answered(@[p], r, p, res, again)]]

Commits == {r \in net : r.kind # "leave"}

HandleBatchCommit(r) ==
    /\ up /\ r \in Commits
    /\ LET v == CommitCheck(r.mid, r.gen, r.offs)
           res == IF v = "OK" /\ Changes(r.offs) /\ logDown THEN "unavailable" ELSE v
       IN  /\ Answer(r.client, r, res)
           /\ IF res = "OK" THEN CommitOffsets(r.offs) ELSE UNCHANGED <<group, mlog, acked>>
    /\ UNCHANGED <<up, groupEpoch, lifecycle, logDown, lapsed, scan, joins, faults>> /\ Workload

\* The snapshot's write fails; its record may or may not have reached the disk.
CommitWriteFails(r) ==
    /\ Does("diskfault") /\ Standalone /\ up /\ ~logDown /\ r \in Commits /\ Fault
    /\ CommitCheck(r.mid, r.gen, r.offs) = "OK" /\ Changes(r.offs)
    /\ logDown' = TRUE
    /\ mlog' \in {mlog, mlog \union {OffsetRecord(Merged(r.offs))}}
    /\ Answer(r.client, r, "unavailable")
    /\ UNCHANGED <<up, group, groupEpoch, lifecycle, lapsed, scan, joins, acked>> /\ Workload

\* The connection breaks before the answer; the broker may still handle the request.
CommitLost(r) ==
    /\ Does("lost") /\ r \in Commits /\ r.live /\ Fault
    /\ net' = (net \ {r}) \union {[r EXCEPT !.live = FALSE]}
    /\ part' = [part EXCEPT ![r.client] = [p \in Partitions |->
                   IF p \in DOMAIN r.offs THEN Postponed(@[p], r.offs[p]) ELSE @[p]]]
    /\ NoCoord /\ UNCHANGED cl /\ Workload

(***************************************************************************)
(* Sessions, rebalances and the end.                                       *)
(***************************************************************************)
\* heartbeatLoop: refresh, or request a rebalance and stop beating.
Heartbeat(c) ==
    /\ Phase(c, "work") /\ up /\ cl[c].beats
    /\ LET v == Validate(cl[c].mid, cl[c].gen)
       IN  \/ /\ v = "OK" /\ cl[c].mid \in lapsed /\ Refresh(cl[c].mid) /\ UNCHANGED cl
           \/ /\ v \in Fenced /\ UNCHANGED lapsed
              /\ SetClient(c, [cl[c] EXCEPT !.sig = TRUE, !.beats = FALSE])
    /\ UNCHANGED <<up, group, groupEpoch, lifecycle, mlog, logDown, scan, joins, acked, part, faults>>
    /\ Quiet

\* handleRebalanceSignal: workers and connections end, unfinished batches and commits are dropped.
BeginRebalance(c) ==
    /\ Phase(c, "work") /\ cl[c].sig
    /\ SetClient(c, [Rejoin(c) EXCEPT !.sig = FALSE, !.beats = FALSE])
    /\ part' = [part EXCEPT ![c] = NoParts]
    /\ net' = Hangup(c, net)
    /\ NoCoord /\ UNCHANGED faults /\ Workload

\* Close leaves the group without waiting for an answer; pending commits are not sent.
Close(c) ==
    /\ Does("close") /\ Phase(c, "work")
    /\ SetClient(c, Gone)
    /\ part' = [part EXCEPT ![c] = NoParts]
    /\ net' = Hangup(c, net) \union Leave(c)
    /\ NoCoord /\ UNCHANGED faults /\ Workload

LeaveArrives(r) ==
    /\ up /\ r \in net \ Commits
    /\ HandleLeave(r.mid, r.gen)
    /\ net' = net \ {r}
    /\ UNCHANGED <<cl, part, faults>> /\ Workload

\* Nobody heartbeats for m: its client has moved on, or only thinks of it as a join under way.
Ghost(m) == \A c \in Clients : m \notin {cl[c].mid, cl[c].jmid}

\* The session timeout passes: always for a ghost, for another member as a fault.
SessionLapse ==
    \E m \in DOMAIN group.members \ lapsed :
        /\ up /\ lapsed' = lapsed \union {m}
        /\ IF Ghost(m) THEN UNCHANGED faults ELSE Does("lapse") /\ Fault
        /\ UNCHANGED <<up, group, groupEpoch, lifecycle, mlog, logDown, scan, joins, acked, cl, part>>
        /\ Quiet

\* Retention removes the oldest records of a partition.
Retention(p) ==
    /\ Does("retention") /\ start[p] < End(p) - 1 /\ Fault
    /\ start' = [start EXCEPT ![p] = @ + 1]
    /\ NoCoord /\ UNCHANGED <<work, net, handled, cl, part>>

\* What c is waiting for an answer about on p, and its partition consumer without connections.
InFlight(c, p) == {r.offs[p] : r \in {q \in Live(c) : p \in DOMAIN q.offs}}
Severed(x, s)  == [x EXCEPT !.conn = Closed, !.retry = Max(s \union {@})]

\* The coordinating broker dies with its connections.
Crash ==
    /\ Does("crash") /\ up /\ Fault
    /\ CoordinatorCrash
    /\ net' = {}
    /\ part' = [c \in Clients |-> [p \in Partitions |-> Severed(part[c][p], InFlight(c, p))]]
    /\ cl' = [c \in Clients |-> IF cl[c].phase \in {"register", "add", "answer"} THEN Rejoin(c) ELSE cl[c]]
    /\ Workload

Recover ==
    /\ CoordinatorRecover
    /\ UNCHANGED <<cl, part>> /\ Quiet

BrokerStep ==
    /\ \/ (ExpireScan \/ ExpireApply) /\ UNCHANGED faults
       \/ LifecycleWrite \/ LifecycleFinish \/ LifecycleWriteFails
       \/ DeleteGroup \/ CompactMetadata
    /\ UNCHANGED <<cl, part>> /\ Quiet

\* The goroutines of a consumer: Start and the rebalance monitor, the heartbeat loop, the commit
\* worker, and per partition a reader and a worker.
Main(c) ==
    \/ HandleJoin(c) \/ RegisterGroup(c) \/ JoinAdd(c) \/ RaftJoin(c)
    \/ RaftAssignments(c) \/ JoinRespond(c) \/ HandleResume(c) \/ SyncGroup(c) \/ FetchOffset(c) \/ AssignmentReady(c)
    \/ BeginRebalance(c)
Reader(c, p) == StreamOpen(c, p) \/ Read(c, p) \/ OutOfRange(c, p)
Worker(c, p) == Handle(c, p) \/ SendBatchCommit(c, p) \/ CommitUnreachable(c, p)
ConsumerFault(c) ==
    \/ JoinLost(c) \/ Close(c)
    \/ \E p \in Partitions : HandlerFails(c, p) \/ ConnDrop(c, p)

Next ==
    \/ BrokerStep \/ SessionLapse \/ Crash \/ Recover
    \/ \E c \in Clients :
          \/ Main(c) \/ Heartbeat(c) \/ ProcessRetryQueue(c) \/ ConsumerFault(c)
          \/ \E p \in Partitions : Reader(c, p) \/ Worker(c, p)
    \/ \E r \in net : HandleBatchCommit(r) \/ CommitWriteFails(r) \/ CommitLost(r) \/ LeaveArrives(r)
    \/ \E p \in Partitions : Retention(p)

\* Goroutines are scheduled, requests are delivered, timers fire, and a crashed broker returns.
Fairness ==
    /\ \A c \in Clients :
          /\ WF_vars(Main(c)) /\ WF_vars(Heartbeat(c)) /\ WF_vars(ProcessRetryQueue(c))
          /\ \A p \in Partitions : WF_vars(Reader(c, p)) /\ WF_vars(Worker(c, p))
    /\ WF_vars(\E r \in net : HandleBatchCommit(r) \/ LeaveArrives(r))
    /\ WF_vars((ExpireScan \/ ExpireApply) /\ UNCHANGED <<cl, part, faults>> /\ Quiet)
    /\ WF_vars((LifecycleWrite \/ LifecycleFinish) /\ UNCHANGED <<cl, part>> /\ Quiet)
    /\ WF_vars(SessionLapse /\ UNCHANGED faults)
    /\ WF_vars(Recover)

Spec == Init /\ [][Next]_vars /\ Fairness

(***************************************************************************)
(* Properties.                                                             *)
(***************************************************************************)
\* At-least-once delivery: every record below a group's committed offset has been through some
\* member's handler or was removed by retention, whatever members were fenced, duplicated,
\* expired or restarted on the way (runWorker commits behind the handler; commits are fenced).
AtLeastOnce ==
    \A p \in Partitions : \A o \in 0 .. group.offs[p] - 1 :
        <<group.epoch, p, o>> \in handled \/ o < start[p]

\* A consumer that believes in other partitions than its valid generation gives it.
TornJoin(c) == /\ Phase(c, "work") /\ Validate(cl[c].mid, cl[c].gen) = "OK"
               /\ cl[c].asg # group.members[cl[c].mid]

Consumed == \/ \A p \in Partitions : Max({group.offs[p], 0}) = End(p)
            \/ \A c \in Clients : Phase(c, "closed")

\* When faults end and some consumer still runs, the group consumes the whole log: every
\* partition is eventually committed to its end and stays so, after lost answers, expired or
\* restarted members, failed handlers, broken connections and exhausted commit retries
\* (handleRebalanceSignal, ExpireConsumers, processRetryQueue).  The one obstacle is a join
\* answer that pairs an old assignment with a newer generation.
Drained ==
    work \intersect {"delete", "retention", "diskfault"} = {}
        => <>[](Consumed \/ \E c \in Clients : TornJoin(c))

\* The same without the exception: every partition of a group with a running consumer has one
\* that consumes it (handleJoinGroup).
EveryPartitionConsumed == <>[]Consumed
=============================================================================
