--------------------------- MODULE GroupCoordinator ---------------------------
(***************************************************************************)
(* The broker's side of one consumer group of one topic: the Coordinator   *)
(* of pkg/coordinator with its durable metadata log, and the handlers of   *)
(* pkg/controller that call it.  ConsumerGroup composes it with the SDK.   *)
(*                                                                         *)
(* A standalone broker keeps the group in memory and its registrations,    *)
(* offset snapshots and tombstones in an internal topic; in a cluster the  *)
(* same operations are entries of the Raft log, applied whole, and the     *)
(* group survives the broker that coordinates it.  Membership is never     *)
(* persisted by a standalone broker.                                       *)
(***************************************************************************)
EXTENDS Integers, FiniteSets, FiniteSetsExt, Sequences, SequencesExt, Functions

CONSTANTS
    Clients,       \* the SDK consumers, numbered in the order of their ConsumerIDs
    NumPartitions,
    Works,         \* the deployments and faults checked: sets of feature names
    MaxJoins,      \* bound: members ever added
    MaxEpoch,      \* bound: lifecycle epochs
    MaxFaults      \* bound: faults of every kind together

ASSUME GroupConstants ==
    /\ Clients \subseteq Nat /\ IsFiniteSet(Clients)
    /\ NumPartitions \in Nat \ {0}
    /\ {MaxJoins, MaxEpoch, MaxFaults} \subseteq Nat

VARIABLES
    work,        \* this behaviour's deployment and faults, a member of Works
    up,          \* the coordinator answers; FALSE between a crash and recovery
    group,       \* c.groups[name], NoGroup when there is none
    groupEpoch,  \* c.groupEpochs[name]
    lifecycle,   \* the registration or deletion holding lifecycleMu
    mlog,        \* records of the internal topic; replay does not depend on their order
    logDown,     \* the internal topic refuses writes until restart
    lapsed,      \* members whose last heartbeat is older than the session timeout
    scan,        \* what checkSingleGroupTimeout found, before it is applied
    joins,       \* members added so far: the random suffix, without collisions
    acked,       \* history: the highest offset acknowledged per partition
    faults

coordVars == <<up, group, groupEpoch, lifecycle, mlog, logDown, lapsed, scan, joins, acked>>

Does(what)  == what \in work
Standalone  == ~Does("cluster")
Partitions  == 0 .. NumPartitions - 1
None        == -1                                     \* no committed offset
NoOffsets   == [p \in Partitions |-> None]
NoMember    == <<>>
NoGroup     == [epoch |-> 0, gen |-> 0, members |-> << >>, offs |-> NoOffsets, rev |-> 0]
NoLifecycle == [op |-> "none", epoch |-> 0, written |-> FALSE]
NoScan      == [gen |-> 0, ids |-> {}]
NewGroup(e) == [NoGroup EXCEPT !.epoch = e]
Exists      == group.epoch # 0
Fault       == faults < MaxFaults /\ faults' = faults + 1
Idle        == lifecycle = NoLifecycle                \* lifecyclePending is clear

(***************************************************************************)
(* Membership.                                                             *)
(***************************************************************************)
\* Member IDs sort as strings: the client's ID first, then the suffix.
Precedes(m, n) == m[1] < n[1] \/ (m[1] = n[1] /\ m[2] < n[2])

\* Defect: the remainder is handed out without being counted in the next range's start.
RebalanceOverlapping(S) ==
    LET rank(m)  == Cardinality({n \in S : Precedes(n, m)})
        each     == NumPartitions \div Cardinality(S)
    IN  [m \in S |-> rank(m) * each ..
                     (rank(m) + 1) * each - (IF rank(m) < NumPartitions % Cardinality(S) THEN 0 ELSE 1)]

\* rebalanceRange: contiguous ranges in member order, the first ones one longer.
RebalanceRange(S) ==
    LET rank(m)  == Cardinality({n \in S : Precedes(n, m)})
        each     == NumPartitions \div Cardinality(S)
        first(i) == i * each + Min({i, NumPartitions % Cardinality(S)})
    IN  [m \in S |-> first(rank(m)) .. first(rank(m) + 1) - 1]

WithMembers(g, S) == [g EXCEPT !.gen = @ + 1, !.members = RebalanceRange(S)]

\* validateMemberGenerationLocked
Validate(m, gen) ==
    IF ~Exists THEN "group_not_found"
    ELSE IF m \notin DOMAIN group.members THEN "member_not_found"
    ELSE IF group.gen # gen THEN "GEN_MISMATCH" ELSE "OK"

\* Defect: a moved generation is taken for a passing error.
FencedMembers == {"member_not_found", "NOT_OWNER"}

\* Answers on which the SDK rejoins.
Fenced == {"member_not_found", "GEN_MISMATCH", "NOT_OWNER"}

\* ResumeConsumer, also behind SYNC_GROUP, and RecordHeartbeatForGeneration refresh the session.
Refresh(m) == lapsed' = lapsed \ {m}

\* Defect: a member is added while the group's deletion is being written.
AddDuringLifecycle == Exists

\* AddConsumer refuses while a lifecycle record is being written.
MayAdd == Idle /\ Exists

AddConsumer(m) ==
    /\ joins' = joins + 1
    /\ IF MayAdd THEN /\ group' = WithMembers(group, DOMAIN group.members \union {m})
                      /\ Refresh(m)
                 ELSE UNCHANGED <<group, lapsed>>

\* The FSM's JOIN: registration and membership in one entry.  applyViaLeader forwards an entry
\* again when its local attempt failed, so it may be applied twice.
ApplyJoin(m, twice) ==
    LET g == IF Exists THEN group ELSE NewGroup(groupEpoch + 1)
        h == WithMembers(g, DOMAIN g.members \union {m})
    IN  /\ joins' = joins + 1
        /\ group' = IF twice THEN WithMembers(h, DOMAIN h.members) ELSE h
        /\ groupEpoch' = h.epoch
        /\ Refresh(m)

\* handleLeaveGroup: RemoveConsumerForGeneration.
HandleLeave(m, gen) ==
    /\ group' = IF Validate(m, gen) = "OK" THEN WithMembers(group, DOMAIN group.members \ {m}) ELSE group
    /\ UNCHANGED <<up, groupEpoch, lifecycle, mlog, logDown, lapsed, scan, joins, acked>>

(***************************************************************************)
(* Session expiry: the scan and its application are two critical sections. *)
(***************************************************************************)
Expired == lapsed \intersect DOMAIN group.members

ExpireScan ==
    /\ up /\ Expired # {} /\ scan = NoScan
    /\ scan' = [gen |-> group.gen, ids |-> Expired]
    /\ UNCHANGED <<up, group, groupEpoch, lifecycle, mlog, logDown, lapsed, joins, acked>>

\* ExpireConsumers: nothing when the generation moved since the scan.
ExpireApply ==
    /\ up /\ scan # NoScan
    /\ group' = IF Exists /\ group.gen = scan.gen /\ scan.ids \intersect DOMAIN group.members # {}
                THEN WithMembers(group, DOMAIN group.members \ scan.ids) ELSE group
    /\ lapsed' = lapsed \intersect DOMAIN group'.members
    /\ scan' = NoScan
    /\ UNCHANGED <<up, groupEpoch, lifecycle, mlog, logDown, joins, acked>>

(***************************************************************************)
(* The durable metadata log of a standalone broker.                        *)
(***************************************************************************)
LifecycleRecord(op, e) == [type |-> op, epoch |-> e, rev |-> 0, offs |-> NoOffsets]
OffsetRecord(g)        == [type |-> "offsets", epoch |-> g.epoch, rev |-> g.rev, offs |-> g.offs]

Lifecycles(log) == {r \in log : r.type # "offsets"}
Latest(log)     == CHOOSE r \in Lifecycles(log) : \A s \in Lifecycles(log) : s.epoch <= r.epoch
Snapshots(log, e) == {r \in log : r.type = "offsets" /\ r.epoch = e}

\* recoverConsumerMetadata and materializeConsumerMetadata refuse a log whose records conflict.
Conflicts(log) ==
    \/ \E r, s \in Lifecycles(log) : r.epoch = s.epoch /\ r # s
    \/ \E r, s \in log : /\ r.type = "offsets" /\ s.type = "offsets" /\ r.epoch = s.epoch
                         /\ \/ r.rev = s.rev /\ r # s
                            \/ r.rev < s.rev /\ \E p \in Partitions : s.offs[p] < r.offs[p]

\* The group a restart finds: the newest registration with its newest offsets, no members.
Materialize(log) ==
    IF Lifecycles(log) = {} \/ Latest(log).type = "delete" THEN NoGroup
    ELSE LET e == Latest(log).epoch
             S == Snapshots(log, e)
         IN  IF S = {} THEN NewGroup(e)
             ELSE LET r == CHOOSE r \in S : \A s \in S : s.rev <= r.rev
                  IN  [NewGroup(e) EXCEPT !.offs = r.offs, !.rev = r.rev]

MaterializedEpoch(log) == IF Lifecycles(log) = {} THEN 0 ELSE Latest(log).epoch

(***************************************************************************)
(* Registration and deletion: lifecyclePending is published, the record is *)
(* written without the coordinator's lock, and then the group is replaced. *)
(***************************************************************************)
LifecycleBegin(op) ==
    /\ Idle /\ groupEpoch < MaxEpoch
    /\ lifecycle' = [op |-> op, epoch |-> groupEpoch + 1, written |-> FALSE]
    /\ UNCHANGED <<up, group, groupEpoch, mlog, logDown, lapsed, scan, joins, acked>>

LifecycleWrite ==
    /\ up /\ ~Idle /\ ~lifecycle.written /\ ~logDown
    /\ mlog' = mlog \union {LifecycleRecord(lifecycle.op, lifecycle.epoch)}
    /\ lifecycle' = [lifecycle EXCEPT !.written = TRUE]
    /\ UNCHANGED <<up, group, groupEpoch, logDown, lapsed, scan, joins, acked, faults>>

\* The write fails: the handler of the internal topic refuses later ones, and the record may or
\* may not be found on disk by the next start.
LifecycleWriteFails ==
    /\ up /\ ~Idle /\ ~lifecycle.written
    /\ IF logDown THEN UNCHANGED <<mlog, logDown, faults>>
       ELSE /\ Does("diskfault") /\ Fault /\ logDown' = TRUE
            /\ mlog' \in {mlog, mlog \union {LifecycleRecord(lifecycle.op, lifecycle.epoch)}}
    /\ lifecycle' = NoLifecycle
    /\ UNCHANGED <<up, group, groupEpoch, lapsed, scan, joins, acked>>

\* The group is installed or removed; a concurrent change of c.groups is impossible while pending.
LifecycleFinish ==
    /\ up /\ lifecycle.written
    /\ group' = IF lifecycle.op = "register" THEN NewGroup(lifecycle.epoch) ELSE NoGroup
    /\ groupEpoch' = lifecycle.epoch
    /\ lifecycle' = NoLifecycle
    /\ acked' = NoOffsets
    /\ UNCHANGED <<up, mlog, logDown, lapsed, scan, joins, faults>>

\* DeleteInactiveGroupsForTopic, for a topic deletion that finds no member.
DeleteGroup ==
    /\ Does("delete") /\ up /\ Exists /\ DOMAIN group.members = {}
    /\ IF Standalone THEN LifecycleBegin("delete")
       ELSE /\ groupEpoch < MaxEpoch
            /\ group' = NoGroup /\ groupEpoch' = groupEpoch + 1 /\ acked' = NoOffsets
            /\ UNCHANGED <<up, lifecycle, mlog, logDown, lapsed, scan, joins>>
    /\ UNCHANGED faults

(***************************************************************************)
(* Offset commits.  offs is a function on some partitions.                 *)
(***************************************************************************)
CommitCheck(m, gen, offs) ==
    IF Validate(m, gen) # "OK" THEN Validate(m, gen)
    ELSE IF ~(DOMAIN offs \subseteq group.members[m]) THEN "NOT_OWNER"
    ELSE IF ~Idle THEN "pending"
    ELSE IF \E p \in DOMAIN offs : offs[p] < group.offs[p] THEN "offset_regression" ELSE "OK"

\* Defect: every snapshot carries the first revision.
MergedUnnumbered(offs) ==
    [group EXCEPT !.offs = [p \in Partitions |-> IF p \in DOMAIN offs THEN offs[p] ELSE @[p]]]

\* mergedOffsetSnapshot with the next revision.
Merged(offs) ==
    [group EXCEPT !.rev = @ + 1,
                  !.offs = [p \in Partitions |-> IF p \in DOMAIN offs THEN offs[p] ELSE @[p]]]

Changes(offs) == \E p \in DOMAIN offs : group.offs[p] # offs[p]

\* Defect: the snapshot is published in memory and never written.
PersistNothing(g) == mlog

Persist(g) == IF Standalone THEN mlog \union {OffsetRecord(g)} ELSE mlog

\* ValidateAndCommitOffsetsBulk, or the FSM's fenced update.
CommitOffsets(offs) ==
    /\ IF Changes(offs) THEN group' = Merged(offs) /\ mlog' = Persist(Merged(offs))
                        ELSE UNCHANGED <<group, mlog>>
    /\ acked' = [p \in Partitions |-> IF p \in DOMAIN offs THEN Max({acked[p], offs[p]}) ELSE acked[p]]

(***************************************************************************)
(* Crash, and the start that replays the metadata log.                     *)
(***************************************************************************)
\* A standalone broker forgets its members; another broker takes over a cluster's group, whose
\* sessions it starts afresh.
CoordinatorCrash ==
    /\ up' = FALSE
    /\ lifecycle' = NoLifecycle /\ scan' = NoScan /\ lapsed' = {}
    /\ UNCHANGED <<group, groupEpoch, mlog, logDown, joins, acked>>

CoordinatorRecover ==
    /\ ~up /\ ~Conflicts(mlog) /\ up' = TRUE
    /\ IF Standalone
       THEN /\ group' = Materialize(mlog) /\ groupEpoch' = MaterializedEpoch(mlog)
            /\ acked' = IF groupEpoch' = groupEpoch THEN acked ELSE NoOffsets
       ELSE UNCHANGED <<group, groupEpoch, acked>>
    /\ logDown' = FALSE
    /\ UNCHANGED <<lifecycle, mlog, lapsed, scan, joins, faults>>

\* Compaction of the internal topic keeps the last record of each key.
CompactMetadata ==
    /\ Does("compact") /\ Standalone /\ up
    /\ LET top  == Latest(mlog)
           offs == {r \in mlog : r.type = "offsets"}
           last == {r \in offs : \A s \in offs : s.epoch < r.epoch \/ (s.epoch = r.epoch /\ s.rev <= r.rev)}
       IN  /\ Lifecycles(mlog) # {} /\ mlog # {top} \union last
           /\ mlog' = {top} \union last
    /\ UNCHANGED <<up, group, groupEpoch, lifecycle, logDown, lapsed, scan, joins, acked, faults>>

(***************************************************************************)
(* Properties.                                                             *)
(***************************************************************************)
\* Whatever order members join, leave and expire in, the live assignments partition the topic:
\* no partition is handed to two members or to none, and shares differ by at most one
\* (rebalanceRange, re-run by AddConsumer, removeConsumerLocked and ExpireConsumers).
AssignmentsCover ==
    LET S == DOMAIN group.members
    IN  S # {} => /\ UNION {group.members[m] : m \in S} = Partitions
                  /\ \A m, n \in S : /\ m # n => group.members[m] \intersect group.members[n] = {}
                                     /\ Cardinality(group.members[m]) <= Cardinality(group.members[n]) + 1

\* An offset a commit was acknowledged for is never lost: neither by a later commit, nor by a
\* crash at any point and the replay of the metadata log as it then is (writeOffsetSnapshot
\* before the in-memory update, materializeConsumerMetadata).
AckedCommitsDurable ==
    \A p \in Partitions :
        /\ up /\ Exists => acked[p] <= group.offs[p]
        /\ Standalone /\ acked[p] # None /\ MaterializedEpoch(mlog) = groupEpoch
              => acked[p] <= Materialize(mlog).offs[p]

\* Whatever fails or crashes, the next start can replay the metadata log: no two records of one
\* lifecycle epoch or offset revision disagree (the checks of recoverConsumerMetadata).
MetadataRecoverable == ~Conflicts(mlog)

\* A group disappears only while nobody is in it: DeleteGroup's emptiness check still holds when
\* the tombstone has been written, because AddConsumer refuses meanwhile.
DeletedWhenEmpty ==
    [][Exists /\ group'.epoch = 0 /\ up /\ up' => DOMAIN group.members = {}]_<<group, up>>

=============================================================================
