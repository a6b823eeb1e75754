---------------------------- MODULE DeliveryProofs ----------------------------
(***************************************************************************)
(* At-least-once delivery of a consumer group, for any number of clients,  *)
(* partitions, joins and faults.  A commit is right only because of what   *)
(* every layer below it holds back: the position a client commits was      *)
(* handled, the batches still in its queue account for whatever it read    *)
(* and has not handled, and none of this is worth anything once the member *)
(* the client works for is gone.                                           *)
(***************************************************************************)
EXTENDS ConsumerGroupProofs

-----------------------------------------------------------------------------
(* Progress on one partition.  h is the history of handled records, s the  *)
(* earliest retained offsets, e the group's epoch.                         *)

Seen(h, s, e, p, o)  == <<e, p, o>> \in h \/ o < s[p]
SeenBelow(h, s, e, p, x) == \A o \in Nat : o < x => Seen(h, s, e, p, o)

\* Offset o is in one of the first i batches of queue q.
Queued(q, i, o) == \E j \in 1 .. i : q[j].from <= o /\ o < q[j].to
PendingBelow(h, s, e, p, q, i, x) == \A o \in Nat : o < x => Seen(h, s, e, p, o) \/ Queued(q, i, o)

\* A partition consumer has handled what it has committed or will commit; what it read and has
\* not handled waits in its queue, in order.
PartInv(h, s, e, p, r) ==
    /\ SeenBelow(h, s, e, p, r.offs)
    /\ SeenBelow(h, s, e, p, r.commit)
    /\ SeenBelow(h, s, e, p, r.retry)
    /\ ~r.dead =>
          /\ \A i \in 1 .. Len(r.queue) :
                r.queue[i].inc = e /\ PendingBelow(h, s, e, p, r.queue, i - 1, r.queue[i].from)
          /\ PendingBelow(h, s, e, p, r.queue, Len(r.queue), r.fetch)
          /\ PendingBelow(h, s, e, p, r.queue, Len(r.queue), r.conn)

\* The partition consumers of a member.
WorkInv ==
    \A c \in Clients, p \in Partitions :
        Phase(c, "work") /\ cl[c].mid \in DOMAIN group.members
            => PartInv(handled, start, group.epoch, p, part[c][p])

\* The offsets a member has fetched before it starts.
GotInv ==
    \A c \in Clients : cl[c].phase \in {"sync", "offsets"} /\ cl[c].jmid \in DOMAIN group.members
        => \A p \in DOMAIN cl[c].got : SeenBelow(handled, start, group.epoch, p, cl[c].got[p])

\* The requests of a member, wherever it is by now.
NetInv ==
    \A r \in net : r.mid \in DOMAIN group.members
        => \A p \in DOMAIN r.offs : SeenBelow(handled, start, group.epoch, p, r.offs[p])

\* The snapshots in the metadata log, each for its own epoch.
SnapsSeen ==
    \A r \in OffsetRecords(mlog) : \A p \in Partitions : SeenBelow(handled, start, r.epoch, p, r.offs[p])

OffsetsSeen == \A p \in Partitions : SeenBelow(handled, start, group.epoch, p, group.offs[p])

DeliveryInv == WorkInv /\ GotInv /\ NetInv /\ SnapsSeen /\ OffsetsSeen

-----------------------------------------------------------------------------
(* Facts about progress.                                                   *)

\* Progress is never undone.
LEMMA SeenGrows ==
    ASSUME NEW h, NEW k, h \subseteq k, NEW s \in [Partitions -> Nat], NEW t \in [Partitions -> Nat],
           \A p \in Partitions : s[p] <= t[p], NEW e, NEW p \in Partitions
    PROVE  /\ \A x : SeenBelow(h, s, e, p, x) => SeenBelow(k, t, e, p, x)
           /\ \A q, i, x : PendingBelow(h, s, e, p, q, i, x) => PendingBelow(k, t, e, p, q, i, x)
           /\ \A r : PartInv(h, s, e, p, r) => PartInv(k, t, e, p, r)
<1>1. \A o \in Nat : Seen(h, s, e, p, o) => Seen(k, t, e, p, o)
  BY DEF Seen
<1>2. \A x : SeenBelow(h, s, e, p, x) => SeenBelow(k, t, e, p, x)
  BY <1>1 DEF SeenBelow
<1>3. \A q, i, x : PendingBelow(h, s, e, p, q, i, x) => PendingBelow(k, t, e, p, q, i, x)
  BY <1>1 DEF PendingBelow
<1>4. QED
  BY <1>2, <1>3 DEF PartInv

\* What was handled is settled whatever the queue holds.
LEMMA SeenIsPending ==
    ASSUME NEW h, NEW s, NEW e, NEW p, NEW q, NEW i, NEW x, SeenBelow(h, s, e, p, x)
    PROVE  PendingBelow(h, s, e, p, q, i, x)
  BY DEF SeenBelow, PendingBelow

\* Nothing lies below the first offset, and what retention removed counts as settled.
LEMMA NothingBelow ==
    ASSUME NEW h, NEW s \in [Partitions -> Nat], NEW e, NEW p \in Partitions
    PROVE  /\ \A x \in Int : x <= 0 => SeenBelow(h, s, e, p, x)
           /\ SeenBelow(h, s, e, p, s[p])
           /\ \A x, y \in Int : SeenBelow(h, s, e, p, x) /\ y <= x => SeenBelow(h, s, e, p, y)
  BY DEF SeenBelow, Seen

-----------------------------------------------------------------------------
(* What the steps of a partition consumer do to its record.                *)

\* Closing a connection.
LEMMA ClosedPart ==
    ASSUME NEW h, NEW s \in [Partitions -> Nat], NEW e, NEW p \in Partitions, NEW r \in PartRecs,
           PartInv(h, s, e, p, r), NEW k \in PartRecs, k.conn = Closed, k.fetch = r.fetch,
           k.offs = r.offs, k.queue = r.queue, k.commit = r.commit, k.dead = r.dead,
           SeenBelow(h, s, e, p, k.retry)
    PROVE  PartInv(h, s, e, p, k)
<1>1. SeenBelow(h, s, e, p, Closed)
  BY NothingBelow DEF Closed
<1>2. PendingBelow(h, s, e, p, k.queue, Len(k.queue), k.conn)
  BY <1>1, SeenIsPending
<1>3. QED
  BY <1>2 DEF PartInv

\* A batch that continues where the queue ends joins it.
LEMMA DeliveredPart ==
    ASSUME NEW h, NEW s \in [Partitions -> Nat], NEW p \in Partitions, NEW r \in PartRecs,
           groupEpoch \in Nat, PartInv(h, s, groupEpoch, p, r), NEW from \in Int, NEW to \in Int,
           ~r.dead => PendingBelow(h, s, groupEpoch, p, r.queue, Len(r.queue), from)
    PROVE  PartInv(h, s, groupEpoch, p, Delivered(r, from, to))
<1> DEFINE e == groupEpoch
           d == Delivered(r, from, to)
           b == [inc |-> e, from |-> from, to |-> to]
           q == r.queue
           n == Len(q)
<1>1. d \in PartRecs /\ d.offs = r.offs /\ d.commit = r.commit /\ d.retry = r.retry /\ d.dead = r.dead
  BY DeliveredForms
<1>2. CASE from = to
  <2>1. d.queue = q /\ d.fetch = r.fetch /\ d.conn = from
    BY <1>2, DeliveredForms
  <2>2. QED
    BY <1>1, <2>1 DEF PartInv
<1>3. CASE from # to
  <2>1. d.queue = Append(q, b) /\ d.fetch \in {r.fetch, to} /\ d.conn = to
    BY <1>3, DeliveredForms
  <2>2. q \in Seq(BatchRecs) /\ b \in BatchRecs /\ n \in Nat /\ b.inc = e /\ b.from = from /\ b.to = to
    BY DEF PartRecs, BatchRecs
  <2> HIDE DEF b, d
  <2>3. /\ Len(d.queue) = n + 1 /\ d.queue[n + 1] = b
        /\ \A i \in 1 .. n : d.queue[i] = q[i]
    BY <2>1, <2>2
  <2> HIDE DEF n, q
  <2>4. \A i \in 0 .. n, o \in Nat : Queued(q, i, o) => Queued(d.queue, i, o) /\ Queued(d.queue, n + 1, o)
    <3>1. SUFFICES ASSUME NEW i \in 0 .. n, NEW o \in Nat, NEW j \in 1 .. i, q[j].from <= o /\ o < q[j].to
                   PROVE  Queued(d.queue, i, o) /\ Queued(d.queue, n + 1, o)
      BY DEF Queued
    <3>2. j \in 1 .. n /\ j \in 1 .. n + 1
      BY <2>2, <3>1
    <3>3. d.queue[j].from <= o /\ o < d.queue[j].to
      BY <2>3, <3>1, <3>2
    <3>4. QED
      BY <3>2, <3>3 DEF Queued
  <2>5. \A i \in 0 .. n : \A x : PendingBelow(h, s, e, p, q, i, x)
            => PendingBelow(h, s, e, p, d.queue, i, x) /\ PendingBelow(h, s, e, p, d.queue, n + 1, x)
    BY <2>4 DEF PendingBelow
  <2>6. SUFFICES ASSUME ~r.dead
                 PROVE  /\ \A i \in 1 .. n + 1 :
                             d.queue[i].inc = e /\ PendingBelow(h, s, e, p, d.queue, i - 1, d.queue[i].from)
                        /\ PendingBelow(h, s, e, p, d.queue, n + 1, d.fetch)
                        /\ PendingBelow(h, s, e, p, d.queue, n + 1, d.conn)
    <3>1. SeenBelow(h, s, e, p, r.offs) /\ SeenBelow(h, s, e, p, r.commit) /\ SeenBelow(h, s, e, p, r.retry)
      BY DEF PartInv
    <3>2. PartInv(h, s, e, p, d)
      BY <1>1, <2>3, <2>6, <3>1 DEF PartInv
    <3>3. QED
      BY <3>2 DEF d
  <2>7. /\ \A i \in 1 .. n : q[i].inc = e /\ PendingBelow(h, s, e, p, q, i - 1, q[i].from)
        /\ PendingBelow(h, s, e, p, q, n, r.fetch) /\ PendingBelow(h, s, e, p, q, n, from)
    BY <2>6 DEF PartInv, q, n
  <2>8. PendingBelow(h, s, e, p, d.queue, n + 1, to)
    <3>1. SUFFICES ASSUME NEW o \in Nat, o < to PROVE Seen(h, s, e, p, o) \/ Queued(d.queue, n + 1, o)
      BY DEF PendingBelow
    <3>2. CASE o < from
      BY <2>2, <2>4, <2>7, <3>2 DEF PendingBelow
    <3>3. CASE from <= o
      BY <2>2, <2>3, <3>1, <3>3 DEF Queued
    <3>4. QED
      BY <3>2, <3>3
  <2>9. PendingBelow(h, s, e, p, d.queue, n + 1, d.fetch) /\ PendingBelow(h, s, e, p, d.queue, n + 1, d.conn)
    BY <2>1, <2>2, <2>5, <2>7, <2>8
  <2>10. ASSUME NEW i \in 1 .. n + 1
         PROVE  d.queue[i].inc = e /\ PendingBelow(h, s, e, p, d.queue, i - 1, d.queue[i].from)
    <3>1. CASE i \in 1 .. n
      <4>1. i - 1 \in 0 .. n /\ d.queue[i] = q[i]
        BY <2>2, <2>3, <3>1
      <4>2. QED
        BY <2>5, <2>7, <3>1, <4>1
    <3>2. CASE i = n + 1
      <4>1. i - 1 = n /\ n \in 0 .. n
        BY <2>2, <3>2
      <4>2. QED
        BY <2>2, <2>3, <2>5, <2>7, <3>2, <4>1
    <3>3. QED
      BY <2>2, <3>1, <3>2
  <2>11. QED
    BY <2>9, <2>10
<1>4. QED
  BY <1>2, <1>3

\* Committing: the positions move, the queue and the reader do not.
LEMMA CommittedPart ==
    ASSUME NEW h, NEW s, NEW e, NEW p, NEW r, PartInv(h, s, e, p, r), NEW k,
           k.conn = r.conn, k.fetch = r.fetch, k.queue = r.queue, k.dead = r.dead,
           SeenBelow(h, s, e, p, k.offs), SeenBelow(h, s, e, p, k.commit), SeenBelow(h, s, e, p, k.retry)
    PROVE  PartInv(h, s, e, p, k)
  BY DEF PartInv

\* A handled batch is the first of the queue: what precedes it had been handled before.
LEMMA HandledPart ==
    ASSUME NEW h, NEW s \in [Partitions -> Nat], NEW e, NEW p \in Partitions, NEW r \in PartRecs,
           PartInv(h, s, e, p, r), ~r.dead, r.queue # << >>, NEW k \in PartRecs,
           k.queue = Tail(r.queue), k.commit = Head(r.queue).to, k.conn = r.conn, k.fetch = r.fetch,
           k.offs = r.offs, k.retry = r.retry, k.dead = r.dead, NEW g, h \subseteq g,
           \A o \in Nat : Head(r.queue).from <= o /\ o < Head(r.queue).to => <<Head(r.queue).inc, p, o>> \in g
    PROVE  PartInv(g, s, e, p, k)
<1> DEFINE q == r.queue
           n == Len(q)
           b == Head(q)
<1>1. /\ q \in Seq(BatchRecs) /\ n \in Nat \ {0} /\ b = q[1] /\ b \in BatchRecs
      /\ Len(k.queue) = n - 1 /\ \A i \in 1 .. n - 1 : k.queue[i] = q[i + 1]
  <2>1. q \in Seq(BatchRecs) /\ q # << >>
    BY DEF PartRecs
  <2>2. QED
    BY <2>1, QueueForms
<1>2. b.inc = e /\ b.from \in Int /\ b.to \in Int
  BY <1>1 DEF PartInv, BatchRecs
<1>3. \A i \in 1 .. n : q[i].inc = e /\ PendingBelow(h, s, e, p, q, i - 1, q[i].from)
  BY DEF PartInv
<1>4. PendingBelow(h, s, e, p, q, n, r.fetch) /\ PendingBelow(h, s, e, p, q, n, r.conn)
  BY DEF PartInv
<1>5. SeenBelow(h, s, e, p, r.offs) /\ SeenBelow(h, s, e, p, r.retry)
  BY DEF PartInv
<1>6. \A o \in Nat : b.from <= o /\ o < b.to => <<e, p, o>> \in g
  BY <1>2
<1>7. h \subseteq g
  OBVIOUS
<1> HIDE DEF q, n, b
<1>8. \A o \in Nat : Seen(h, s, e, p, o) => Seen(g, s, e, p, o)
  BY <1>7 DEF Seen
<1>9. SeenBelow(g, s, e, p, r.offs) /\ SeenBelow(g, s, e, p, r.retry)
  BY <1>5, <1>8 DEF SeenBelow
<1>10. SeenBelow(g, s, e, p, b.to)
  <2>1. SUFFICES ASSUME NEW o \in Nat, o < b.to PROVE Seen(g, s, e, p, o)
    BY DEF SeenBelow
  <2>2. CASE b.from <= o
    BY <1>6, <2>1, <2>2 DEF Seen
  <2>3. CASE o < b.from
    <3>1. PendingBelow(h, s, e, p, q, 0, b.from)
      BY <1>1, <1>3
    <3>2. ~Queued(q, 0, o)
      BY DEF Queued
    <3>3. QED
      BY <1>8, <2>3, <3>1, <3>2 DEF PendingBelow
  <2>4. QED
    BY <1>2, <2>2, <2>3
<1>11. \A i \in 1 .. n : \A x : PendingBelow(h, s, e, p, q, i, x) => PendingBelow(g, s, e, p, k.queue, i - 1, x)
  <2>1. SUFFICES ASSUME NEW i \in 1 .. n, NEW x, PendingBelow(h, s, e, p, q, i, x), NEW o \in Nat, o < x
                 PROVE  Seen(g, s, e, p, o) \/ Queued(k.queue, i - 1, o)
    BY DEF PendingBelow
  <2>2. CASE Seen(h, s, e, p, o)
    BY <1>8, <2>2
  <2>3. ASSUME NEW j \in 1 .. i, q[j].from <= o /\ o < q[j].to
        PROVE  Seen(g, s, e, p, o) \/ Queued(k.queue, i - 1, o)
    <3>1. CASE j = 1
      BY <1>1, <1>6, <2>3, <3>1 DEF Seen
    <3>2. CASE j # 1
      <4>1. j - 1 \in 1 .. i - 1 /\ j - 1 \in 1 .. n - 1 /\ (j - 1) + 1 = j
        BY <1>1, <2>1, <2>3, <3>2
      <4>2. k.queue[j - 1] = q[j]
        BY <1>1, <4>1
      <4>3. QED
        BY <2>3, <4>1, <4>2 DEF Queued
    <3>3. QED
      BY <3>1, <3>2
  <2>4. QED
    BY <2>1, <2>2, <2>3 DEF PendingBelow, Queued
<1>12. \A i \in 1 .. n - 1 : /\ k.queue[i].inc = e
                             /\ PendingBelow(g, s, e, p, k.queue, i - 1, k.queue[i].from)
  <2>1. SUFFICES ASSUME NEW i \in 1 .. n - 1
                 PROVE  k.queue[i].inc = e /\ PendingBelow(g, s, e, p, k.queue, i - 1, k.queue[i].from)
    OBVIOUS
  <2>2. i \in 1 .. n /\ i + 1 \in 1 .. n /\ (i + 1) - 1 = i
    BY <1>1, <2>1
  <2>3. q[i + 1].inc = e /\ PendingBelow(h, s, e, p, q, i, q[i + 1].from)
    BY <1>3, <2>2
  <2>4. QED
    BY <1>1, <1>11, <2>2, <2>3
<1>13. PendingBelow(g, s, e, p, k.queue, n - 1, k.fetch) /\ PendingBelow(g, s, e, p, k.queue, n - 1, k.conn)
  <2>1. n \in 1 .. n
    BY <1>1
  <2>2. QED
    BY <1>4, <1>11, <2>1
<1>14. k.commit = b.to
  BY DEF b, q
<1>15. QED
  BY <1>1, <1>9, <1>10, <1>12, <1>13, <1>14 DEF PartInv

-----------------------------------------------------------------------------
(* Who is a member after a step, and what that takes.                      *)

\* An ID that was known stays a member only of the same group.
MembersKept ==
    \A m \in KnownIds(joins) :
        m \in DOMAIN group'.members => m \in DOMAIN group.members /\ group'.epoch = group.epoch

\* Handled records stay handled, removed ones removed.
Progress ==
    /\ handled \subseteq handled'
    /\ start' \in [Partitions -> Nat] /\ \A p \in Partitions : start[p] <= start'[p]

\* Every step keeps the members' IDs apart from new ones.
LEMMA StepsKeepMembers ==
    ASSUME GroupInv, [Next]_vars PROVE MembersKept
<1>1. \A m \in KnownIds(joins) : m \notin NewIds
  <2>1. NoMember \notin JoinedIds(joins')
    BY DEF NoMember, JoinedIds
  <2>2. QED
    BY <2>1 DEF KnownIds, NewIds
<1>2. CASE UNCHANGED group
  BY <1>2 DEF MembersKept
<1>3. CASE Regroups \/ Replaces
  BY <1>1, <1>3 DEF MembersKept, Regroups, Replaces
<1>4. CASE Advances
  <2>1. PICK r \in net : CommitCheck(r.mid, r.gen, r.offs) = "OK" /\ group' = Merged(r.offs)
    BY <1>4 DEF Advances
  <2>2. r.offs \in PartialOffsets
    BY CommitRequest
  <2>3. \A p \in DOMAIN r.offs : ~(r.offs[p] < group.offs[p])
    BY <2>1, CommitAccepted
  <2>4. Merged(r.offs).members = group.members /\ Merged(r.offs).epoch = group.epoch
    BY <2>2, <2>3, MergedFields DEF GroupInv
  <2>5. QED
    BY <2>1, <2>4 DEF MembersKept
<1>5. CASE Restores
  <2>1. DOMAIN group'.members = {}
    BY <1>5, MaterializeIs DEF Restores, GroupInv
  <2>2. QED
    BY <2>1 DEF MembersKept
<1>6. QED
  BY <1>2, <1>3, <1>4, <1>5, GroupMoves

\* Partition consumers: those of members are as they were or have earned their new record.
LEMMA WorkStep ==
    ASSUME GroupInv, DeliveryInv, MembersKept, Progress,
           \A c \in Clients, p \in Partitions :
               cl'[c].phase = "work" /\ cl'[c].mid \in DOMAIN group'.members
                 => \/ cl[c].phase = "work" /\ cl'[c].mid = cl[c].mid /\ part'[c][p] = part[c][p]
                    \/ PartInv(handled', start', group'.epoch, p, part'[c][p])
    PROVE  WorkInv'
<1>1. SUFFICES ASSUME NEW c \in Clients, NEW p \in Partitions,
                      cl'[c].phase = "work", cl'[c].mid \in DOMAIN group'.members,
                      cl[c].phase = "work", cl'[c].mid = cl[c].mid, part'[c][p] = part[c][p]
               PROVE  PartInv(handled', start', group'.epoch, p, part'[c][p])
  BY DEF WorkInv, Phase
<1>2. cl[c].mid \in KnownIds(joins) /\ start \in [Partitions -> Nat]
  BY GroupTypes DEF ClientRecs
<1>3. cl[c].mid \in DOMAIN group.members /\ group'.epoch = group.epoch
  BY <1>1, <1>2 DEF MembersKept
<1>4. PartInv(handled, start, group.epoch, p, part[c][p])
  BY <1>1, <1>3 DEF DeliveryInv, WorkInv, Phase
<1>5. QED
  BY <1>1, <1>2, <1>3, <1>4, SeenGrows DEF Progress

\* Fetched offsets, likewise.
LEMMA GotStep ==
    ASSUME GroupInv, DeliveryInv, MembersKept, Progress,
           \A c \in Clients :
               cl'[c].phase \in {"sync", "offsets"} /\ cl'[c].jmid \in DOMAIN group'.members
                 => \/ /\ cl[c].phase \in {"sync", "offsets"} /\ cl'[c].jmid = cl[c].jmid
                       /\ cl'[c].got = cl[c].got
                    \/ \A p \in DOMAIN cl'[c].got : SeenBelow(handled', start', group'.epoch, p, cl'[c].got[p])
    PROVE  GotInv'
<1>1. SUFFICES ASSUME NEW c \in Clients, cl'[c].phase \in {"sync", "offsets"},
                      cl'[c].jmid \in DOMAIN group'.members,
                      cl[c].phase \in {"sync", "offsets"}, cl'[c].jmid = cl[c].jmid, cl'[c].got = cl[c].got,
                      NEW p \in DOMAIN cl[c].got
               PROVE  SeenBelow(handled', start', group'.epoch, p, cl[c].got[p])
  BY DEF GotInv
<1>2. cl[c].jmid \in KnownIds(joins) /\ start \in [Partitions -> Nat] /\ cl[c].got \in PartialOffsets
  BY GroupTypes DEF ClientRecs
<1>3. cl[c].jmid \in DOMAIN group.members /\ group'.epoch = group.epoch
  BY <1>1, <1>2 DEF MembersKept
<1>4. SeenBelow(handled, start, group.epoch, p, cl[c].got[p])
  BY <1>1, <1>3 DEF DeliveryInv, GotInv
<1>5. p \in Partitions
  BY <1>1, <1>2 DEF PartialOffsets
<1>6. QED
  BY <1>2, <1>3, <1>4, <1>5, SeenGrows DEF Progress

\* Requests, likewise.
LEMMA NetStep ==
    ASSUME GroupInv, DeliveryInv, MembersKept, Progress,
           \A q \in net' : q.mid \in DOMAIN group'.members
             => \/ \E r \in net : q.mid = r.mid /\ q.offs = r.offs
                \/ \A p \in DOMAIN q.offs : SeenBelow(handled', start', group'.epoch, p, q.offs[p])
    PROVE  NetInv'
<1>1. SUFFICES ASSUME NEW q \in net', q.mid \in DOMAIN group'.members,
                      NEW r \in net, q.mid = r.mid, q.offs = r.offs, NEW p \in DOMAIN q.offs
               PROVE  SeenBelow(handled', start', group'.epoch, p, q.offs[p])
  BY DEF NetInv
<1>2. r.mid \in KnownIds(joins) /\ start \in [Partitions -> Nat] /\ p \in Partitions
  BY <1>1, GroupTypes, CommitRequest DEF RequestRecs
<1>3. r.mid \in DOMAIN group.members /\ group'.epoch = group.epoch
  BY <1>1, <1>2 DEF MembersKept
<1>4. SeenBelow(handled, start, group.epoch, p, r.offs[p])
  BY <1>1, <1>3 DEF DeliveryInv, NetInv
<1>5. QED
  BY <1>1, <1>2, <1>3, <1>4, SeenGrows DEF Progress

-----------------------------------------------------------------------------
(* The coordinator's offsets.                                              *)

\* The history only grows, and retention only advances.
LEMMA StepsProgress ==
    ASSUME GroupInv, [Next]_vars PROVE Progress
<1>1. start \in [Partitions -> Nat]
  BY GroupTypes
<1>2. CASE UNCHANGED <<start, handled>>
  BY <1>1, <1>2 DEF Progress
<1>3. ASSUME NEW p \in Partitions, Retention(p) PROVE Progress
  <2>1. handled' = handled /\ start' = [start EXCEPT ![p] = @ + 1]
    BY <1>3 DEF Retention
  <2>2. QED
    BY <1>1, <2>1 DEF Progress
<1>4. ASSUME NEW c \in Clients, NEW p \in Partitions, Handle(c, p) PROVE Progress
  <2>1. UNCHANGED start /\ handled \subseteq handled'
    BY <1>4 DEF Handle, HandleBatch
  <2>2. QED
    BY <1>1, <2>1 DEF Progress
<1>5. CASE Crash \/ BrokerStep \/ SessionLapse \/ Recover
  BY <1>2, <1>5 DEF Crash, BrokerStep, SessionLapse, Recover, Quiet, Workload
<1>6. ASSUME NEW c \in Clients, Main(c) PROVE UNCHANGED <<start, handled>>
  <2>1. CASE AssignmentReady(c)
    <3>1. Quiet
      BY <2>1, Zenon DEF AssignmentReady
    <3>2. QED
      BY <3>1 DEF Quiet
  <2>2. CASE ~AssignmentReady(c)
    BY <1>6, <2>2 DEF Main, HandleJoin, RegisterGroup, JoinAdd, RaftJoin, RaftAssignments, JoinRespond,
                      HandleResume, SyncGroup, FetchOffset, BeginRebalance, Quiet, Workload
  <2>3. QED
    BY <2>1, <2>2
<1>7. ASSUME NEW c \in Clients, Heartbeat(c) \/ ProcessRetryQueue(c) \/ JoinLost(c) \/ Close(c)
      PROVE  UNCHANGED <<start, handled>>
  BY <1>7 DEF Heartbeat, ProcessRetryQueue, JoinLost, Close, Quiet, Workload
<1>8. ASSUME NEW c \in Clients, NEW p \in Partitions, HandlerFails(c, p) \/ ConnDrop(c, p) \/ Reader(c, p)
      PROVE  UNCHANGED <<start, handled>>
  <2>1. Quiet
    BY <1>8, Zenon DEF HandlerFails, ConnDrop, Reader, StreamOpen, Read, OutOfRange
  <2>2. QED
    BY <2>1 DEF Quiet
<1>9. ASSUME NEW c \in Clients, NEW p \in Partitions, SendBatchCommit(c, p) \/ CommitUnreachable(c, p)
      PROVE  UNCHANGED <<start, handled>>
  <2>1. Quiet \/ Workload
    BY <1>9, Zenon DEF SendBatchCommit, CommitUnreachable
  <2>2. QED
    BY <2>1 DEF Quiet, Workload
<1>10. ASSUME NEW r \in net, HandleBatchCommit(r) \/ CommitWriteFails(r) \/ CommitLost(r) \/ LeaveArrives(r)
       PROVE  UNCHANGED <<start, handled>>
  BY <1>10 DEF HandleBatchCommit, CommitWriteFails, CommitLost, LeaveArrives, Workload
<1>11. CASE UNCHANGED vars
  BY <1>2, <1>11 DEF vars
<1>12. QED
  BY <1>2, <1>3, <1>4, <1>5, <1>6, <1>7, <1>8, <1>9, <1>10, <1>11 DEF Next, ConsumerFault, Worker

\* What an accepted commit makes of the offsets has been seen.
LEMMA MergedSeen ==
    ASSUME GroupInv, DeliveryInv, NEW r \in net, CommitCheck(r.mid, r.gen, r.offs) = "OK"
    PROVE  /\ Merged(r.offs).epoch = group.epoch
           /\ \A p \in Partitions : SeenBelow(handled, start, group.epoch, p, Merged(r.offs).offs[p])
<1>1. r.offs \in PartialOffsets
  BY CommitRequest
<1>2. r.mid \in DOMAIN group.members /\ \A p \in DOMAIN r.offs : ~(r.offs[p] < group.offs[p])
  BY CommitAccepted
<1>3. /\ Merged(r.offs).epoch = group.epoch
      /\ Merged(r.offs).offs = [p \in Partitions |-> IF p \in DOMAIN r.offs THEN r.offs[p] ELSE group.offs[p]]
  BY <1>1, <1>2, MergedFields DEF GroupInv
<1>4. \A p \in DOMAIN r.offs : SeenBelow(handled, start, group.epoch, p, r.offs[p])
  BY <1>2 DEF DeliveryInv, NetInv
<1>5. QED
  BY <1>3, <1>4 DEF DeliveryInv, OffsetsSeen

\* The group's offsets stay behind its handlers, along every change of the group.
LEMMA OffsetsStep ==
    ASSUME GroupInv, DeliveryInv, [Next]_vars PROVE OffsetsSeen'
<1>1. Progress /\ start \in [Partitions -> Nat]
  BY StepsProgress, GroupTypes
<1>2. \A e, x : \A p \in Partitions : SeenBelow(handled, start, e, p, x) => SeenBelow(handled', start', e, p, x)
  BY <1>1, SeenGrows DEF Progress
<1>3. \A e : \A p \in Partitions : SeenBelow(handled', start', e, p, NoOffsets[p])
  BY <1>1, NothingBelow DEF NoOffsets, None, Progress
<1>4. CASE UNCHANGED group \/ Regroups
  <2>1. group'.epoch = group.epoch /\ group'.offs = group.offs
    BY <1>4 DEF Regroups
  <2>2. QED
    BY <1>2, <2>1 DEF DeliveryInv, OffsetsSeen
<1>5. CASE Replaces
  BY <1>3, <1>5 DEF Replaces, OffsetsSeen
<1>6. CASE Advances
  <2>1. PICK r \in net : CommitCheck(r.mid, r.gen, r.offs) = "OK" /\ group' = Merged(r.offs)
    BY <1>6 DEF Advances
  <2>2. QED
    BY <1>2, <2>1, MergedSeen DEF OffsetsSeen
<1>7. CASE Restores
  <2> DEFINE g == Materialize(mlog)
  <2>1. /\ group' = g /\ g \in GroupType /\ g.epoch \in {0, MaterializedEpoch(mlog)}
        /\ g.epoch = 0 => g = NoGroup
        /\ g.rev = 0 => g.offs = NoOffsets
        /\ g.epoch # 0 /\ g.rev > 0 => \E r \in OffsetRecords(mlog) : r.epoch = g.epoch /\ r.offs = g.offs
    BY <1>7, MaterializeIs DEF Restores, GroupInv
  <2>2. NoGroup.offs = NoOffsets
    BY EmptyGroups
  <2>3. g.rev = 0 \/ g.rev > 0
    BY <2>1 DEF GroupType
  <2> HIDE DEF g
  <2>4. CASE g.offs = NoOffsets
    BY <1>3, <2>1, <2>4 DEF OffsetsSeen
  <2>5. CASE g.offs # NoOffsets
    <3>1. PICK r \in OffsetRecords(mlog) : r.epoch = g.epoch /\ r.offs = g.offs
      BY <2>1, <2>2, <2>3, <2>5
    <3>2. QED
      BY <1>2, <2>1, <3>1 DEF OffsetsSeen, DeliveryInv, SnapsSeen
  <2>6. QED
    BY <2>4, <2>5
<1>8. QED
  BY <1>4, <1>5, <1>6, <1>7, GroupMoves

\* Snapshots come from commits that were accepted, whether or not their write was.
LEMMA LogMoves ==
    ASSUME GroupInv, [Next]_vars, NEW x \in OffsetRecords(mlog')
    PROVE  \/ x \in OffsetRecords(mlog)
           \/ \E r \in net : CommitCheck(r.mid, r.gen, r.offs) = "OK" /\ x = OffsetRecord(Merged(r.offs))
<1>1. CASE UNCHANGED mlog
  BY <1>1
<1>2. CASE BrokerStep
  <2>1. CASE ExpireScan \/ ExpireApply \/ LifecycleFinish \/ DeleteGroup
    BY <1>1, <2>1 DEF ExpireScan, ExpireApply, LifecycleFinish, DeleteGroup, LifecycleBegin
  <2>2. CASE CompactMetadata
    <3>1. Lifecycles(mlog) # {}
      BY <2>2 DEF CompactMetadata
    <3>2. Latest(mlog) \in Lifecycles(mlog)
      <4>1. mlog \in SUBSET Records /\ \A r \in Lifecycles(mlog) : r.epoch <= groupEpoch + 1
        BY DEF GroupInv, CoordInv, CoordType, LogInv
      <4>2. groupEpoch + 1 \in Nat
        BY GroupTypes
      <4>3. QED
        BY <3>1, <4>1, <4>2, LatestIsNewest
    <3>3. mlog' \subseteq mlog \union {Latest(mlog)}
      BY <2>2 DEF CompactMetadata
    <3>4. QED
      BY <3>2, <3>3 DEF Lifecycles, OffsetRecords
  <2>3. CASE LifecycleWrite \/ LifecycleWriteFails
    <3>1. mlog' \subseteq mlog \union {LifecycleRecord(lifecycle.op, lifecycle.epoch)}
      BY <2>3 DEF LifecycleWrite, LifecycleWriteFails
    <3>2. lifecycle.op # "offsets"
      BY DEF GroupInv, CoordInv, CoordType
    <3>3. LifecycleRecord(lifecycle.op, lifecycle.epoch).type # "offsets"
      BY <3>2 DEF LifecycleRecord
    <3>4. QED
      BY <3>1, <3>3 DEF OffsetRecords
  <2>4. QED
    BY <1>2, <2>1, <2>2, <2>3 DEF BrokerStep
<1>3. CASE SessionLapse \/ Crash \/ Recover \/ \E p \in Partitions : Retention(p)
  BY <1>1, <1>3 DEF SessionLapse, Crash, CoordinatorCrash, Recover, CoordinatorRecover, Retention, NoCoord, coordVars
<1>4. ASSUME NEW c \in Clients, Main(c) PROVE UNCHANGED mlog
  <2>1. CASE AssignmentReady(c)
    <3>1. NoCoord
      BY <2>1, Zenon DEF AssignmentReady
    <3>2. QED
      BY <3>1 DEF NoCoord, coordVars
  <2>2. CASE ~AssignmentReady(c)
    BY <1>4, <2>2 DEF Main, HandleJoin, RegisterGroup, LifecycleBegin, JoinAdd, RaftJoin, RaftAssignments,
                      JoinRespond, HandleResume, SyncGroup, FetchOffset, BeginRebalance, NoCoord, coordVars
  <2>3. QED
    BY <2>1, <2>2
<1>5. ASSUME NEW c \in Clients,
             \/ Heartbeat(c) \/ ProcessRetryQueue(c) \/ ConsumerFault(c)
             \/ \E p \in Partitions : Reader(c, p) \/ Worker(c, p)
      PROVE  UNCHANGED mlog
  <2>1. CASE Heartbeat(c)
    BY <2>1 DEF Heartbeat
  <2>2. CASE ~Heartbeat(c)
    BY <1>5, <2>2, ClientsLeaveCoord DEF NoCoord, coordVars
  <2>3. QED
    BY <2>1, <2>2
<1>6. ASSUME NEW r \in net, HandleBatchCommit(r)
      PROVE  UNCHANGED mlog \/ (/\ CommitCheck(r.mid, r.gen, r.offs) = "OK"
                                /\ mlog' \subseteq mlog \union {OffsetRecord(Merged(r.offs))})
  BY <1>6 DEF HandleBatchCommit, CommitOffsets, Persist
<1>7. ASSUME NEW r \in net, CommitWriteFails(r)
      PROVE  /\ CommitCheck(r.mid, r.gen, r.offs) = "OK"
             /\ mlog' \subseteq mlog \union {OffsetRecord(Merged(r.offs))}
  BY <1>7 DEF CommitWriteFails
<1>8. ASSUME NEW r \in net, CommitCheck(r.mid, r.gen, r.offs) = "OK",
             mlog' \subseteq mlog \union {OffsetRecord(Merged(r.offs))}
      PROVE  \/ x \in OffsetRecords(mlog)
             \/ \E q \in net : CommitCheck(q.mid, q.gen, q.offs) = "OK" /\ x = OffsetRecord(Merged(q.offs))
  <2>1. x \in mlog' /\ x.type = "offsets"
    BY DEF OffsetRecords
  <2>2. x \in OffsetRecords(mlog) \/ x = OffsetRecord(Merged(r.offs))
    BY <1>8, <2>1 DEF OffsetRecords
  <2>3. QED
    BY <1>8, <2>2
<1>9. ASSUME NEW r \in net, CommitLost(r) \/ LeaveArrives(r) PROVE UNCHANGED mlog
  BY <1>9 DEF CommitLost, LeaveArrives, HandleLeave, NoCoord, coordVars
<1>10. CASE UNCHANGED vars
  BY <1>1, <1>10 DEF vars, coordVars
<1>11. QED
  BY <1>1, <1>2, <1>3, <1>4, <1>5, <1>6, <1>7, <1>8, <1>9, <1>10 DEF Next

\* Every snapshot stays behind the handlers of its own epoch.
LEMMA SnapsStep ==
    ASSUME GroupInv, DeliveryInv, [Next]_vars PROVE SnapsSeen'
<1>1. Progress /\ start \in [Partitions -> Nat]
  BY StepsProgress, GroupTypes
<1>2. \A e, x : \A p \in Partitions : SeenBelow(handled, start, e, p, x) => SeenBelow(handled', start', e, p, x)
  BY <1>1, SeenGrows DEF Progress
<1>3. SUFFICES ASSUME NEW x \in OffsetRecords(mlog'), NEW p \in Partitions
               PROVE  SeenBelow(handled', start', x.epoch, p, x.offs[p])
  BY DEF SnapsSeen, OffsetRecords
<1>4. CASE x \in OffsetRecords(mlog)
  BY <1>2, <1>4 DEF DeliveryInv, SnapsSeen
<1>5. ASSUME NEW r \in net, CommitCheck(r.mid, r.gen, r.offs) = "OK", x = OffsetRecord(Merged(r.offs))
      PROVE  SeenBelow(handled', start', x.epoch, p, x.offs[p])
  <2> DEFINE g == Merged(r.offs)
  <2>1. g.epoch = group.epoch /\ SeenBelow(handled, start, group.epoch, p, g.offs[p])
    BY <1>5, MergedSeen
  <2> HIDE DEF g
  <2>2. x.epoch = g.epoch /\ x.offs = g.offs
    BY <1>5 DEF OffsetRecord, g
  <2>3. QED
    BY <1>2, <2>1, <2>2
<1>6. QED
  BY <1>3, <1>4, <1>5, LogMoves

-----------------------------------------------------------------------------
(* The clients' side of DeliveryInv.                                       *)

ClientSide == WorkInv /\ GotInv /\ NetInv

\* Nothing happens on the clients' side, or requests disappear.
LEMMA SideFrame ==
    ASSUME GroupInv, DeliveryInv, MembersKept, Progress, UNCHANGED <<cl, part>>, net' \subseteq net
    PROVE  ClientSide'
  BY WorkStep, GotStep, NetStep DEF ClientSide

\* A client changes its record while it is not at work, or keeps its work.
LEMMA OwnRecord ==
    ASSUME GroupInv, DeliveryInv, MembersKept, Progress, NEW c \in Clients, NEW r,
           cl' = [cl EXCEPT ![c] = r], \A d \in Clients : d # c => part'[d] = part[d],
           r.phase = "work" => Phase(c, "work") /\ r.mid = cl[c].mid /\ part'[c] = part[c],
           r.phase \in {"sync", "offsets"} =>
               \/ DOMAIN r.got = {}
               \/ cl[c].phase \in {"sync", "offsets"} /\ r.jmid = cl[c].jmid /\ r.got = cl[c].got,
           \A q \in net' : (\E x \in net : q.mid = x.mid /\ q.offs = x.offs) \/ DOMAIN q.offs = {}
    PROVE  ClientSide'
<1>1. cl'[c] = r /\ \A d \in Clients : d # c => cl'[d] = cl[d]
  BY GroupTypes
<1>2. WorkInv'
  BY <1>1, WorkStep DEF Phase
<1>3. GotInv'
  BY <1>1, GotStep
<1>4. NetInv'
  BY NetStep
<1>5. QED
  BY <1>2, <1>3, <1>4 DEF ClientSide

\* The same when the client is busy with something else and requests stay as they are.
LEMMA OwnJoin ==
    ASSUME GroupInv, DeliveryInv, MembersKept, Progress, NEW c \in Clients, NEW r,
           cl' = [cl EXCEPT ![c] = r], UNCHANGED <<part, net>>, r.phase # "work",
           r.phase \in {"sync", "offsets"} => DOMAIN r.got = {}
    PROVE  ClientSide'
  BY OwnRecord

\* GiveUp sends at most a LEAVE, which carries no offsets.
LEMMA GiveUpSide ==
    ASSUME GroupInv, DeliveryInv, MembersKept, Progress, NEW c \in Clients, GiveUp(c), UNCHANGED part
    PROVE  ClientSide'
<1>1. /\ Gone.phase = "closed" /\ Rejoin(c).phase = "join"
      /\ \A q \in Leave(c) : DOMAIN q.offs = {}
  BY GroupTypes, ClientForms
<1>2. CASE cl[c].boot
  <2>1. cl' = [cl EXCEPT ![c] = Gone] /\ net' = net \union Leave(c)
    BY <1>2 DEF GiveUp, SetClient
  <2>2. \A q \in net' : (\E x \in net : q.mid = x.mid /\ q.offs = x.offs) \/ DOMAIN q.offs = {}
    BY <1>1, <2>1
  <2>3. QED
    BY <1>1, <2>1, <2>2, OwnRecord
<1>3. CASE ~cl[c].boot
  <2>1. cl' = [cl EXCEPT ![c] = Rejoin(c)] /\ net' = net
    BY <1>3 DEF GiveUp, SetClient
  <2>2. QED
    BY <1>1, <2>1, OwnJoin
<1>4. QED
  BY <1>2, <1>3

\* Joining, before any offset is fetched.
LEMMA JoinSide ==
    ASSUME GroupInv, DeliveryInv, MembersKept, Progress, NEW c \in Clients,
           \/ HandleJoin(c) \/ RegisterGroup(c) \/ JoinAdd(c) \/ RaftJoin(c)
           \/ RaftAssignments(c) \/ JoinRespond(c) \/ JoinLost(c)
    PROVE  ClientSide'
<1>1. UNCHANGED <<part, net>>
  BY DEF HandleJoin, RegisterGroup, JoinAdd, RaftJoin, RaftAssignments, JoinRespond, JoinLost, Quiet
<1>2. cl[c] \in ClientRecs(joins)
  BY GroupTypes
<1>3. CASE HandleJoin(c)
  <2> DEFINE ph == IF Exists THEN "add" ELSE "register"
  <2>1. cl' = [cl EXCEPT ![c] = To(c, ph)]
    BY <1>3 DEF HandleJoin, SetClient
  <2>2. ph \in Phases /\ ph \in {"add", "register"}
    BY DEF Phases
  <2> HIDE DEF ph
  <2>3. To(c, ph).phase = ph
    BY <2>2, GroupTypes, ClientForms
  <2>4. QED
    BY <1>1, <2>1, <2>2, <2>3, OwnJoin
<1>4. CASE RegisterGroup(c)
  <2>1. cl' = cl \/ cl' = [cl EXCEPT ![c] = To(c, "add")]
    BY <1>4 DEF RegisterGroup, SetClient
  <2>2. To(c, "add").phase = "add"
    BY GroupTypes, ClientForms DEF Phases
  <2>3. QED
    BY <1>1, <2>1, <2>2, OwnJoin, SideFrame
<1>5. CASE JoinAdd(c) \/ RaftJoin(c)
  <2> DEFINE m == <<c, joins + 1>>
             t == To(c, "answer")
  <2>1. t \in ClientRecs(joins) /\ t.phase = "answer"
    BY GroupTypes, ClientForms DEF Phases
  <2>2. \E a : cl' = [cl EXCEPT ![c] = [t EXCEPT !.jmid = m, !.asg = a]]
    BY <1>5 DEF JoinAdd, RaftJoin, SetClient
  <2>3. PICK a : cl' = [cl EXCEPT ![c] = [t EXCEPT !.jmid = m, !.asg = a]]
    BY <2>2
  <2> DEFINE r == [t EXCEPT !.jmid = m, !.asg = a]
  <2> HIDE DEF t, m
  <2>4. r.phase = "answer"
    BY <2>1 DEF ClientRecs
  <2>5. cl' = [cl EXCEPT ![c] = r]
    BY <2>3
  <2> HIDE DEF r
  <2>6. QED
    BY <1>1, <2>4, <2>5, OwnJoin
<1>6. CASE RaftAssignments(c)
  <2> DEFINE r == [cl[c] EXCEPT !.asg = group.members[cl[c].jmid]]
  <2>1. cl' = [cl EXCEPT ![c] = r] /\ cl[c].phase = "answer"
    BY <1>6 DEF RaftAssignments, SetClient, Phase
  <2>2. r.phase = "answer"
    BY <1>2, <2>1 DEF ClientRecs
  <2> HIDE DEF r
  <2>3. QED
    BY <1>1, <2>1, <2>2, OwnJoin
<1>7. CASE JoinRespond(c)
  <2> DEFINE r == Joined(c, group.gen, cl[c].jmid, cl[c].asg)
  <2>1. cl' = [cl EXCEPT ![c] = r]
    BY <1>7 DEF JoinRespond, SetClient
  <2>2. cl[c].jmid \in KnownIds(joins) /\ cl[c].asg \in SUBSET Partitions
    BY <1>2 DEF ClientRecs
  <2>3. r.phase \in {"sync", "offsets"} /\ r.got = << >>
    BY <2>2, GroupTypes, ClientForms
  <2> HIDE DEF r
  <2>4. r.phase # "work" /\ DOMAIN r.got = {}
    BY <2>3
  <2>5. QED
    BY <1>1, <2>1, <2>4, OwnJoin
<1>8. CASE JoinLost(c)
  <2>1. cl' = [cl EXCEPT ![c] = Rejoin(c)]
    BY <1>8 DEF JoinLost, SetClient
  <2>2. Rejoin(c).phase = "join"
    BY GroupTypes, ClientForms
  <2>3. QED
    BY <1>1, <2>1, <2>2, OwnJoin
<1>9. QED
  BY <1>3, <1>4, <1>5, <1>6, <1>7, <1>8

\* Resuming starts without offsets; SYNC_GROUP changes none.
LEMMA SyncSide ==
    ASSUME GroupInv, DeliveryInv, MembersKept, Progress, NEW c \in Clients, HandleResume(c) \/ SyncGroup(c)
    PROVE  ClientSide'
<1>1. cl[c] \in ClientRecs(joins) /\ cl[c].mid \in KnownIds(joins)
  BY GroupTypes DEF ClientRecs
<1>2. CASE HandleResume(c)
  <2> DEFINE m == cl[c].mid
             g == group.gen
             j == Joined(c, g, m, group.members[m])
             r1 == [j EXCEPT !.gen = g, !.mid = m]
             r2 == [cl[c] EXCEPT !.mid = NoMember, !.gen = 0]
  <2>1. /\ cl[c].phase = "join" /\ UNCHANGED <<part, net>>
        /\ \/ m \in DOMAIN group.members /\ cl' = [cl EXCEPT ![c] = r1]
           \/ cl' = [cl EXCEPT ![c] = r2]
    BY <1>2, Validated DEF HandleResume, SetClient, Phase, Quiet
  <2>2. ASSUME m \in DOMAIN group.members
        PROVE  j \in ClientRecs(joins) /\ j.phase \in {"sync", "offsets"} /\ j.got = << >>
    BY <1>1, <2>2, GroupTypes, ClientForms
  <2> HIDE DEF j, m, g
  <2>3. ASSUME m \in DOMAIN group.members PROVE r1.phase \in {"sync", "offsets"} /\ r1.got = << >>
    BY <2>2, <2>3 DEF ClientRecs
  <2>4. r2.phase = "join"
    BY <1>1, <2>1 DEF ClientRecs
  <2> HIDE DEF r1, r2
  <2>5. QED
    BY <2>1, <2>3, <2>4, OwnJoin
<1>3. CASE SyncGroup(c)
  <2> DEFINE m == cl[c].jmid
             a == group.members[m]
             t == To(c, "offsets")
             n == cl[c].jgen
             r == [t EXCEPT !.asg = a, !.gen = n, !.mid = m]
  <2>1. /\ cl[c].phase = "sync" /\ UNCHANGED part
        /\ (cl' = [cl EXCEPT ![c] = r] /\ net' = net) \/ GiveUp(c)
    BY <1>3 DEF SyncGroup, SetClient, Phase
  <2>2. t \in ClientRecs(joins) /\ t.phase = "offsets" /\ t.jmid = cl[c].jmid /\ t.got = cl[c].got
    BY GroupTypes, ClientForms DEF Phases
  <2> HIDE DEF m, a, t, n
  <2>3. r.phase = t.phase /\ r.jmid = t.jmid /\ r.got = t.got
    BY <2>2 DEF ClientRecs
  <2> HIDE DEF r
  <2>4. CASE cl' = [cl EXCEPT ![c] = r] /\ net' = net
    <3>1. r.phase = "offsets" /\ r.jmid = cl[c].jmid /\ r.got = cl[c].got /\ cl[c].phase \in {"sync", "offsets"}
      BY <2>1, <2>2, <2>3
    <3>2. \A q \in net' : (\E x \in net : q.mid = x.mid /\ q.offs = x.offs) \/ DOMAIN q.offs = {}
      BY <2>4
    <3>3. QED
      BY <2>1, <2>4, <3>1, <3>2, OwnRecord
  <2>5. QED
    BY <2>1, <2>4, GiveUpSide
<1>4. QED
  BY <1>2, <1>3

\* FETCH_OFFSET answers the group's offset, behind which everything has been handled.
LEMMA FetchSide ==
    ASSUME GroupInv, DeliveryInv, MembersKept, Progress, NEW c \in Clients, FetchOffset(c)
    PROVE  ClientSide'
<1>1. PICK p \in cl[c].asg \ DOMAIN cl[c].got :
          \/ /\ cl' = [cl EXCEPT ![c] = [cl[c] EXCEPT !.got = [q \in DOMAIN cl[c].got \union {p} |->
                                   IF q = p THEN Max({group.offs[p], 0}) ELSE cl[c].got[q]]]]
             /\ net' = net
          \/ GiveUp(c)
  BY DEF FetchOffset, SetClient
<1>2. cl[c].phase = "offsets" /\ UNCHANGED <<part, group, handled, start>>
  BY DEF FetchOffset, Phase, NoCoord, coordVars, Workload
<1>3. /\ cl[c] \in ClientRecs(joins) /\ p \in Partitions /\ group.offs[p] \in Int
      /\ start \in [Partitions -> Nat]
  BY GroupTypes DEF ClientRecs, Offsets
<1> DEFINE x == Max({group.offs[p], 0})
           f == [q \in DOMAIN cl[c].got \union {p} |-> IF q = p THEN x ELSE cl[c].got[q]]
           r == [cl[c] EXCEPT !.got = f]
<1>4. SeenBelow(handled, start, group.epoch, p, x)
  <2>1. SeenBelow(handled, start, group.epoch, p, group.offs[p]) /\ SeenBelow(handled, start, group.epoch, p, 0)
    BY <1>3, NothingBelow DEF DeliveryInv, OffsetsSeen
  <2>2. x \in {group.offs[p], 0}
    BY <1>3, MaxOfTwo
  <2>3. QED
    BY <2>1, <2>2
<1> HIDE DEF x
<1>5. CASE cl' = [cl EXCEPT ![c] = r] /\ net' = net
  <2>1. /\ DOMAIN f = DOMAIN cl[c].got \union {p} /\ f[p] = x
        /\ \A q \in DOMAIN cl[c].got : f[q] = cl[c].got[q]
    BY <1>1
  <2> HIDE DEF f
  <2>2. r.phase = "offsets" /\ r.jmid = cl[c].jmid /\ r.got = f
    BY <1>2, <1>3 DEF ClientRecs
  <2> HIDE DEF r
  <2>3. cl'[c] = r /\ \A d \in Clients : d # c => cl'[d] = cl[d]
    BY <1>5, GroupTypes
  <2>4. WorkInv'
    BY <1>2, <2>2, <2>3, WorkStep
  <2>5. r.jmid \in DOMAIN group.members =>
          \A q \in DOMAIN r.got : SeenBelow(handled, start, group.epoch, q, r.got[q])
    BY <1>2, <1>4, <2>1, <2>2 DEF DeliveryInv, GotInv
  <2>6. GotInv'
    BY <1>2, <2>3, <2>5, GotStep
  <2>7. NetInv'
    BY <1>5, NetStep
  <2>8. QED
    BY <2>4, <2>6, <2>7 DEF ClientSide
<1>6. CASE GiveUp(c)
  BY <1>2, <1>6, GiveUpSide
<1>7. QED
  BY <1>1, <1>5, <1>6 DEF x

\* The partition consumers start at the fetched offsets.
LEMMA ReadySide ==
    ASSUME GroupInv, DeliveryInv, MembersKept, Progress, NEW c \in Clients, AssignmentReady(c)
    PROVE  ClientSide'
<1> DEFINE t == To(c, "work")
           g == cl[c].jgen
           m == cl[c].jmid
           r == [t EXCEPT !.gen = g, !.mid = m, !.jmid = NoMember, !.jgen = 0, !.got = << >>,
                          !.boot = FALSE, !.beats = TRUE]
           from(p) == [NoPart EXCEPT !.fetch = cl[c].got[p], !.offs = cl[c].got[p]]
           new == [p \in Partitions |-> IF p \in cl[c].asg THEN from(p) ELSE NoPart]
<1>1. /\ cl[c].phase = "offsets" /\ cl' = [cl EXCEPT ![c] = r] /\ part' = [part EXCEPT ![c] = new]
      /\ DOMAIN cl[c].got = cl[c].asg
  BY DEF AssignmentReady, SetClient, Phase
<1>2. net' = net /\ UNCHANGED <<group, handled, start>>
  <2>1. Quiet /\ NoCoord
    BY Zenon DEF AssignmentReady
  <2>2. QED
    BY <2>1 DEF Quiet, NoCoord, coordVars
<1>3. t \in ClientRecs(joins) /\ t.phase = "work"
  BY GroupTypes, ClientForms DEF Phases
<1>4. cl[c] \in ClientRecs(joins) /\ cl[c].got \in PartialOffsets /\ start \in [Partitions -> Nat]
  BY GroupTypes DEF ClientRecs
<1>5. ASSUME NEW p \in Partitions, NEW x \in Int, SeenBelow(handled, start, group.epoch, p, x), NEW k \in PartRecs,
             k.fetch = x, k.offs = x, k.conn = Closed, k.queue = << >>, k.commit = 0, k.retry = 0, k.dead = FALSE
      PROVE  PartInv(handled, start, group.epoch, p, k)
  <2>1. SeenBelow(handled, start, group.epoch, p, 0) /\ SeenBelow(handled, start, group.epoch, p, Closed)
    BY <1>4, NothingBelow DEF Closed
  <2>2. Len(k.queue) = 0
    BY <1>5
  <2>3. /\ PendingBelow(handled, start, group.epoch, p, k.queue, 0, x)
        /\ PendingBelow(handled, start, group.epoch, p, k.queue, 0, Closed)
    BY <1>5, <2>1, SeenIsPending
  <2>4. QED
    BY <1>5, <2>1, <2>2, <2>3 DEF PartInv
<1>6. ASSUME NEW p \in Partitions, m \in DOMAIN group.members
      PROVE  PartInv(handled, start, group.epoch, p, new[p])
  <2>1. /\ NoPart \in PartRecs /\ NoPart.fetch = 0 /\ NoPart.offs = 0 /\ NoPart.conn = Closed /\ NoPart.queue = << >>
        /\ NoPart.commit = 0 /\ NoPart.retry = 0 /\ NoPart.dead = FALSE
    BY NoPartType DEF NoPart
  <2>2. CASE p \in cl[c].asg
    <3> DEFINE x == cl[c].got[p]
    <3>1. x \in Int
      BY <1>1, <1>4, <2>2 DEF PartialOffsets
    <3>2. SeenBelow(handled, start, group.epoch, p, x)
      BY <1>1, <1>6, <2>2 DEF DeliveryInv, GotInv
    <3> HIDE DEF x
    <3> DEFINE k == [NoPart EXCEPT !.fetch = x, !.offs = x]
    <3>3. new[p] = k
      BY <2>2 DEF x
    <3>4. k \in PartRecs
      BY <2>1, <3>1 DEF PartRecs
    <3>5. /\ k.fetch = x /\ k.offs = x /\ k.conn = NoPart.conn /\ k.queue = NoPart.queue
          /\ k.commit = NoPart.commit /\ k.retry = NoPart.retry /\ k.dead = NoPart.dead
      BY <2>1 DEF PartRecs
    <3> HIDE DEF k, new
    <3>6. QED
      BY <1>5, <2>1, <3>1, <3>2, <3>3, <3>4, <3>5
  <2>3. CASE p \notin cl[c].asg
    <3>1. SeenBelow(handled, start, group.epoch, p, 0)
      BY <1>4, NothingBelow
    <3>2. new[p] = NoPart
      BY <2>3
    <3> HIDE DEF new
    <3>3. 0 \in Int /\ \A x \in Int : x = 0 => SeenBelow(handled, start, group.epoch, p, x)
      BY <3>1
    <3>4. PartInv(handled, start, group.epoch, p, NoPart)
      BY <1>5, <2>1, <3>3
    <3>5. QED
      BY <3>2, <3>4
  <2>4. QED
    BY <2>2, <2>3
<1> HIDE DEF t, g, m, new
<1>7. r.phase = t.phase /\ r.mid = m
  BY <1>3 DEF ClientRecs
<1> HIDE DEF r
<1>8. /\ cl'[c] = r /\ \A d \in Clients : d # c => cl'[d] = cl[d]
      /\ part'[c] = new /\ \A d \in Clients : d # c => part'[d] = part[d]
  BY <1>1, GroupTypes
<1>9. WorkInv'
  <2>1. \A d \in Clients, p \in Partitions :
               cl'[d].phase = "work" /\ cl'[d].mid \in DOMAIN group'.members
                 => \/ cl[d].phase = "work" /\ cl'[d].mid = cl[d].mid /\ part'[d][p] = part[d][p]
                    \/ PartInv(handled', start', group'.epoch, p, part'[d][p])
    BY <1>2, <1>6, <1>7, <1>8
  <2>2. QED
    BY <2>1, WorkStep
<1>10. GotInv'
  BY <1>3, <1>7, <1>8, GotStep
<1>11. NetInv'
  BY <1>2, NetStep
<1>12. QED
  BY <1>9, <1>10, <1>11 DEF ClientSide

-----------------------------------------------------------------------------
(* Reading, handling, committing.                                          *)

\* A partition consumer of a member changes its record and has earned it; nobody else changes.
LEMMA OwnPart ==
    ASSUME GroupInv, DeliveryInv, MembersKept, Progress, NEW c \in Clients, NEW p \in Partitions, NEW k,
           SetPart(c, p, k), net' \subseteq net,
           \A d \in Clients : /\ cl'[d].phase = cl[d].phase /\ cl'[d].mid = cl[d].mid
                              /\ cl'[d].jmid = cl[d].jmid /\ cl'[d].got = cl[d].got,
           cl[c].phase = "work" /\ cl[c].mid \in DOMAIN group'.members
               => PartInv(handled', start', group'.epoch, p, k)
    PROVE  ClientSide'
<1>1. /\ part'[c][p] = k /\ \A q \in Partitions : q # p => part'[c][q] = part[c][q]
      /\ \A d \in Clients : d # c => part'[d] = part[d]
  BY GroupTypes DEF SetPart
<1>2. WorkInv'
  <2>1. \A d \in Clients, q \in Partitions :
               cl'[d].phase = "work" /\ cl'[d].mid \in DOMAIN group'.members
                 => \/ cl[d].phase = "work" /\ cl'[d].mid = cl[d].mid /\ part'[d][q] = part[d][q]
                    \/ PartInv(handled', start', group'.epoch, q, part'[d][q])
    BY <1>1
  <2>2. QED
    BY <2>1, WorkStep
<1>3. GotInv'
  BY GotStep
<1>4. NetInv'
  BY NetStep
<1>5. QED
  BY <1>2, <1>3, <1>4 DEF ClientSide

\* The group of a member exists, so its batches carry its epoch.
LEMMA MemberEpoch ==
    ASSUME GroupInv, NEW m, m \in DOMAIN group.members
    PROVE  group.epoch = groupEpoch
  BY DEF GroupInv, CoordInv, MemberInv, Exists

\* Wherever a read starts, what lies before has been handled or waits in the queue.
LEMMA ReadFrom ==
    ASSUME GroupInv, DeliveryInv, NEW c \in Clients, NEW p \in Partitions,
           Phase(c, "work"), cl[c].mid \in DOMAIN group.members
    PROVE  LET r == part[c][p]
           IN  /\ PartInv(handled, start, group.epoch, p, r)
               /\ SeenBelow(handled, start, group.epoch, p, ResolveOffset(p, r.offs))
               /\ ~r.dead => PendingBelow(handled, start, group.epoch, p, r.queue, Len(r.queue), Position(c, p))
<1> DEFINE r == part[c][p]
<1>1. PartInv(handled, start, group.epoch, p, r)
  BY DEF DeliveryInv, WorkInv
<1>2. SeenBelow(handled, start, group.epoch, p, group.offs[p]) /\ SeenBelow(handled, start, group.epoch, p, r.offs)
  BY <1>1 DEF DeliveryInv, OffsetsSeen, PartInv
<1>3. SeenBelow(handled, start, group.epoch, p, ResolveOffset(p, r.offs))
  BY <1>2 DEF ResolveOffset
<1>4. ASSUME ~r.dead
      PROVE  PendingBelow(handled, start, group.epoch, p, r.queue, Len(r.queue), Position(c, p))
  <2>1. /\ PendingBelow(handled, start, group.epoch, p, r.queue, Len(r.queue), group.offs[p])
        /\ PendingBelow(handled, start, group.epoch, p, r.queue, Len(r.queue), r.offs)
    BY <1>2, SeenIsPending
  <2>2. /\ PendingBelow(handled, start, group.epoch, p, r.queue, Len(r.queue), r.fetch)
        /\ PendingBelow(handled, start, group.epoch, p, r.queue, Len(r.queue), r.conn)
    BY <1>1, <1>4 DEF PartInv
  <2>3. Position(c, p) \in {r.conn, group.offs[p], r.offs, r.fetch}
    BY DEF Position, ResolveOffset
  <2>4. QED
    BY <2>1, <2>2, <2>3
<1>5. QED
  BY <1>1, <1>3, <1>4

\* CONSUME, the stream's next batch, OFFSET_OUT_OF_RANGE and a broken connection.
LEMMA ReadSide ==
    ASSUME GroupInv, DeliveryInv, MembersKept, Progress, NEW c \in Clients, NEW p \in Partitions,
           Read(c, p) \/ OutOfRange(c, p) \/ ConnDrop(c, p)
    PROVE  ClientSide'
<1> DEFINE r == part[c][p]
<1>1. UNCHANGED <<cl, net, group, handled, start>>
  <2>1. Quiet /\ NoCoord /\ UNCHANGED cl
    BY Zenon DEF Read, OutOfRange, ConnDrop
  <2>2. QED
    BY <2>1 DEF Quiet, NoCoord, coordVars
<1>2. /\ r \in PartRecs /\ Position(c, p) \in Int /\ start[p] \in Int /\ groupEpoch \in Nat
      /\ start \in [Partitions -> Nat]
  BY ReadTypes, GroupTypes
<1>3. ASSUME NEW k, SetPart(c, p, k),
             Phase(c, "work") /\ cl[c].mid \in DOMAIN group.members
                 => PartInv(handled, start, group.epoch, p, k)
      PROVE  ClientSide'
  BY <1>1, <1>3, OwnPart DEF Phase
<1>4. CASE Read(c, p)
  <2>1. PICK to \in Ends(p, Position(c, p)) : SetPart(c, p, Delivered(part[c][p], Position(c, p), to))
    BY <1>4 DEF Read
  <2>2. to \in Int
    BY <1>2, ReadTypes
  <2>3. ASSUME Phase(c, "work"), cl[c].mid \in DOMAIN group.members
        PROVE  PartInv(handled, start, group.epoch, p, Delivered(r, Position(c, p), to))
    <3>1. group.epoch = groupEpoch
      BY <2>3, MemberEpoch
    <3>2. /\ PartInv(handled, start, groupEpoch, p, r)
          /\ ~r.dead => PendingBelow(handled, start, groupEpoch, p, r.queue, Len(r.queue), Position(c, p))
      BY <2>3, <3>1, ReadFrom
    <3>3. QED
      BY <1>2, <2>2, <3>1, <3>2, DeliveredPart
  <2>4. QED
    BY <1>3, <2>1, <2>3
<1>5. CASE OutOfRange(c, p)
  <2> DEFINE s == start[p]
             k == [r EXCEPT !.fetch = s, !.offs = s, !.conn = Closed]
  <2>1. SetPart(c, p, k)
    BY <1>5 DEF OutOfRange
  <2>2. /\ k.queue = r.queue /\ k.commit = r.commit /\ k.retry = r.retry /\ k.dead = r.dead
        /\ k.fetch = s /\ k.offs = s /\ k.conn = Closed
    BY <1>2 DEF PartRecs
  <2> HIDE DEF k
  <2>3. ASSUME Phase(c, "work"), cl[c].mid \in DOMAIN group.members
        PROVE  PartInv(handled, start, group.epoch, p, k)
    <3>1. PartInv(handled, start, group.epoch, p, r)
      BY <2>3, ReadFrom
    <3>2. SeenBelow(handled, start, group.epoch, p, s) /\ SeenBelow(handled, start, group.epoch, p, Closed)
      BY <1>2, NothingBelow DEF Closed
    <3>3. /\ PendingBelow(handled, start, group.epoch, p, r.queue, Len(r.queue), s)
          /\ PendingBelow(handled, start, group.epoch, p, r.queue, Len(r.queue), Closed)
      BY <3>2, SeenIsPending
    <3>4. QED
      BY <2>2, <3>1, <3>2, <3>3 DEF PartInv
  <2>4. QED
    BY <1>3, <2>1, <2>3
<1>6. CASE ConnDrop(c, p)
  <2> DEFINE k == [r EXCEPT !.conn = Closed]
  <2>1. SetPart(c, p, k)
    BY <1>6 DEF ConnDrop
  <2>2. k \in PartRecs
    BY <1>2, ClosedForms
  <2>3. /\ k.queue = r.queue /\ k.commit = r.commit /\ k.retry = r.retry /\ k.dead = r.dead
        /\ k.fetch = r.fetch /\ k.offs = r.offs /\ k.conn = Closed
    BY <1>2 DEF PartRecs
  <2> HIDE DEF k
  <2>4. ASSUME Phase(c, "work"), cl[c].mid \in DOMAIN group.members
        PROVE  PartInv(handled, start, group.epoch, p, k)
    <3>1. PartInv(handled, start, group.epoch, p, r)
      BY <2>4, ReadFrom
    <3>2. SeenBelow(handled, start, group.epoch, p, k.retry)
      BY <2>3, <3>1 DEF PartInv
    <3>3. QED
      BY <1>2, <2>2, <2>3, <3>1, <3>2, ClosedPart
  <2>5. QED
    BY <1>3, <2>1, <2>4
<1>7. QED
  BY <1>4, <1>5, <1>6

\* A stream opens where the group or the client has committed; the others lose the connection.
LEMMA StreamSide ==
    ASSUME GroupInv, DeliveryInv, MembersKept, Progress, NEW c \in Clients, NEW p \in Partitions,
           StreamOpen(c, p)
    PROVE  ClientSide'
<1> DEFINE from == ResolveOffset(p, part[c][p].offs)
<1>1. PICK to \in Ends(p, from) :
          part' = [d \in Clients |-> [part[d] EXCEPT ![p] =
                     IF d = c THEN Delivered(part[d][p], from, to)
                              ELSE [part[d][p] EXCEPT !.conn = Closed]]]
  BY DEF StreamOpen
<1>2. UNCHANGED <<cl, net, group, handled, start>>
  <2>1. Quiet /\ NoCoord /\ UNCHANGED cl
    BY Zenon DEF StreamOpen
  <2>2. QED
    BY <2>1 DEF Quiet, NoCoord, coordVars
<1>3. from \in Int /\ to \in Int /\ groupEpoch \in Nat /\ start \in [Partitions -> Nat]
  BY ReadTypes, GroupTypes DEF PartRecs
<1>4. \A d \in Clients : \A q \in Partitions : part[d][q] \in PartRecs
  BY GroupTypes
<1>5. /\ part'[c][p] = Delivered(part[c][p], from, to)
      /\ \A d \in Clients : d # c => part'[d][p] = [part[d][p] EXCEPT !.conn = Closed]
      /\ \A d \in Clients : \A q \in Partitions : q # p => part'[d][q] = part[d][q]
  BY <1>1, GroupTypes
<1> HIDE DEF from
<1>6. ASSUME Phase(c, "work"), cl[c].mid \in DOMAIN group.members
      PROVE  PartInv(handled, start, group.epoch, p, part'[c][p])
  <2> DEFINE r == part[c][p]
  <2>1. group.epoch = groupEpoch
    BY <1>6, MemberEpoch
  <2>2. /\ PartInv(handled, start, groupEpoch, p, r)
        /\ SeenBelow(handled, start, groupEpoch, p, from)
    BY <1>6, <2>1, ReadFrom DEF from
  <2>3. PendingBelow(handled, start, groupEpoch, p, r.queue, Len(r.queue), from)
    BY <2>2, SeenIsPending
  <2>4. QED
    BY <1>3, <1>4, <1>5, <2>1, <2>2, <2>3, DeliveredPart
<1>7. ASSUME NEW d \in Clients, d # c, Phase(d, "work"), cl[d].mid \in DOMAIN group.members
      PROVE  PartInv(handled, start, group.epoch, p, part'[d][p])
  <2> DEFINE r == part[d][p]
             k == [r EXCEPT !.conn = Closed]
  <2>1. r \in PartRecs
    BY <1>4
  <2>2. k \in PartRecs
    BY <2>1, ClosedForms
  <2>3. /\ k.queue = r.queue /\ k.commit = r.commit /\ k.retry = r.retry /\ k.dead = r.dead
        /\ k.fetch = r.fetch /\ k.offs = r.offs /\ k.conn = Closed
    BY <2>1 DEF PartRecs
  <2>4. part'[d][p] = k
    BY <1>5, <1>7
  <2> HIDE DEF k
  <2>5. PartInv(handled, start, group.epoch, p, r)
    BY <1>7, ReadFrom
  <2>6. SeenBelow(handled, start, group.epoch, p, k.retry)
    BY <2>3, <2>5 DEF PartInv
  <2>7. QED
    BY <1>3, <2>1, <2>2, <2>3, <2>4, <2>5, <2>6, ClosedPart
<1>8. WorkInv'
  <2>1. \A d \in Clients, q \in Partitions :
               cl'[d].phase = "work" /\ cl'[d].mid \in DOMAIN group'.members
                 => \/ cl[d].phase = "work" /\ cl'[d].mid = cl[d].mid /\ part'[d][q] = part[d][q]
                    \/ PartInv(handled', start', group'.epoch, q, part'[d][q])
    BY <1>2, <1>5, <1>6, <1>7 DEF Phase
  <2>2. QED
    BY <2>1, WorkStep
<1>9. GotInv' /\ NetInv'
  BY <1>2, GotStep, NetStep
<1>10. QED
  BY <1>8, <1>9 DEF ClientSide

\* The handler sees a batch, or fails on it.
LEMMA HandleSide ==
    ASSUME GroupInv, DeliveryInv, MembersKept, Progress, NEW c \in Clients, NEW p \in Partitions,
           Handle(c, p) \/ HandlerFails(c, p)
    PROVE  ClientSide'
<1> DEFINE r == part[c][p]
           q == r.queue
<1>1. r \in PartRecs /\ q \in Seq(BatchRecs) /\ r.offs \in Int /\ start \in [Partitions -> Nat]
  BY ReadTypes, GroupTypes DEF PartRecs
<1>2. q # << >> /\ ~r.dead /\ UNCHANGED <<net, group, start>>
  <2>1. CASE Handle(c, p)
    <3>1. NoCoord /\ UNCHANGED <<net, start>> /\ Busy(c, p)
      BY <2>1, Zenon DEF Handle, HandleBatch
    <3>2. QED
      BY <3>1 DEF NoCoord, coordVars, Busy
  <2>2. CASE HandlerFails(c, p)
    <3>1. NoCoord /\ Quiet /\ Busy(c, p)
      BY <2>2, Zenon DEF HandlerFails
    <3>2. QED
      BY <3>1 DEF NoCoord, coordVars, Quiet, Busy
  <2>3. QED
    BY <2>1, <2>2
<1>3. ASSUME Phase(c, "work"), cl[c].mid \in DOMAIN group.members
      PROVE  PartInv(handled, start, group.epoch, p, r)
  BY <1>3, ReadFrom
<1>4. CASE Handle(c, p)
  <2> DEFINE b == Head(q)
             to == b.to
             s == Tail(q)
             k == [r EXCEPT !.queue = s, !.commit = to]
  <2>1. /\ SetPart(c, p, k) /\ UNCHANGED cl
        /\ handled' = handled \union {<<b.inc, p, o>> : o \in b.from .. b.to - 1}
    BY <1>4 DEF Handle, HandleBatch
  <2>2. to \in Int /\ s \in Seq(BatchRecs) /\ s = Tail(r.queue) /\ to = Head(r.queue).to
    BY <1>1, <1>2, QueueForms DEF BatchRecs
  <2> HIDE DEF s, to
  <2>3. k \in PartRecs
    BY <1>1, <2>2 DEF PartRecs
  <2>4. /\ k.conn = r.conn /\ k.fetch = r.fetch /\ k.offs = r.offs /\ k.retry = r.retry /\ k.dead = r.dead
        /\ k.queue = s /\ k.commit = to
    BY <1>1 DEF PartRecs
  <2>5. SetPart(c, p, k)
    BY <2>1 DEF s, to
  <2> HIDE DEF k
  <2>6. ASSUME Phase(c, "work"), cl[c].mid \in DOMAIN group.members
        PROVE  PartInv(handled', start, group.epoch, p, k)
    <3>1. PartInv(handled, start, group.epoch, p, r)
      BY <1>3, <2>6
    <3>2. k.queue = Tail(r.queue) /\ k.commit = Head(r.queue).to /\ r.queue # << >>
      BY <1>2, <2>2, <2>4
    <3>3. handled \subseteq handled' /\ \A o \in Nat : b.from <= o /\ o < b.to => <<b.inc, p, o>> \in handled'
      <4>1. b.from \in Int /\ b.to \in Int
        BY <1>1, <1>2, QueueForms DEF BatchRecs
      <4> HIDE DEF b
      <4>2. QED
        BY <2>1, <4>1
    <3>4. QED
      BY <1>1, <1>2, <2>3, <2>4, <3>1, <3>2, <3>3, HandledPart
  <2>7. QED
    BY <1>2, <2>1, <2>5, <2>6, OwnPart DEF Phase
<1>5. CASE HandlerFails(c, p)
  <2> DEFINE o == r.offs
             s == Tail(q)
             k == [r EXCEPT !.queue = s, !.dead = TRUE, !.fetch = o, !.conn = Closed]
             l == [cl[c] EXCEPT !.sig = TRUE]
  <2>1. SetPart(c, p, k) /\ cl' = [cl EXCEPT ![c] = l]
    BY <1>5 DEF HandlerFails, SetClient
  <2>2. handled' = handled
    <3>1. Quiet
      BY <1>5, Zenon DEF HandlerFails
    <3>2. QED
      BY <3>1 DEF Quiet
  <2> HIDE DEF s, o
  <2>3. k.offs = r.offs /\ k.commit = r.commit /\ k.retry = r.retry /\ k.dead = TRUE
    BY <1>1 DEF PartRecs
  <2> HIDE DEF k
  <2>4. cl[c] \in ClientRecs(joins)
    BY GroupTypes
  <2>5. l.phase = cl[c].phase /\ l.mid = cl[c].mid /\ l.jmid = cl[c].jmid /\ l.got = cl[c].got
    BY <2>4 DEF ClientRecs
  <2> HIDE DEF l
  <2>6. \A d \in Clients : /\ cl'[d].phase = cl[d].phase /\ cl'[d].mid = cl[d].mid
                           /\ cl'[d].jmid = cl[d].jmid /\ cl'[d].got = cl[d].got
    BY <2>1, <2>5, GroupTypes
  <2>7. ASSUME Phase(c, "work"), cl[c].mid \in DOMAIN group.members
        PROVE  PartInv(handled, start, group.epoch, p, k)
    BY <1>3, <2>3, <2>7 DEF PartInv
  <2>8. QED
    BY <1>2, <2>1, <2>2, <2>6, <2>7, OwnPart DEF Phase
<1>6. QED
  BY <1>4, <1>5

\* No coordinator answers: the position is kept for later.
LEMMA UnreachableSide ==
    ASSUME GroupInv, DeliveryInv, MembersKept, Progress, NEW c \in Clients, NEW p \in Partitions,
           CommitUnreachable(c, p)
    PROVE  ClientSide'
<1> DEFINE r == part[c][p]
           x == Max({r.retry, r.commit})
           k == [r EXCEPT !.retry = x, !.commit = 0]
<1>1. SetPart(c, p, k)
  BY DEF CommitUnreachable
<1>2. UNCHANGED <<cl, net, group, handled, start>>
  <2>1. Quiet /\ NoCoord /\ UNCHANGED cl
    BY Zenon DEF CommitUnreachable
  <2>2. QED
    BY <2>1 DEF Quiet, NoCoord, coordVars
<1>3. r \in PartRecs /\ r.retry \in Int /\ r.commit \in Int /\ start \in [Partitions -> Nat]
  BY ReadTypes, GroupTypes DEF PartRecs
<1>4. x \in {r.retry, r.commit}
  BY <1>3, MaxOfTwo
<1> HIDE DEF x
<1>5. /\ k.conn = r.conn /\ k.fetch = r.fetch /\ k.queue = r.queue /\ k.dead = r.dead /\ k.offs = r.offs
      /\ k.retry = x /\ k.commit = 0
  BY <1>3 DEF PartRecs
<1> HIDE DEF k
<1>6. ASSUME Phase(c, "work"), cl[c].mid \in DOMAIN group.members
      PROVE  PartInv(handled, start, group.epoch, p, k)
  <2>1. PartInv(handled, start, group.epoch, p, r)
    BY <1>6, ReadFrom
  <2>2. SeenBelow(handled, start, group.epoch, p, 0)
    BY <1>3, NothingBelow
  <2>3. /\ SeenBelow(handled, start, group.epoch, p, k.offs) /\ SeenBelow(handled, start, group.epoch, p, k.commit)
        /\ SeenBelow(handled, start, group.epoch, p, k.retry)
    BY <1>4, <1>5, <2>1, <2>2 DEF PartInv
  <2>4. QED
    BY <1>5, <2>1, <2>3, CommittedPart
<1>7. QED
  BY <1>1, <1>2, <1>6, OwnPart DEF Phase

\* A request carries what its client has handled.
LEMMA SendSide ==
    ASSUME GroupInv, DeliveryInv, MembersKept, Progress, NEW c \in Clients,
           ProcessRetryQueue(c) \/ \E p \in Partitions : SendBatchCommit(c, p)
    PROVE  ClientSide'
<1>1. start \in [Partitions -> Nat] /\ \A q \in Partitions : part[c][q] \in PartRecs
  BY GroupTypes
<1>2. ASSUME cl[c].mid \in DOMAIN group.members, Phase(c, "work")
      PROVE  \A q \in Partitions : PartInv(handled, start, group.epoch, q, part[c][q])
  BY <1>2 DEF DeliveryInv, WorkInv
<1>3. ASSUME NEW p \in Partitions, SendBatchCommit(c, p) PROVE ClientSide'
  <2> DEFINE offs == [q \in {p} |-> part[c][p].commit]
             new == Request(c, "batch", offs)
  <2>1. /\ Phase(c, "work") /\ net' = net \union {new} /\ UNCHANGED <<cl, part, group, handled, start>>
    BY <1>3 DEF SendBatchCommit, NoCoord, coordVars, Workload
  <2>2. new.mid = cl[c].mid /\ new.offs = offs
    BY DEF Request
  <2> HIDE DEF new
  <2>3. new.mid \in DOMAIN group.members =>
          \A q \in DOMAIN new.offs : SeenBelow(handled, start, group.epoch, q, new.offs[q])
    BY <1>2, <2>1, <2>2 DEF PartInv
  <2>4. NetInv'
    BY <2>1, <2>3, NetStep
  <2>5. WorkInv' /\ GotInv'
    BY <2>1, WorkStep, GotStep
  <2>6. QED
    BY <2>4, <2>5 DEF ClientSide
<1>4. CASE ProcessRetryQueue(c)
  <2> DEFINE P == {p \in Partitions : part[c][p].retry # 0}
             offs == [p \in P |-> part[c][p].retry]
             new == Request(c, "retry", offs)
             k(p) == [part[c][p] EXCEPT !.retry = 0]
  <2>1. /\ Phase(c, "work") /\ net' = net \union {new} /\ UNCHANGED <<cl, group, handled, start>>
        /\ part' = [part EXCEPT ![c] = [p \in Partitions |-> k(p)]]
    BY <1>4 DEF ProcessRetryQueue, NoCoord, coordVars, Workload
  <2>2. new.mid = cl[c].mid /\ new.offs = offs
    BY DEF Request
  <2> HIDE DEF new
  <2>3. new.mid \in DOMAIN group.members =>
          \A q \in DOMAIN new.offs : SeenBelow(handled, start, group.epoch, q, new.offs[q])
    BY <1>2, <2>1, <2>2 DEF PartInv
  <2>4. NetInv'
    BY <2>1, <2>3, NetStep
  <2>5. /\ \A p \in Partitions : part'[c][p] = k(p)
        /\ \A d \in Clients : d # c => part'[d] = part[d]
    BY <2>1, GroupTypes
  <2>6. ASSUME NEW p \in Partitions, cl[c].mid \in DOMAIN group.members
        PROVE  PartInv(handled, start, group.epoch, p, part'[c][p])
    <3> DEFINE r == part[c][p]
               x == k(p)
    <3>1. /\ x.conn = r.conn /\ x.fetch = r.fetch /\ x.queue = r.queue /\ x.dead = r.dead /\ x.offs = r.offs
          /\ x.retry = 0 /\ x.commit = r.commit
      BY <1>1 DEF PartRecs
    <3>2. part'[c][p] = x
      BY <2>5
    <3> HIDE DEF x
    <3>3. PartInv(handled, start, group.epoch, p, r) /\ SeenBelow(handled, start, group.epoch, p, 0)
      BY <1>1, <1>2, <2>1, <2>6, NothingBelow
    <3>4. /\ SeenBelow(handled, start, group.epoch, p, x.offs) /\ SeenBelow(handled, start, group.epoch, p, x.commit)
          /\ SeenBelow(handled, start, group.epoch, p, x.retry)
      BY <3>1, <3>3 DEF PartInv
    <3>5. QED
      BY <3>1, <3>2, <3>3, <3>4, CommittedPart
  <2>7. WorkInv'
    <3>1. \A d \in Clients, q \in Partitions :
               cl'[d].phase = "work" /\ cl'[d].mid \in DOMAIN group'.members
                 => \/ cl[d].phase = "work" /\ cl'[d].mid = cl[d].mid /\ part'[d][q] = part[d][q]
                    \/ PartInv(handled', start', group'.epoch, q, part'[d][q])
      BY <2>1, <2>5, <2>6
    <3>2. QED
      BY <3>1, WorkStep
  <2>8. GotInv'
    BY <2>1, GotStep
  <2>9. QED
    BY <2>4, <2>7, <2>8 DEF ClientSide
<1>5. QED
  BY <1>3, <1>4

\* The answer to a commit, and its loss: the positions a client keeps come from its own request.
LEMMA AnswerSide ==
    ASSUME GroupInv, DeliveryInv, MembersKept, Progress, NEW r \in net, UNCHANGED <<handled, start>>,
           (\E res : Answer(r.client, r, res)) \/ CommitLost(r)
    PROVE  ClientSide'
<1> DEFINE c == r.client
<1>1. /\ c \in Clients /\ r.mid \in KnownIds(joins) /\ r.offs \in PartialOffsets
      /\ \A p \in DOMAIN r.offs : p \in Partitions /\ r.offs[p] \in Int
      /\ r.live => Phase(c, "work") /\ r.mid = cl[c].mid
  BY CommitRequest, GroupTypes DEF RequestRecs
<1>2. start \in [Partitions -> Nat] /\ \A p \in Partitions : part[c][p] \in PartRecs
  BY <1>1, GroupTypes
<1> HIDE DEF c
<1>3. ASSUME r.live, NEW p \in Partitions, NEW k \in PartRecs, r.mid \in DOMAIN group'.members,
             k.conn = part[c][p].conn, k.fetch = part[c][p].fetch,
             k.queue = part[c][p].queue, k.dead = part[c][p].dead,
             k.offs = part[c][p].offs \/ (p \in DOMAIN r.offs /\ k.offs = r.offs[p]),
             k.retry = part[c][p].retry \/ (p \in DOMAIN r.offs /\ k.retry = r.offs[p]),
             k.commit \in {0, part[c][p].commit}
      PROVE  PartInv(handled', start', group'.epoch, p, k)
  <2>1. r.mid \in DOMAIN group.members /\ group'.epoch = group.epoch
    BY <1>1, <1>3 DEF MembersKept
  <2>2. PartInv(handled, start, group.epoch, p, part[c][p])
    BY <1>1, <1>3, <2>1 DEF DeliveryInv, WorkInv
  <2>3. p \in DOMAIN r.offs => SeenBelow(handled, start, group.epoch, p, r.offs[p])
    BY <2>1 DEF DeliveryInv, NetInv
  <2>4. SeenBelow(handled, start, group.epoch, p, 0)
    BY <1>2, NothingBelow
  <2>5. /\ SeenBelow(handled, start, group.epoch, p, k.offs) /\ SeenBelow(handled, start, group.epoch, p, k.commit)
        /\ SeenBelow(handled, start, group.epoch, p, k.retry)
    BY <1>3, <2>2, <2>3, <2>4 DEF PartInv
  <2>6. PartInv(handled, start, group.epoch, p, k)
    BY <1>3, <2>2, <2>5, CommittedPart
  <2>7. QED
    BY <2>1, <2>6
<1>4. ASSUME NEW new, r.live, part' = [part EXCEPT ![c] = new],
             \A d \in Clients : /\ cl'[d].phase = cl[d].phase /\ cl'[d].mid = cl[d].mid
                                /\ cl'[d].jmid = cl[d].jmid /\ cl'[d].got = cl[d].got,
             \A p \in Partitions : r.mid \in DOMAIN group'.members
                 => PartInv(handled', start', group'.epoch, p, new[p])
      PROVE  WorkInv' /\ GotInv'
  <2>1. part'[c] = new /\ \A d \in Clients : d # c => part'[d] = part[d]
    BY <1>1, <1>4, GroupTypes
  <2>2. \A d \in Clients, q \in Partitions :
               cl'[d].phase = "work" /\ cl'[d].mid \in DOMAIN group'.members
                 => \/ cl[d].phase = "work" /\ cl'[d].mid = cl[d].mid /\ part'[d][q] = part[d][q]
                    \/ PartInv(handled', start', group'.epoch, q, part'[d][q])
    BY <1>1, <1>4, <2>1
  <2>3. QED
    BY <1>4, <2>2, WorkStep, GotStep
<1>5. ASSUME NEW res, Answer(c, r, res) PROVE ClientSide'
  <2>1. net' = net \ {r}
    BY <1>5, AnswerParts DEF c
  <2>2. CASE ~r.live
    <3>1. cl' = cl /\ part' = part
      BY <1>5, <2>2, AnswerParts DEF c
    <3>2. QED
      BY <2>1, <3>1, SideFrame
  <2>3. CASE r.live
    <3>1. PICK b \in BOOLEAN : cl' = [cl EXCEPT ![c] = [cl[c] EXCEPT !.sig = b]]
      BY <1>5, <2>3, AnswerParts DEF c
    <3>2. PICK again \in BOOLEAN :
            part' = [part EXCEPT ![c] = [p \in Partitions |-> Answered(part[c][p], r, p, res, again)]]
      BY <1>5, <2>3, AnswerParts DEF c
    <3> DEFINE l == [cl[c] EXCEPT !.sig = b]
               new == [p \in Partitions |-> Answered(part[c][p], r, p, res, again)]
    <3>3. cl[c] \in ClientRecs(joins)
      BY <1>1, GroupTypes
    <3>4. l.phase = cl[c].phase /\ l.mid = cl[c].mid /\ l.jmid = cl[c].jmid /\ l.got = cl[c].got
      BY <3>3 DEF ClientRecs
    <3> HIDE DEF l
    <3>5. \A d \in Clients : /\ cl'[d].phase = cl[d].phase /\ cl'[d].mid = cl[d].mid
                             /\ cl'[d].jmid = cl[d].jmid /\ cl'[d].got = cl[d].got
      <4>1. cl' = [cl EXCEPT ![c] = l]
        BY <3>1 DEF l
      <4>2. QED
        BY <1>1, <3>4, <4>1, GroupTypes
    <3>6. ASSUME NEW p \in Partitions, r.mid \in DOMAIN group'.members
          PROVE  PartInv(handled', start', group'.epoch, p, new[p])
      <4> DEFINE x == part[c][p]
                 y == Answered(x, r, p, res, again)
      <4>1. x \in PartRecs /\ (p \in DOMAIN r.offs => r.offs[p] \in Int)
        BY <1>1, <1>2
      <4>2. /\ y \in PartRecs
            /\ y.conn = x.conn /\ y.fetch = x.fetch /\ y.queue = x.queue /\ y.dead = x.dead
            /\ y.offs = x.offs \/ (p \in DOMAIN r.offs /\ y.offs = r.offs[p])
            /\ y.retry = x.retry \/ (p \in DOMAIN r.offs /\ y.retry = r.offs[p])
            /\ y.commit \in {0, x.commit}
        BY <4>1, AnsweredForms
      <4>3. new[p] = y
        OBVIOUS
      <4> HIDE DEF y, new
      <4>4. QED
        BY <1>3, <2>3, <3>6, <4>2, <4>3
    <3> HIDE DEF new
    <3>7. part' = [part EXCEPT ![c] = new]
      BY <3>2 DEF new
    <3>8. WorkInv' /\ GotInv'
      BY <1>4, <2>3, <3>5, <3>6, <3>7
    <3>9. NetInv'
      BY <2>1, NetStep
    <3>10. QED
      BY <3>8, <3>9 DEF ClientSide
  <2>4. QED
    BY <2>2, <2>3
<1>6. CASE CommitLost(r)
  <2> DEFINE late == [r EXCEPT !.live = FALSE]
             new == [p \in Partitions |->
                      IF p \in DOMAIN r.offs THEN Postponed(part[c][p], r.offs[p]) ELSE part[c][p]]
  <2>1. /\ r.live /\ UNCHANGED cl /\ net' = (net \ {r}) \union {late}
        /\ late.mid = r.mid /\ late.offs = r.offs /\ part' = [part EXCEPT ![c] = new]
    BY <1>6, LostParts DEF c
  <2> HIDE DEF late
  <2>2. NetInv'
    BY <2>1, NetStep
  <2>3. ASSUME NEW p \in Partitions, r.mid \in DOMAIN group'.members
        PROVE  PartInv(handled', start', group'.epoch, p, new[p])
    <3> DEFINE x == part[c][p]
               y == IF p \in DOMAIN r.offs THEN Postponed(x, r.offs[p]) ELSE x
    <3>1. x \in PartRecs
      BY <1>2
    <3>2. /\ y \in PartRecs
          /\ y.conn = x.conn /\ y.fetch = x.fetch /\ y.queue = x.queue /\ y.dead = x.dead
          /\ y.offs = x.offs /\ y.commit = x.commit
          /\ y.retry = x.retry \/ (p \in DOMAIN r.offs /\ y.retry = r.offs[p])
      BY <1>1, <3>1, PostponedForms
    <3>3. new[p] = y
      OBVIOUS
    <3> HIDE DEF y, new
    <3>4. QED
      BY <1>3, <2>1, <2>3, <3>2, <3>3
  <2> HIDE DEF new
  <2>4. WorkInv' /\ GotInv'
    BY <1>4, <2>1, <2>3
  <2>5. QED
    BY <2>2, <2>4 DEF ClientSide
<1>7. QED
  BY <1>5, <1>6 DEF c

-----------------------------------------------------------------------------
(* Sessions, rebalances, crashes.                                          *)

\* A fenced heartbeat changes neither work nor member.
LEMMA HeartbeatSide ==
    ASSUME GroupInv, DeliveryInv, MembersKept, Progress, NEW c \in Clients, Heartbeat(c)
    PROVE  ClientSide'
<1> DEFINE k == [cl[c] EXCEPT !.sig = TRUE, !.beats = FALSE]
<1>1. /\ Phase(c, "work") /\ UNCHANGED <<part, net>>
      /\ cl' = cl \/ cl' = [cl EXCEPT ![c] = k]
  BY DEF Heartbeat, SetClient, Quiet
<1>2. k.phase = cl[c].phase /\ k.mid = cl[c].mid
  BY GroupTypes DEF ClientRecs
<1> HIDE DEF k
<1>3. \A q \in net' : (\E x \in net : q.mid = x.mid /\ q.offs = x.offs) \/ DOMAIN q.offs = {}
  BY <1>1
<1>4. CASE cl' = cl
  BY <1>1, <1>4, SideFrame
<1>5. CASE cl' = [cl EXCEPT ![c] = k]
  <2>1. k.phase = "work"
    BY <1>1, <1>2 DEF Phase
  <2>2. k.phase \notin {"sync", "offsets"} /\ part'[c] = part[c] /\ \A d \in Clients : d # c => part'[d] = part[d]
    BY <1>1, <2>1
  <2>3. QED
    BY <1>1, <1>2, <1>3, <1>5, <2>1, <2>2, OwnRecord
<1>6. QED
  BY <1>1, <1>4, <1>5

\* A client that stops leaves its requests behind, as they were.
LEMMA StopSide ==
    ASSUME GroupInv, DeliveryInv, MembersKept, Progress, NEW c \in Clients, BeginRebalance(c) \/ Close(c)
    PROVE  ClientSide'
<1>1. \A q \in Hangup(c, net) : \E x \in net : q.mid = x.mid /\ q.offs = x.offs
  BY HangupForms
<1>2. /\ Gone.phase = "closed" /\ Rejoin(c) \in ClientRecs(joins) /\ Rejoin(c).phase = "join"
      /\ \A q \in Leave(c) : DOMAIN q.offs = {}
  BY GroupTypes, ClientForms
<1>3. ASSUME part' = [part EXCEPT ![c] = NoParts], net' \subseteq Hangup(c, net) \union Leave(c)
      PROVE  /\ \A d \in Clients : d # c => part'[d] = part[d]
             /\ \A q \in net' : (\E x \in net : q.mid = x.mid /\ q.offs = x.offs) \/ DOMAIN q.offs = {}
  BY <1>1, <1>2, <1>3, GroupTypes
<1>4. CASE BeginRebalance(c)
  <2> DEFINE k == [Rejoin(c) EXCEPT !.sig = FALSE, !.beats = FALSE]
  <2>1. cl' = [cl EXCEPT ![c] = k] /\ part' = [part EXCEPT ![c] = NoParts] /\ net' = Hangup(c, net)
    BY <1>4 DEF BeginRebalance, SetClient
  <2>2. k.phase = "join"
    BY <1>2 DEF ClientRecs
  <2> HIDE DEF k
  <2>3. k.phase # "work" /\ k.phase \notin {"sync", "offsets"}
    BY <2>2
  <2>4. QED
    BY <1>3, <2>1, <2>3, OwnRecord
<1>5. CASE Close(c)
  <2>1. /\ cl' = [cl EXCEPT ![c] = Gone] /\ part' = [part EXCEPT ![c] = NoParts]
        /\ net' = Hangup(c, net) \union Leave(c)
    BY <1>5, Zenon DEF Close, SetClient
  <2>2. Gone.phase # "work" /\ Gone.phase \notin {"sync", "offsets"}
    BY <1>2
  <2>3. QED
    BY <1>3, <2>1, <2>2, OwnRecord
<1>6. QED
  BY <1>4, <1>5

\* A crash postpones what was in flight and closes what was open.
LEMMA CrashSide ==
    ASSUME GroupInv, DeliveryInv, MembersKept, Progress, Crash
    PROVE  ClientSide'
<1>1. /\ net' = {} /\ UNCHANGED <<group, handled, start>>
      /\ cl' = [c \in Clients |-> IF cl[c].phase \in {"register", "add", "answer"} THEN Rejoin(c) ELSE cl[c]]
  BY DEF Crash, CoordinatorCrash, Workload
<1>2. \A c \in Clients : Rejoin(c).phase = "join"
  BY GroupTypes, ClientForms
<1>3. \A c \in Clients : cl'[c] = cl[c] \/ cl'[c].phase = "join"
  BY <1>1, <1>2
<1>4. start \in [Partitions -> Nat]
  BY GroupTypes
<1>5. ASSUME NEW c \in Clients, NEW p \in Partitions, cl[c].phase = "work", cl[c].mid \in DOMAIN group.members
      PROVE  PartInv(handled, start, group.epoch, p, part'[c][p])
  <2> DEFINE x == part[c][p]
             y == part'[c][p]
  <2>1. /\ y \in PartRecs /\ y.conn = Closed /\ y.fetch = x.fetch /\ y.offs = x.offs /\ y.queue = x.queue
        /\ y.commit = x.commit /\ y.dead = x.dead
        /\ y.retry # x.retry => \E r \in Live(c) : p \in DOMAIN r.offs /\ y.retry = r.offs[p]
    BY CrashParts
  <2>2. PartInv(handled, start, group.epoch, p, x) /\ x \in PartRecs
    BY <1>5, GroupTypes DEF DeliveryInv, WorkInv, Phase
  <2>3. \A r \in Live(c) : \A q \in DOMAIN r.offs : SeenBelow(handled, start, group.epoch, q, r.offs[q])
    <3>1. \A r \in Live(c) : r \in net /\ r.mid = cl[c].mid
      BY DEF Live, GroupInv, ClientInv, LiveInv
    <3>2. QED
      BY <1>5, <3>1 DEF DeliveryInv, NetInv
  <2>4. SeenBelow(handled, start, group.epoch, p, y.retry)
    BY <2>1, <2>2, <2>3 DEF PartInv
  <2> HIDE DEF x, y
  <2>5. PartInv(handled, start, group.epoch, p, y)
    BY <1>4, <2>1, <2>2, <2>4, ClosedPart
  <2>6. QED
    BY <2>5 DEF y
<1>6. WorkInv'
  <2>1. \A c \in Clients, p \in Partitions :
               cl'[c].phase = "work" /\ cl'[c].mid \in DOMAIN group'.members
                 => \/ cl[c].phase = "work" /\ cl'[c].mid = cl[c].mid /\ part'[c][p] = part[c][p]
                    \/ PartInv(handled', start', group'.epoch, p, part'[c][p])
    BY <1>1, <1>3, <1>5
  <2>2. QED
    BY <2>1, WorkStep
<1>7. GotInv'
  BY <1>3, GotStep
<1>8. NetInv'
  BY <1>1, NetStep
<1>9. QED
  BY <1>6, <1>7, <1>8 DEF ClientSide

-----------------------------------------------------------------------------
(* The theorem.                                                            *)

\* Every step keeps DeliveryInv.
LEMMA DeliveryNext ==
    ASSUME GroupInv, DeliveryInv, [Next]_vars PROVE DeliveryInv'
<1>1. MembersKept /\ Progress /\ OffsetsSeen' /\ SnapsSeen'
  BY StepsKeepMembers, StepsProgress, OffsetsStep, SnapsStep
<1>2. ASSUME UNCHANGED <<cl, part>>, net' = net PROVE ClientSide'
  <2>1. net' \subseteq net
    BY <1>2
  <2>2. QED
    BY <1>1, <1>2, <2>1, SideFrame
<1>3. ASSUME UNCHANGED vars PROVE ClientSide'
  BY <1>2, <1>3 DEF vars
<1>4. ASSUME BrokerStep \/ SessionLapse \/ Recover \/ \E p \in Partitions : Retention(p)
      PROVE  ClientSide'
  <2>1. UNCHANGED <<cl, part>> /\ net' = net
    BY <1>4 DEF BrokerStep, SessionLapse, Recover, Retention, Quiet
  <2>2. QED
    BY <1>2, <2>1
<1>5. ASSUME NEW c \in Clients, Main(c) PROVE ClientSide'
  BY <1>1, <1>5, JoinSide, SyncSide, FetchSide, ReadySide, StopSide DEF Main
<1>6. ASSUME NEW c \in Clients, Heartbeat(c) \/ ProcessRetryQueue(c) \/ ConsumerFault(c) PROVE ClientSide'
  BY <1>1, <1>6, HeartbeatSide, SendSide, JoinSide, StopSide, HandleSide, ReadSide DEF ConsumerFault
<1>7. ASSUME NEW c \in Clients, NEW p \in Partitions, Reader(c, p) \/ Worker(c, p) PROVE ClientSide'
  BY <1>1, <1>7, StreamSide, ReadSide, HandleSide, SendSide, UnreachableSide DEF Reader, Worker
<1>8. ASSUME NEW r \in net, HandleBatchCommit(r) \/ CommitWriteFails(r) \/ CommitLost(r) PROVE ClientSide'
  <2>1. UNCHANGED <<handled, start>>
    BY <1>8 DEF HandleBatchCommit, CommitWriteFails, CommitLost, Workload
  <2>2. (\E res : Answer(r.client, r, res)) \/ CommitLost(r)
    BY <1>8 DEF HandleBatchCommit, CommitWriteFails
  <2>3. QED
    BY <1>1, <2>1, <2>2, AnswerSide
<1>9. ASSUME NEW r \in net, LeaveArrives(r) PROVE ClientSide'
  BY <1>1, <1>9, SideFrame DEF LeaveArrives
<1>10. ClientSide'
  BY <1>1, <1>3, <1>4, <1>5, <1>6, <1>7, <1>8, <1>9, CrashSide DEF Next
<1>11. QED
  BY <1>1, <1>10 DEF DeliveryInv, ClientSide

\* At-least-once delivery: whatever is fenced, duplicated, lost, expired or restarted on the way, a
\* group's committed offset never passes a record that no handler of the group has seen, unless
\* retention has removed it (runWorker, sendBatchCommit, ValidateAndCommitOffsetsBulk).
THEOREM CommittedIsHandled == Spec => []AtLeastOnce
<1>1. Init => DeliveryInv
  <2>1. SUFFICES ASSUME Init PROVE DeliveryInv
    OBVIOUS
  <2>2. /\ group = NoGroup /\ mlog = {} /\ net = {} /\ start = [p \in Partitions |-> 0]
        /\ cl = [c \in Clients |-> NewClient] /\ NewClient.phase = "join"
    BY <2>1 DEF Init, NewClient
  <2>3. DOMAIN group.members = {} /\ group.offs = NoOffsets
    BY <2>2, EmptyGroups
  <2>4. OffsetsSeen
    BY <2>2, <2>3, NothingBelow DEF OffsetsSeen, NoOffsets, None
  <2>5. QED
    BY <2>2, <2>3, <2>4 DEF DeliveryInv, WorkInv, GotInv, NetInv, SnapsSeen, OffsetRecords
<1>2. GroupInv /\ DeliveryInv /\ [Next]_vars => DeliveryInv'
  BY DeliveryNext
<1>3. GroupInv /\ DeliveryInv => AtLeastOnce
  <2>1. SUFFICES ASSUME GroupInv, DeliveryInv, NEW p \in Partitions, NEW o \in 0 .. group.offs[p] - 1
                 PROVE  <<group.epoch, p, o>> \in handled \/ o < start[p]
    BY DEF AtLeastOnce
  <2>2. group.offs[p] \in Int
    BY <2>1, GroupTypes DEF Offsets
  <2>3. QED
    BY <2>1, <2>2 DEF DeliveryInv, OffsetsSeen, SeenBelow, Seen
<1>4. QED
  BY <1>1, <1>2, <1>3, GroupInvariant, PTL DEF Spec
=============================================================================
