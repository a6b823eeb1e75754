------------------------ MODULE GroupCoordinatorProofs ------------------------
(***************************************************************************)
(* What GroupCoordinator computes, for any number of partitions and any    *)
(* members: range assignments partition the topic evenly, and the metadata *)
(* log can be replayed into a group that has every acknowledged offset.    *)
(* ConsumerGroupProofs uses these lemmas for the whole specification.      *)
(***************************************************************************)
EXTENDS GroupCoordinator, FiniteSetTheorems, TLAPS

-----------------------------------------------------------------------------
(* Extremal elements.                                                      *)

\* A set of naturals that is not empty has a least element.
LEMMA LeastNat ==
    ASSUME NEW T \in SUBSET Nat, T # {}
    PROVE  \E x \in T : \A y \in T : x <= y
<1>1. PICK x \in T : \A y \in T : ~(<<y, x>> \in OpToRel(<, Nat))
  BY NatLessThanWellFounded, WFMin
<1>2. \A y \in T : ~(y < x)
  BY <1>1 DEF OpToRel
<1>3. QED
  BY <1>2

\* A bounded set of naturals that is not empty has a greatest element.
LEMMA GreatestNat ==
    ASSUME NEW S \in SUBSET Nat, S # {}, NEW b \in Nat, \A s \in S : s <= b
    PROVE  \E x \in S : \A y \in S : y <= x
<1> DEFINE T == {n \in Nat : \A s \in S : s <= n}
<1>1. PICK n \in T : \A m \in T : n <= m
  <2>1. T \in SUBSET Nat /\ b \in T
    OBVIOUS
  <2>2. QED
    BY <2>1, LeastNat
<1>2. n \in Nat /\ \A s \in S : s <= n
  BY <1>1
<1>3. n \in S
  <2>1. SUFFICES ASSUME n \notin S PROVE FALSE
    OBVIOUS
  <2>2. \A s \in S : s <= n - 1 /\ n - 1 \in Nat
    BY <1>2, <2>1
  <2>3. n - 1 \in T
    BY <2>2
  <2>4. QED
    BY <1>1, <1>2, <2>3
<1>4. QED
  BY <1>2, <1>3

\* The two-element uses of Min and Max.
LEMMA MinOfTwo ==
    ASSUME NEW a \in Int, NEW b \in Int
    PROVE  Min({a, b}) = IF a <= b THEN a ELSE b
<1>1. CASE a <= b
  <2>1. \A x \in {a, b} : (\A y \in {a, b} : x <= y) => x = a
    BY <1>1
  <2>2. a \in {a, b} /\ \A y \in {a, b} : a <= y
    BY <1>1
  <2>3. QED
    BY <1>1, <2>1, <2>2 DEF Min
<1>2. CASE ~(a <= b)
  <2>1. \A x \in {a, b} : (\A y \in {a, b} : x <= y) => x = b
    BY <1>2
  <2>2. b \in {a, b} /\ \A y \in {a, b} : b <= y
    BY <1>2
  <2>3. QED
    BY <1>2, <2>1, <2>2 DEF Min
<1>3. QED
  BY <1>1, <1>2

\* The same for the greater of two.
LEMMA MaxOfTwo ==
    ASSUME NEW a \in Int, NEW b \in Int
    PROVE  Max({a, b}) = IF a >= b THEN a ELSE b
<1>1. CASE a >= b
  <2>1. \A x \in {a, b} : (\A y \in {a, b} : x >= y) => x = a
    BY <1>1
  <2>2. a \in {a, b} /\ \A y \in {a, b} : a >= y
    BY <1>1
  <2>3. QED
    BY <1>1, <2>1, <2>2 DEF Max
<1>2. CASE ~(a >= b)
  <2>1. \A x \in {a, b} : (\A y \in {a, b} : x >= y) => x = b
    BY <1>2
  <2>2. b \in {a, b} /\ \A y \in {a, b} : b >= y
    BY <1>2
  <2>3. QED
    BY <1>2, <2>1, <2>2 DEF Max
<1>3. QED
  BY <1>1, <1>2

-----------------------------------------------------------------------------
(* Range assignment.                                                       *)

Members == Clients \X Nat

Rank(S, m)  == Cardinality({n \in S : Precedes(n, m)})
First(k, i) == i * (NumPartitions \div k) + Min({i, NumPartitions % k})

\* RebalanceRange in terms of ranks and range starts.
LEMMA RangeAsRanks ==
    ASSUME NEW S
    PROVE  RebalanceRange(S) = [m \in S |-> First(Cardinality(S), Rank(S, m)) ..
                                             First(Cardinality(S), Rank(S, m) + 1) - 1]
  BY DEF RebalanceRange, Rank, First

\* Member IDs are totally ordered.
LEMMA PrecedesOrder ==
    ASSUME NEW m \in Members, NEW n \in Members
    PROVE  /\ ~Precedes(m, m)
           /\ m # n => Precedes(m, n) \/ Precedes(n, m)
           /\ \A l \in Members : Precedes(l, m) /\ Precedes(m, n) => Precedes(l, n)
<1>1. \A l \in Members : l = <<l[1], l[2]>> /\ l[1] \in Nat /\ l[2] \in Nat
  <2>1. SUFFICES ASSUME NEW l \in Members
                 PROVE  l = <<l[1], l[2]>> /\ l[1] \in Nat /\ l[2] \in Nat
    OBVIOUS
  <2>2. PICK a \in Clients, b \in Nat : l = <<a, b>>
    BY DEF Members
  <2>3. a \in Nat
    BY GroupConstants
  <2>4. QED
    BY <2>2, <2>3
<1>2. \A l \in Members : Precedes(l, m) /\ Precedes(m, n) => Precedes(l, n)
  BY <1>1 DEF Precedes
<1>3. m # n => m[1] # n[1] \/ m[2] # n[2]
  BY <1>1
<1>4. QED
  BY <1>1, <1>2, <1>3 DEF Precedes

\* The members of a group have the ranks 0, 1, ... in the order of their IDs.
LEMMA RanksAreIndices ==
    ASSUME NEW S \in SUBSET Members, IsFiniteSet(S)
    PROVE  /\ Cardinality(S) \in Nat
           /\ \A m \in S : Rank(S, m) \in 0 .. Cardinality(S) - 1
           /\ \A m, n \in S : m # n => Rank(S, m) # Rank(S, n)
           /\ \A i \in 0 .. Cardinality(S) - 1 : \E m \in S : Rank(S, m) = i
<1> DEFINE below(m) == {n \in S : Precedes(n, m)}
           k == Cardinality(S)
           f == [m \in S |-> Rank(S, m)]
<1>1. k \in Nat
  BY FS_CardinalityType
<1>2. \A m \in S : IsFiniteSet(below(m))
  BY FS_Subset
<1>12. \A m \in S : Rank(S, m) \in Nat
  BY <1>2, FS_CardinalityType DEF Rank
<1>3. ASSUME NEW m \in S PROVE Rank(S, m) < k
  <2>1. below(m) \in SUBSET S /\ m \notin below(m)
    BY PrecedesOrder
  <2>2. Cardinality(below(m)) <= k /\ (k = Cardinality(below(m)) => S = below(m))
    BY <2>1, FS_Subset
  <2>3. QED
    BY <1>1, <1>12, <2>1, <2>2 DEF Rank
<1>4. ASSUME NEW m \in S, NEW n \in S, Precedes(m, n) PROVE Rank(S, m) < Rank(S, n)
  <2>1. below(m) \in SUBSET below(n) /\ m \in below(n) /\ m \notin below(m)
    BY <1>4, PrecedesOrder
  <2>2. /\ Cardinality(below(m)) <= Cardinality(below(n))
        /\ Cardinality(below(n)) = Cardinality(below(m)) => below(n) = below(m)
    BY <1>2, <2>1, FS_Subset
  <2>3. QED
    BY <1>12, <2>1, <2>2 DEF Rank
<1>5. \A m, n \in S : m # n => Rank(S, m) # Rank(S, n)
  <2>1. \A m, n \in S : m # n => Precedes(m, n) \/ Precedes(n, m)
    BY PrecedesOrder
  <2>2. QED
    BY <1>12, <1>4, <2>1
<1>6. \A m \in S : Rank(S, m) \in 0 .. k - 1
  BY <1>1, <1>12, <1>3
<1>7. f \in Injection(S, 0 .. k - 1)
  BY <1>5, <1>6 DEF Injection, IsInjective
<1>8. IsFiniteSet(0 .. k - 1) /\ Cardinality(0 .. k - 1) = k
  BY <1>1, FS_Interval
<1>9. f \in Surjection(S, 0 .. k - 1)
  BY <1>7, <1>8, FS_Injection
<1>10. \A i \in 0 .. k - 1 : \E m \in S : Rank(S, m) = i
  BY <1>9 DEF Surjection
<1>11. QED
  BY <1>1, <1>5, <1>6, <1>10

\* The ranges of k members, in rank order, lie end to end and differ in length by one at most.
LEMMA RangesEndToEnd ==
    ASSUME NEW k \in Nat \ {0}
    PROVE  /\ First(k, 0) = 0 /\ First(k, k) = NumPartitions
           /\ \A i \in 0 .. k : First(k, i) \in Nat
           /\ \A i \in 0 .. k - 1 :
                 First(k, i + 1) - First(k, i) \in {NumPartitions \div k, NumPartitions \div k + 1}
<1> DEFINE each == NumPartitions \div k
           rem  == NumPartitions % k
<1>1. each \in Nat /\ rem \in 0 .. k - 1 /\ NumPartitions = k * each + rem
  BY GroupConstants
<1>2. \A i \in Nat : First(k, i) = i * each + (IF i <= rem THEN i ELSE rem)
  <2>1. \A i \in Nat : Min({i, rem}) = IF i <= rem THEN i ELSE rem
    BY <1>1, MinOfTwo
  <2>2. QED
    BY <2>1 DEF First
<1> HIDE DEF each, rem
<1>3. \A i \in Nat : i * each \in Nat /\ (i + 1) * each = i * each + each
  BY <1>1
<1>4. First(k, 0) = 0 /\ First(k, k) = NumPartitions
  BY <1>1, <1>2
<1>5. \A i \in 0 .. k : First(k, i) \in Nat
  BY <1>1, <1>2, <1>3
<1>6. \A i \in 0 .. k - 1 : First(k, i + 1) - First(k, i) \in {each, each + 1}
  <2>1. SUFFICES ASSUME NEW i \in 0 .. k - 1
                 PROVE  First(k, i + 1) - First(k, i) \in {each, each + 1}
    OBVIOUS
  <2>2. /\ First(k, i) = i * each + (IF i <= rem THEN i ELSE rem)
        /\ First(k, i + 1) = (i + 1) * each + (IF i + 1 <= rem THEN i + 1 ELSE rem)
    BY <1>2
  <2>3. i * each \in Nat /\ (i + 1) * each = i * each + each
    BY <1>3
  <2>4. QED
    BY <1>1, <2>2, <2>3
<1>7. QED
  BY <1>4, <1>5, <1>6 DEF each

\* Range starts grow with the rank.
LEMMA RangesOrdered ==
    ASSUME NEW k \in Nat \ {0}, NEW i \in 0 .. k, NEW j \in 0 .. k, i <= j
    PROVE  First(k, i) <= First(k, j)
<1> DEFINE T == {n \in Nat : i + n <= k /\ ~(First(k, i) <= First(k, i + n))}
<1>1. CASE T = {}
  <2>1. j - i \in Nat /\ i + (j - i) = j
    OBVIOUS
  <2>2. \A n \in Nat : i + n <= k => First(k, i) <= First(k, i + n)
    BY <1>1
  <2>3. QED
    BY <2>1, <2>2
<1>2. CASE T # {}
  <2>1. PICK n \in T : \A m \in T : n <= m
    BY <1>2, LeastNat
  <2>2. n # 0
    BY <2>1, RangesEndToEnd
  <2>3. n - 1 \in Nat /\ i + (n - 1) <= k /\ n - 1 \notin T
    BY <2>1, <2>2
  <2>4. First(k, i) <= First(k, i + (n - 1))
    BY <2>3
  <2>5. NumPartitions \div k \in Nat
    BY GroupConstants
  <2>6. i + (n - 1) \in 0 .. k - 1 /\ i + (n - 1) + 1 = i + n /\ i + n \in 0 .. k
    BY <2>1, <2>2
  <2>7. First(k, i + n) - First(k, i + (n - 1)) >= 0
    BY <2>5, <2>6, RangesEndToEnd
  <2>8. QED
    BY <2>1, <2>4, <2>6, <2>7, RangesEndToEnd
<1>3. QED
  BY <1>1, <1>2

\* Every partition is in the range of exactly one rank.
LEMMA RangeOfPartition ==
    ASSUME NEW k \in Nat \ {0}, NEW p \in Partitions
    PROVE  \E i \in 0 .. k - 1 : p \in First(k, i) .. First(k, i + 1) - 1
<1> DEFINE T == {i \in Nat : i \in 0 .. k - 1 /\ p < First(k, i + 1)}
<1>1. p \in Nat /\ p < NumPartitions
  BY GroupConstants DEF Partitions
<1>2. k - 1 \in T
  BY <1>1, RangesEndToEnd
<1>3. PICK i \in T : \A j \in T : i <= j
  BY <1>2, LeastNat
<1>4. i \in 0 .. k - 1 /\ p < First(k, i + 1)
  BY <1>3
<1>5. First(k, i) <= p
  <2>1. CASE i = 0
    BY <1>1, <2>1, RangesEndToEnd
  <2>2. CASE i # 0
    <3>1. i - 1 \in Nat /\ i - 1 \in 0 .. k - 1 /\ i - 1 \notin T /\ (i - 1) + 1 = i
      BY <1>3, <1>4, <2>2
    <3>2. First(k, i) \in Nat
      BY <1>4, RangesEndToEnd
    <3>3. QED
      BY <1>1, <3>1, <3>2
  <2>3. QED
    BY <2>1, <2>2
<1>6. First(k, i) \in Nat /\ First(k, i + 1) \in Nat
  BY <1>4, RangesEndToEnd
<1>7. QED
  BY <1>1, <1>4, <1>5, <1>6

\* What AssignmentsCover says of one assignment.
Covers(a, S) ==
    /\ UNION {a[m] : m \in S} = Partitions
    /\ \A m, n \in S : /\ m # n => a[m] \intersect a[n] = {}
                       /\ Cardinality(a[m]) <= Cardinality(a[n]) + 1

\* rebalanceRange hands every partition to exactly one member, in shares that differ by one at most.
LEMMA RebalanceCovers ==
    ASSUME NEW S \in SUBSET Members, IsFiniteSet(S)
    PROVE  /\ DOMAIN RebalanceRange(S) = S
           /\ \A m \in S : RebalanceRange(S)[m] \in SUBSET Partitions
           /\ S # {} => Covers(RebalanceRange(S), S)
<1> DEFINE k == Cardinality(S)
           a == RebalanceRange(S)
           lo(m) == First(k, Rank(S, m))
           hi(m) == First(k, Rank(S, m) + 1)
<1>1. /\ DOMAIN a = S
      /\ \A m \in S : a[m] = lo(m) .. hi(m) - 1
  BY RangeAsRanks
<1>2. SUFFICES ASSUME S # {}
               PROVE  Covers(a, S) /\ \A m \in S : a[m] \in SUBSET Partitions
  BY <1>1
<1>3. k \in Nat \ {0}
  BY <1>2, FS_CardinalityType, FS_EmptySet
<1>4. /\ \A m \in S : Rank(S, m) \in 0 .. k - 1
      /\ \A m, n \in S : m # n => Rank(S, m) # Rank(S, n)
      /\ \A i \in 0 .. k - 1 : \E m \in S : Rank(S, m) = i
  BY RanksAreIndices
<1>5. \A m \in S : /\ lo(m) \in Nat /\ hi(m) \in Nat /\ hi(m) <= NumPartitions
                   /\ hi(m) - lo(m) \in {NumPartitions \div k, NumPartitions \div k + 1}
  <2>1. SUFFICES ASSUME NEW m \in S
                 PROVE  /\ lo(m) \in Nat /\ hi(m) \in Nat /\ hi(m) <= NumPartitions
                        /\ hi(m) - lo(m) \in {NumPartitions \div k, NumPartitions \div k + 1}
    OBVIOUS
  <2>2. Rank(S, m) \in 0 .. k - 1 /\ Rank(S, m) \in 0 .. k /\ Rank(S, m) + 1 \in 0 .. k /\ k \in 0 .. k
    BY <1>3, <1>4
  <2>3. Rank(S, m) + 1 <= k
    BY <1>3, <2>2
  <2>4. First(k, Rank(S, m) + 1) <= First(k, k)
    BY <1>3, <2>2, <2>3, RangesOrdered
  <2>5. QED
    BY <1>3, <2>2, <2>4, RangesEndToEnd
<1>6. \A m \in S : a[m] \in SUBSET Partitions
  BY <1>1, <1>5, GroupConstants DEF Partitions
<1>7. ASSUME NEW p \in Partitions PROVE \E m \in S : p \in a[m]
  <2>1. PICK i \in 0 .. k - 1 : p \in First(k, i) .. First(k, i + 1) - 1
    BY <1>3, RangeOfPartition
  <2>2. PICK m \in S : Rank(S, m) = i
    BY <1>4, <2>1
  <2>3. QED
    BY <1>1, <2>1, <2>2
<1>8. UNION {a[m] : m \in S} = Partitions
  BY <1>6, <1>7
<1>9. ASSUME NEW m \in S, NEW n \in S, Rank(S, m) < Rank(S, n)
      PROVE  a[m] \intersect a[n] = {}
  <2>1. Rank(S, m) + 1 \in 0 .. k /\ Rank(S, n) \in 0 .. k /\ Rank(S, m) + 1 <= Rank(S, n)
    BY <1>3, <1>4, <1>9
  <2>2. hi(m) <= lo(n)
    BY <1>3, <2>1, RangesOrdered
  <2>3. lo(m) \in Nat /\ hi(m) \in Nat /\ lo(n) \in Nat /\ hi(n) \in Nat
    BY <1>5
  <2>4. a[m] = lo(m) .. hi(m) - 1 /\ a[n] = lo(n) .. hi(n) - 1
    BY <1>1
  <2> HIDE DEF lo, hi, a
  <2>5. QED
    BY <2>2, <2>3, <2>4
<1>10. \A m, n \in S : m # n => a[m] \intersect a[n] = {}
  <2>1. SUFFICES ASSUME NEW m \in S, NEW n \in S, m # n PROVE a[m] \intersect a[n] = {}
    OBVIOUS
  <2>2. Rank(S, m) < Rank(S, n) \/ Rank(S, n) < Rank(S, m)
    BY <1>3, <1>4, <2>1
  <2>3. QED
    BY <1>9, <2>2
<1>11. \A m, n \in S : Cardinality(a[m]) <= Cardinality(a[n]) + 1
  <2>1. \A m \in S : Cardinality(a[m]) = hi(m) - lo(m)
    <3>1. SUFFICES ASSUME NEW m \in S PROVE Cardinality(a[m]) = hi(m) - lo(m)
      OBVIOUS
    <3>2. a[m] = lo(m) .. hi(m) - 1 /\ lo(m) \in Nat /\ hi(m) \in Nat
      BY <1>1, <1>5
    <3>3. NumPartitions \div k \in Nat
      BY <1>3, GroupConstants
    <3>4. hi(m) >= lo(m)
      BY <1>5, <3>2, <3>3
    <3> HIDE DEF lo, hi, a
    <3>5. lo(m) \in Int /\ hi(m) - 1 \in Int
      BY <3>2
    <3>6. Cardinality(lo(m) .. hi(m) - 1) = IF lo(m) > hi(m) - 1 THEN 0 ELSE hi(m) - 1 - lo(m) + 1
      BY <3>5, FS_Interval
    <3>7. QED
      BY <3>2, <3>4, <3>6
  <2>2. NumPartitions \div k \in Nat
    BY <1>3, GroupConstants
  <2>3. QED
    BY <1>5, <2>1, <2>2
<1>12. QED
  BY <1>6, <1>8, <1>10, <1>11 DEF Covers

-----------------------------------------------------------------------------
(* The coordinator's inductive invariant.                                  *)

Offsets       == [Partitions -> Int]
Records       == [type : {"register", "delete", "offsets"}, epoch : Nat, rev : Nat, offs : Offsets]
Assignments   == UNION {[S -> SUBSET Partitions] : S \in SUBSET Members}
AtMost(a, b)  == \A p \in Partitions : a[p] <= b[p]
JoinedIds(n)  == Clients \X (1 .. n)               \* the member IDs handed out by n joins
OffsetRecords(log) == {r \in log : r.type = "offsets"}

GroupType     == [epoch : Nat, gen : Nat, members : Assignments, offs : Offsets, rev : Nat]

CoordType ==
    /\ up \in BOOLEAN /\ logDown \in BOOLEAN /\ groupEpoch \in Nat /\ joins \in Nat
    /\ group \in GroupType
    /\ lifecycle \in [op : {"none", "register", "delete"}, epoch : Nat, written : BOOLEAN]
    /\ mlog \in SUBSET Records
    /\ acked \in Offsets

\* Members carry IDs that were handed out; a group that is gone is empty.
MemberInv ==
    /\ DOMAIN group.members \subseteq JoinedIds(joins)
    /\ DOMAIN group.members # {} => Covers(group.members, DOMAIN group.members)
    /\ group.epoch \in {0, groupEpoch}
    /\ ~Exists => DOMAIN group.members = {} /\ group.offs = NoOffsets /\ group.rev = 0

\* A pending registration or deletion is for the next epoch, its precondition still holds, and
\* it has written its record when it says so.
LifecycleInv ==
    /\ ~Idle => /\ lifecycle.op \in {"register", "delete"} /\ lifecycle.epoch = groupEpoch + 1
                /\ up /\ Standalone
    /\ lifecycle.op = "delete" => DOMAIN group.members = {}
    /\ lifecycle.op = "register" => ~Exists
    /\ lifecycle.written => LifecycleRecord(lifecycle.op, lifecycle.epoch) \in mlog

\* Lifecycle records: one per epoch, at most one epoch ahead of memory and then only while its
\* writer is pending or the log is down, and the newest agrees with memory on its own epoch.
LogInv ==
    /\ \A r \in Lifecycles(mlog) :
          /\ r.epoch \in 1 .. groupEpoch + 1
          /\ r.epoch = groupEpoch + 1 => ~up \/ logDown \/ lifecycle.written
          /\ r.epoch = groupEpoch => (r.type = "register" <=> Exists)
    /\ \A r, s \in Lifecycles(mlog) : r.epoch = s.epoch => r = s
    /\ Standalone /\ groupEpoch > 0 => \E r \in Lifecycles(mlog) : r.epoch >= groupEpoch
    /\ ~Standalone => mlog = {}

\* Offset snapshots of the group's epoch grow with their revision and bracket the offsets in
\* memory: only a snapshot whose write failed is ahead of them, by one revision.
SnapInv ==
    /\ \A r \in OffsetRecords(mlog) : r.epoch <= groupEpoch /\ (r.epoch = groupEpoch => Exists)
    /\ \A r \in OffsetRecords(mlog) : r.epoch = groupEpoch =>
          /\ r.rev <= group.rev => AtMost(r.offs, group.offs)
          /\ r.rev = group.rev => r.offs = group.offs
          /\ r.rev > group.rev => /\ r.rev = group.rev + 1 /\ AtMost(group.offs, r.offs)
                                  /\ ~up \/ logDown
    /\ Standalone /\ group.rev > 0 =>
          \E r \in OffsetRecords(mlog) : r.epoch = groupEpoch /\ r.rev >= group.rev
    /\ group.rev = 0 => group.offs = NoOffsets

\* Snapshots of one epoch never disagree.
SnapsAgree(log) ==
    \A r, s \in OffsetRecords(log) : r.epoch = s.epoch =>
        /\ r.rev = s.rev => r = s
        /\ r.rev < s.rev => AtMost(r.offs, s.offs)

AckedInv == /\ Exists => AtMost(acked, group.offs)
            /\ ~Exists => acked = NoOffsets

CoordInv == CoordType /\ MemberInv /\ LifecycleInv /\ LogInv /\ SnapInv /\ SnapsAgree(mlog) /\ AckedInv

\* The group a start finds is the newest lifecycle record's.
LEMMA LatestIsNewest ==
    ASSUME NEW log \in SUBSET Records, Lifecycles(log) # {}, NEW b \in Nat,
           \A r \in Lifecycles(log) : r.epoch <= b
    PROVE  /\ Latest(log) \in Lifecycles(log)
           /\ \A s \in Lifecycles(log) : s.epoch <= Latest(log).epoch
<1> DEFINE E == {r.epoch : r \in Lifecycles(log)}
<1>1. E \in SUBSET Nat /\ E # {} /\ \A e \in E : e <= b
  BY DEF Lifecycles, Records
<1>2. PICK e \in E : \A x \in E : x <= e
  BY <1>1, GreatestNat
<1>3. PICK r \in Lifecycles(log) : r.epoch = e
  BY <1>2
<1>4. \A s \in Lifecycles(log) : s.epoch <= r.epoch
  BY <1>2, <1>3
<1>5. QED
  BY <1>3, <1>4 DEF Latest

\* Among snapshots whose revisions are bounded there is a newest one.
LEMMA NewestSnapshot ==
    ASSUME NEW S \in SUBSET Records, S # {}, NEW b \in Nat, \A r \in S : r.rev <= b
    PROVE  \E r \in S : \A s \in S : s.rev <= r.rev
<1> DEFINE E == {r.rev : r \in S}
<1>1. E \in SUBSET Nat /\ E # {} /\ \A e \in E : e <= b
  BY DEF Records
<1>2. PICK e \in E : \A x \in E : x <= e
  BY <1>1, GreatestNat
<1>3. QED
  BY <1>2

\* The invariant rules out what recoverConsumerMetadata refuses.
LEMMA AgreeingLogRecovers ==
    ASSUME CoordInv
    PROVE  MetadataRecoverable
<1>1. \A r, s \in Lifecycles(mlog) : r.epoch = s.epoch => r = s
  BY DEF CoordInv, LogInv
<1>2. ASSUME NEW r \in mlog, NEW s \in mlog, r.type = "offsets", s.type = "offsets", r.epoch = s.epoch
      PROVE  /\ r.rev = s.rev => r = s
             /\ r.rev < s.rev => \A p \in Partitions : ~(s.offs[p] < r.offs[p])
  <2>1. r \in OffsetRecords(mlog) /\ s \in OffsetRecords(mlog)
    BY <1>2 DEF OffsetRecords
  <2>2. r.offs \in Offsets /\ s.offs \in Offsets
    BY DEF CoordInv, CoordType, Records
  <2>3. QED
    BY <1>2, <2>1, <2>2 DEF CoordInv, SnapsAgree, AtMost, Offsets
<1>3. QED
  BY <1>1, <1>2 DEF MetadataRecoverable, Conflicts

-----------------------------------------------------------------------------
(* Steps that leave the coordinator alone, and membership.                 *)

\* The invariant is about these variables only.
LEMMA CoordFrame ==
    ASSUME CoordInv, UNCHANGED <<work, up, group, groupEpoch, lifecycle, mlog, logDown, joins, acked>>
    PROVE  CoordInv'
<1> USE DEF CoordInv
<1>1. CoordType' /\ MemberInv' /\ LifecycleInv'
  BY DEF CoordType, MemberInv, LifecycleInv, Exists, Idle, Standalone, Does
<1>2. LogInv' /\ SnapInv' /\ SnapsAgree(mlog)' /\ AckedInv'
  BY DEF LogInv, SnapInv, SnapsAgree, AckedInv, Exists, Standalone, Does
<1>3. QED
  BY <1>1, <1>2

\* A group without members or offsets.
LEMMA EmptyGroups ==
    ASSUME NEW e \in Nat
    PROVE  /\ NoOffsets \in Offsets
           /\ NoGroup \in GroupType
           /\ NewGroup(e) \in GroupType
           /\ NewGroup(e).epoch = e /\ NewGroup(e).offs = NoOffsets /\ NewGroup(e).rev = 0
           /\ NewGroup(e).members = NoGroup.members
           /\ NoGroup.epoch = 0 /\ NoGroup.offs = NoOffsets /\ NoGroup.rev = 0
           /\ DOMAIN NoGroup.members = {}
<1>1. NoOffsets \in Offsets
  BY DEF NoOffsets, Offsets, None
<1>2. << >> \in [{} -> SUBSET Partitions]
  OBVIOUS
<1>3. << >> \in Assignments
  BY <1>2 DEF Assignments
<1>4. NoGroup \in GroupType
  BY <1>1, <1>3 DEF NoGroup, GroupType
<1>5. QED
  BY <1>1, <1>4 DEF NewGroup, NoGroup, GroupType

\* IDs handed out are member IDs, and finitely many.
LEMMA JoinedIdsFinite ==
    ASSUME NEW n \in Nat, NEW S \in SUBSET JoinedIds(n)
    PROVE  S \in SUBSET Members /\ IsFiniteSet(S)
<1>1. IsFiniteSet(1 .. n) /\ 1 .. n \subseteq Nat
  BY FS_Interval
<1>2. IsFiniteSet(JoinedIds(n))
  BY <1>1, FS_Product, GroupConstants DEF JoinedIds
<1>3. QED
  BY <1>1, <1>2, FS_Subset DEF JoinedIds, Members

\* A rebalanced group differs in its generation and its assignments, which cover the topic.
LEMMA WithMembersFields ==
    ASSUME NEW g \in GroupType, NEW n \in Nat, NEW S \in SUBSET JoinedIds(n)
    PROVE  /\ WithMembers(g, S) \in GroupType
           /\ WithMembers(g, S).epoch = g.epoch
           /\ WithMembers(g, S).offs = g.offs
           /\ WithMembers(g, S).rev = g.rev
           /\ DOMAIN WithMembers(g, S).members = S
           /\ S # {} => Covers(WithMembers(g, S).members, S)
<1> DEFINE a == RebalanceRange(S)
<1>1. S \in SUBSET Members /\ IsFiniteSet(S)
  BY JoinedIdsFinite
<1>2. DOMAIN a = S /\ (\A m \in S : a[m] \in SUBSET Partitions) /\ (S # {} => Covers(a, S))
  BY <1>1, RebalanceCovers
<1>3. a \in [S -> SUBSET Partitions]
  BY <1>2 DEF RebalanceRange
<1>4. a \in Assignments
  BY <1>1, <1>3 DEF Assignments
<1> HIDE DEF a
<1>5. WithMembers(g, S) = [g EXCEPT !.gen = @ + 1, !.members = a]
  BY DEF WithMembers, a
<1>6. g.gen + 1 \in Nat
  BY DEF GroupType
<1>7. [g EXCEPT !.gen = g.gen + 1, !.members = a] \in GroupType
  BY <1>4, <1>6 DEF GroupType
<1>8. /\ WithMembers(g, S).epoch = g.epoch /\ WithMembers(g, S).offs = g.offs
      /\ WithMembers(g, S).rev = g.rev /\ WithMembers(g, S).members = a
  BY <1>5 DEF GroupType
<1>9. QED
  BY <1>2, <1>5, <1>7, <1>8

\* Joins, leaves and expiries of an existing group: they run rebalanceRange and touch nothing else.
LEMMA MembersStep ==
    ASSUME CoordInv, Exists, joins' \in Nat, joins <= joins',
           NEW S \in SUBSET JoinedIds(joins'), lifecycle.op = "delete" => S = {},
           group' = WithMembers(group, S),
           UNCHANGED <<work, up, groupEpoch, lifecycle, mlog, logDown, acked>>
    PROVE  CoordInv'
<1>1. group \in GroupType /\ group' \in GroupType
  BY WithMembersFields DEF CoordInv, CoordType
<1>2. /\ group'.epoch = group.epoch /\ group'.offs = group.offs /\ group'.rev = group.rev
      /\ DOMAIN group'.members = S
  BY <1>1, WithMembersFields
<1>3. S # {} => Covers(group'.members, S)
  BY <1>1, WithMembersFields
<1>4. CoordType'
  BY <1>1 DEF CoordInv, CoordType
<1>6. MemberInv'
  BY <1>2, <1>3 DEF CoordInv, MemberInv, Exists
<1>7. LifecycleInv'
  BY <1>2 DEF CoordInv, LifecycleInv, Exists, Idle, Standalone, Does
<1>8. LogInv' /\ SnapInv' /\ SnapsAgree(mlog)' /\ AckedInv'
  BY <1>2 DEF CoordInv, LogInv, SnapInv, SnapsAgree, AckedInv, Exists, Standalone, Does
<1>9. QED
  BY <1>4, <1>6, <1>7, <1>8 DEF CoordInv

\* Members have IDs that were handed out before.
LEMMA MembersJoined ==
    ASSUME CoordInv
    PROVE  /\ group \in GroupType /\ joins \in Nat /\ joins + 1 \in Nat
           /\ DOMAIN group.members \subseteq JoinedIds(joins)
           /\ JoinedIds(joins) \subseteq JoinedIds(joins + 1)
           /\ \A c \in Clients : <<c, joins + 1>> \in JoinedIds(joins + 1) \ JoinedIds(joins)
<1>1. joins \in Nat /\ group \in GroupType /\ DOMAIN group.members \subseteq JoinedIds(joins)
  BY DEF CoordInv, CoordType, MemberInv
<1>2. QED
  BY <1>1 DEF JoinedIds

\* AddConsumer adds a new ID to a group no deletion is pending for, or does nothing.
LEMMA AddConsumerStep ==
    ASSUME CoordInv, NEW c \in Clients, AddConsumer(<<c, joins + 1>>),
           UNCHANGED <<work, up, groupEpoch, lifecycle, mlog, logDown, acked>>
    PROVE  CoordInv'
<1>1. joins' = joins + 1 /\ joins \in Nat
  BY MembersJoined DEF AddConsumer
<1>2. CASE MayAdd
  <2> DEFINE S == DOMAIN group.members \union {<<c, joins + 1>>}
  <2>1. group' = WithMembers(group, S) /\ Exists /\ lifecycle.op # "delete"
    BY <1>2 DEF AddConsumer, MayAdd, Idle, NoLifecycle
  <2>2. S \in SUBSET JoinedIds(joins')
    BY <1>1, MembersJoined
  <2> HIDE DEF S
  <2>3. QED
    BY <1>1, <2>1, <2>2, MembersStep
<1>3. CASE ~MayAdd
  <2>1. group' = group
    BY <1>3 DEF AddConsumer
  <2>2. MemberInv'
    BY <1>1, <2>1 DEF CoordInv, MemberInv, JoinedIds, Exists
  <2>3. CoordType' /\ LifecycleInv'
    BY <1>1, <2>1 DEF CoordInv, CoordType, LifecycleInv, Exists, Idle, Standalone, Does
  <2>4. LogInv' /\ SnapInv' /\ SnapsAgree(mlog)' /\ AckedInv'
    BY <2>1 DEF CoordInv, LogInv, SnapInv, SnapsAgree, AckedInv, Exists, Standalone, Does
  <2>5. QED
    BY <2>2, <2>3, <2>4 DEF CoordInv
<1>4. QED
  BY <1>2, <1>3

\* A leave removes one member, of its own generation.
LEMMA LeaveStep ==
    ASSUME CoordInv, NEW m, NEW gen, HandleLeave(m, gen), UNCHANGED work
    PROVE  CoordInv'
<1>1. UNCHANGED <<up, groupEpoch, lifecycle, mlog, logDown, joins, acked>>
  BY DEF HandleLeave
<1>2. CASE Validate(m, gen) = "OK"
  <2>1. Exists /\ m \in DOMAIN group.members
    BY <1>2 DEF Validate
  <2>2. lifecycle.op # "delete"
    BY <2>1 DEF CoordInv, LifecycleInv
  <2>3. group' = WithMembers(group, DOMAIN group.members \ {m})
    BY <1>2 DEF HandleLeave
  <2>4. QED
    BY <1>1, <2>1, <2>2, <2>3, MembersJoined, MembersStep
<1>3. CASE Validate(m, gen) # "OK"
  BY <1>1, <1>3, CoordFrame DEF HandleLeave
<1>4. QED
  BY <1>2, <1>3

\* Expiry removes members of the generation it scanned, or does nothing.
LEMMA ExpireStep ==
    ASSUME CoordInv, ExpireApply, UNCHANGED work
    PROVE  CoordInv'
<1>1. UNCHANGED <<up, groupEpoch, lifecycle, mlog, logDown, joins, acked>>
  BY DEF ExpireApply
<1>2. CASE Exists /\ group.gen = scan.gen /\ scan.ids \intersect DOMAIN group.members # {}
  <2>1. lifecycle.op # "delete"
    BY <1>2 DEF CoordInv, LifecycleInv
  <2>2. group' = WithMembers(group, DOMAIN group.members \ scan.ids)
    BY <1>2 DEF ExpireApply
  <2>3. QED
    BY <1>1, <1>2, <2>1, <2>2, MembersJoined, MembersStep
<1>3. CASE ~(Exists /\ group.gen = scan.gen /\ scan.ids \intersect DOMAIN group.members # {})
  BY <1>1, <1>3, CoordFrame DEF ExpireApply
<1>4. QED
  BY <1>2, <1>3

-----------------------------------------------------------------------------
(* A cluster's group, whose log is Raft's.                                 *)

\* The FSM's JOIN, applied once or twice.
LEMMA ApplyJoinStep ==
    ASSUME CoordInv, ~Standalone, NEW c \in Clients, NEW twice \in BOOLEAN,
           ApplyJoin(<<c, joins + 1>>, twice),
           UNCHANGED <<work, up, lifecycle, mlog, logDown, acked>>
    PROVE  CoordInv'
<1> DEFINE m == <<c, joins + 1>>
           g == IF Exists THEN group ELSE NewGroup(groupEpoch + 1)
           S == DOMAIN g.members \union {m}
           h == WithMembers(g, S)
<1>1. /\ joins' = joins + 1 /\ joins' \in Nat
      /\ groupEpoch' = h.epoch
      /\ group' = IF twice THEN WithMembers(h, DOMAIN h.members) ELSE h
  BY MembersJoined DEF ApplyJoin
<1>2. /\ g \in GroupType /\ DOMAIN g.members \subseteq JoinedIds(joins)
      /\ g.epoch \in Nat \ {0} /\ AtMost(acked, g.offs) /\ (g.rev = 0 => g.offs = NoOffsets)
      /\ Exists => g.epoch = groupEpoch /\ g.offs = group.offs
  <2>1. CASE Exists
    BY <2>1 DEF CoordInv, CoordType, GroupType, MemberInv, SnapInv, AckedInv, Exists
  <2>2. CASE ~Exists
    <3>1. groupEpoch + 1 \in Nat /\ groupEpoch + 1 # 0 /\ acked = NoOffsets
      BY <2>2 DEF CoordInv, CoordType, AckedInv
    <3>2. AtMost(NoOffsets, NoOffsets)
      BY DEF AtMost, NoOffsets, None
    <3>3. QED
      BY <2>2, <3>1, <3>2, EmptyGroups
  <2>3. QED
    BY <2>1, <2>2
<1>3. S \in SUBSET JoinedIds(joins')
  BY <1>1, <1>2, MembersJoined
<1> HIDE DEF g, S
<1>4. /\ h \in GroupType /\ h.epoch = g.epoch /\ h.offs = g.offs /\ h.rev = g.rev
      /\ DOMAIN h.members = S /\ (S # {} => Covers(h.members, S))
  BY <1>1, <1>2, <1>3, WithMembersFields
<1> HIDE DEF h
<1>5. /\ group' \in GroupType /\ group'.epoch = g.epoch /\ group'.offs = g.offs /\ group'.rev = g.rev
      /\ DOMAIN group'.members = S /\ (S # {} => Covers(group'.members, S))
  <2>1. CASE twice
    BY <1>1, <1>3, <1>4, <2>1, WithMembersFields
  <2>2. CASE ~twice
    BY <1>1, <1>4, <2>2
  <2>3. QED
    BY <2>1, <2>2
<1>6. CoordType'
  BY <1>1, <1>2, <1>4, <1>5 DEF CoordInv, CoordType
<1>7. groupEpoch' = g.epoch
  BY <1>1, <1>4
<1>8. MemberInv'
  BY <1>2, <1>3, <1>5, <1>7 DEF MemberInv, Exists
<1>9. Idle /\ mlog = {}
  BY DEF CoordInv, LifecycleInv, LogInv
<1>10. LifecycleInv' /\ LogInv' /\ SnapInv' /\ SnapsAgree(mlog)'
  BY <1>2, <1>5, <1>9
     DEF LifecycleInv, LogInv, SnapInv, SnapsAgree, Idle, NoLifecycle, Lifecycles, OffsetRecords,
         Standalone, Does
<1>11. AckedInv'
  BY <1>2, <1>5 DEF AckedInv, Exists
<1>12. QED
  BY <1>6, <1>8, <1>10, <1>11 DEF CoordInv

-----------------------------------------------------------------------------
(* Registration and deletion.                                              *)

\* The two kinds of records are told apart by their type.
LEMMA RecordKinds ==
    ASSUME NEW e \in Nat, NEW op \in {"register", "delete"}, NEW log
    PROVE  /\ LifecycleRecord(op, e) \in Records
           /\ LifecycleRecord(op, e).epoch = e
           /\ LifecycleRecord(op, e).type = op
           /\ Lifecycles(log \union {LifecycleRecord(op, e)}) = Lifecycles(log) \union {LifecycleRecord(op, e)}
           /\ OffsetRecords(log \union {LifecycleRecord(op, e)}) = OffsetRecords(log)
<1>1. NoOffsets \in Offsets
  BY EmptyGroups
<1>2. LifecycleRecord(op, e) \in Records /\ LifecycleRecord(op, e).epoch = e
      /\ LifecycleRecord(op, e).type = op
  BY <1>1 DEF LifecycleRecord, Records
<1>3. op # "offsets"
  OBVIOUS
<1>4. QED
  BY <1>2, <1>3 DEF Lifecycles, OffsetRecords

\* lifecyclePending is published under the conditions the caller checked.
LEMMA BeginStep ==
    ASSUME CoordInv, Standalone, up, NEW op \in {"register", "delete"}, LifecycleBegin(op),
           op = "delete" => DOMAIN group.members = {}, op = "register" => ~Exists, UNCHANGED work
    PROVE  CoordInv'
<1>1. /\ Idle /\ lifecycle' = [op |-> op, epoch |-> groupEpoch + 1, written |-> FALSE]
      /\ UNCHANGED <<up, group, groupEpoch, mlog, logDown, joins, acked>>
  BY DEF LifecycleBegin
<1>2. CoordType' /\ MemberInv'
  BY <1>1 DEF CoordInv, CoordType, MemberInv, Exists
<1>3. LifecycleInv'
  BY <1>1 DEF LifecycleInv, Exists, Idle, Standalone, Does
<1>4. LogInv'
  BY <1>1 DEF CoordInv, LogInv, Idle, NoLifecycle, Exists, Standalone, Does
<1>5. SnapInv' /\ SnapsAgree(mlog)' /\ AckedInv'
  BY <1>1 DEF CoordInv, SnapInv, SnapsAgree, AckedInv, Exists, Standalone, Does
<1>6. QED
  BY <1>2, <1>3, <1>4, <1>5 DEF CoordInv

\* A lifecycle record for the next epoch reaches the log, complete or in doubt.
LEMMA RecordReaches ==
    ASSUME CoordInv, up, ~Idle, ~lifecycle.written, ~logDown,
           mlog' = mlog \union {LifecycleRecord(lifecycle.op, lifecycle.epoch)},
           \/ lifecycle' = [lifecycle EXCEPT !.written = TRUE] /\ logDown' = logDown
           \/ lifecycle' = NoLifecycle /\ logDown' = TRUE,
           UNCHANGED <<work, up, group, groupEpoch, joins, acked>>
    PROVE  CoordInv'
<1> DEFINE rec == LifecycleRecord(lifecycle.op, lifecycle.epoch)
<1>1. /\ lifecycle.op \in {"register", "delete"} /\ lifecycle.epoch = groupEpoch + 1
      /\ Standalone /\ groupEpoch \in Nat /\ lifecycle.epoch \in Nat /\ mlog \in SUBSET Records
  BY DEF CoordInv, CoordType, LifecycleInv
<1>2. /\ rec \in Records /\ rec.epoch = groupEpoch + 1
      /\ Lifecycles(mlog') = Lifecycles(mlog) \union {rec}
      /\ OffsetRecords(mlog') = OffsetRecords(mlog)
  <2>1. /\ rec \in Records /\ rec.epoch = lifecycle.epoch
        /\ Lifecycles(mlog \union {rec}) = Lifecycles(mlog) \union {rec}
        /\ OffsetRecords(mlog \union {rec}) = OffsetRecords(mlog)
    <3> DEFINE op == lifecycle.op
               e == lifecycle.epoch
    <3>1. op \in {"register", "delete"} /\ e \in Nat
      BY <1>1
    <3> HIDE DEF op, e
    <3>2. LET x == LifecycleRecord(op, e)
          IN  /\ x \in Records /\ x.epoch = e
              /\ Lifecycles(mlog \union {x}) = Lifecycles(mlog) \union {x}
              /\ OffsetRecords(mlog \union {x}) = OffsetRecords(mlog)
      BY <3>1, RecordKinds
    <3>3. QED
      BY <3>2 DEF op, e
  <2>2. QED
    BY <1>1, <2>1, Zenon
<1> HIDE DEF rec
<1>3. CoordType'
  <2>1. lifecycle' \in [op : {"none", "register", "delete"}, epoch : Nat, written : BOOLEAN]
    <3>1. lifecycle \in [op : {"none", "register", "delete"}, epoch : Nat, written : BOOLEAN]
      BY DEF CoordInv, CoordType
    <3>2. [lifecycle EXCEPT !.written = TRUE] \in [op : {"none", "register", "delete"}, epoch : Nat, written : BOOLEAN]
      BY <3>1
    <3>3. NoLifecycle \in [op : {"none", "register", "delete"}, epoch : Nat, written : BOOLEAN]
      BY DEF NoLifecycle
    <3>4. QED
      BY <3>2, <3>3
  <2>2. mlog' \in SUBSET Records
    BY <1>1, <1>2 DEF rec
  <2>3. QED
    BY <2>1, <2>2 DEF CoordInv, CoordType
<1>4. MemberInv' /\ AckedInv'
  BY DEF CoordInv, MemberInv, AckedInv, Exists
<1>5. LifecycleInv'
  <2>1. CASE lifecycle' = [lifecycle EXCEPT !.written = TRUE] /\ logDown' = logDown
    <3>1. lifecycle'.op = lifecycle.op /\ lifecycle'.epoch = lifecycle.epoch /\ lifecycle'.written
      BY <2>1 DEF CoordInv, CoordType
    <3>2. QED
      BY <1>1, <3>1 DEF CoordInv, LifecycleInv, Idle, Exists, Standalone, Does
  <2>2. CASE lifecycle' = NoLifecycle /\ logDown' = TRUE
    BY <2>2 DEF LifecycleInv, Idle, NoLifecycle
  <2>3. QED
    BY <2>1, <2>2
<1>6. LogInv'
  <2>1. \A r \in Lifecycles(mlog) : r.epoch # groupEpoch + 1
    BY DEF CoordInv, LogInv
  <2>2. logDown' \/ lifecycle'.written
    BY DEF CoordInv, CoordType
  <2>3. \A r \in Lifecycles(mlog') :
          /\ r.epoch \in 1 .. groupEpoch' + 1
          /\ r.epoch = groupEpoch' + 1 => ~up' \/ logDown' \/ lifecycle'.written
          /\ r.epoch = groupEpoch' => (r.type = "register" <=> Exists')
    BY <1>1, <1>2, <2>2 DEF CoordInv, LogInv, Exists
  <2>4. \A r, s \in Lifecycles(mlog') : r.epoch = s.epoch => r = s
    BY <1>2, <2>1 DEF CoordInv, LogInv
  <2>5. \E r \in Lifecycles(mlog') : r.epoch >= groupEpoch'
    <3>1. rec \in Lifecycles(mlog') /\ rec.epoch >= groupEpoch'
      BY <1>1, <1>2
    <3>2. QED
      BY <3>1
  <2>6. QED
    BY <1>1, <2>3, <2>4, <2>5 DEF LogInv, Standalone, Does
<1>7. SnapInv' /\ SnapsAgree(mlog')
  <2>1. up' /\ (logDown => logDown')
    OBVIOUS
  <2>2. QED
    BY <1>2, <2>1 DEF CoordInv, SnapInv, SnapsAgree, Exists, Standalone, Does
<1>8. QED
  BY <1>3, <1>4, <1>5, <1>6, <1>7 DEF CoordInv

\* The record is written, or its write fails and leaves the log down.
LEMMA WriteStep ==
    ASSUME CoordInv, LifecycleWrite \/ LifecycleWriteFails, UNCHANGED work
    PROVE  CoordInv'
<1>1. CASE LifecycleWrite
  BY <1>1, RecordReaches DEF LifecycleWrite
<1>2. CASE LifecycleWriteFails
  <2>1. /\ up /\ ~Idle /\ ~lifecycle.written /\ lifecycle' = NoLifecycle
        /\ UNCHANGED <<up, group, groupEpoch, joins, acked>>
        /\ \/ mlog' = mlog /\ (logDown' = logDown \/ logDown' = TRUE)
           \/ ~logDown /\ logDown' = TRUE
              /\ mlog' = mlog \union {LifecycleRecord(lifecycle.op, lifecycle.epoch)}
    BY <1>2 DEF LifecycleWriteFails
  <2>2. CASE mlog' = mlog /\ (logDown' = logDown \/ logDown' = TRUE)
    <3>1. CoordType' /\ MemberInv'
      BY <2>1, <2>2 DEF CoordInv, CoordType, MemberInv, Exists, NoLifecycle
    <3>2. LifecycleInv'
      BY <2>1 DEF LifecycleInv, Idle, NoLifecycle
    <3>3. LogInv'
      BY <2>1, <2>2 DEF CoordInv, LogInv, Exists, Standalone, Does
    <3>4. SnapInv' /\ SnapsAgree(mlog)' /\ AckedInv'
      BY <2>1, <2>2 DEF CoordInv, SnapInv, SnapsAgree, AckedInv, Exists, Standalone, Does
    <3>5. QED
      BY <3>1, <3>2, <3>3, <3>4 DEF CoordInv
  <2>3. CASE ~logDown /\ logDown' = TRUE
             /\ mlog' = mlog \union {LifecycleRecord(lifecycle.op, lifecycle.epoch)}
    BY <2>1, <2>3, RecordReaches
  <2>4. QED
    BY <2>1, <2>2, <2>3
<1>3. QED
  BY <1>1, <1>2

\* The new incarnation, or none, replaces the group whose record is in the log.
LEMMA FinishStep ==
    ASSUME CoordInv, LifecycleFinish, UNCHANGED work
    PROVE  CoordInv'
<1> DEFINE rec == LifecycleRecord(lifecycle.op, lifecycle.epoch)
<1>1. /\ up /\ lifecycle.written /\ groupEpoch' = lifecycle.epoch /\ lifecycle' = NoLifecycle
      /\ acked' = NoOffsets /\ UNCHANGED <<up, mlog, logDown, joins>>
      /\ group' = IF lifecycle.op = "register" THEN NewGroup(lifecycle.epoch) ELSE NoGroup
  BY DEF LifecycleFinish
<1>2. /\ lifecycle.op \in {"register", "delete"} /\ lifecycle.epoch = groupEpoch + 1 /\ Standalone
      /\ rec \in mlog /\ groupEpoch \in Nat /\ groupEpoch' \in Nat
  BY <1>1 DEF CoordInv, CoordType, LifecycleInv, Idle, NoLifecycle
<1>3. /\ group' \in GroupType /\ group'.offs = NoOffsets /\ group'.rev = 0
      /\ DOMAIN group'.members = {}
      /\ group'.epoch = IF lifecycle.op = "register" THEN groupEpoch' ELSE 0
  BY <1>1, <1>2, EmptyGroups
<1>4. rec.epoch = groupEpoch' /\ rec.type = lifecycle.op /\ rec \in Lifecycles(mlog)
  BY <1>1, <1>2 DEF LifecycleRecord, Lifecycles
<1> HIDE DEF rec
<1>5. NoOffsets \in Offsets /\ AtMost(NoOffsets, NoOffsets)
  BY DEF NoOffsets, Offsets, None, AtMost
<1>6. CoordType'
  BY <1>1, <1>2, <1>3, <1>5 DEF CoordInv, CoordType, NoLifecycle
<1>7. MemberInv' /\ AckedInv'
  BY <1>1, <1>3, <1>5 DEF MemberInv, AckedInv, Exists
<1>8. LifecycleInv'
  BY <1>1 DEF LifecycleInv, Idle, NoLifecycle
<1>9. LogInv'
  <2>1. \A r \in Lifecycles(mlog) : r.epoch \in 1 .. groupEpoch' /\ (r.epoch = groupEpoch' => r = rec)
    BY <1>2, <1>4, <1>1 DEF CoordInv, LogInv
  <2>2. \A r \in Lifecycles(mlog') :
          /\ r.epoch \in 1 .. groupEpoch' + 1
          /\ r.epoch # groupEpoch' + 1
          /\ r.epoch = groupEpoch' => (r.type = "register" <=> Exists')
    BY <1>1, <1>2, <1>3, <1>4, <2>1 DEF Exists
  <2>3. rec \in Lifecycles(mlog') /\ rec.epoch >= groupEpoch'
    BY <1>1, <1>2, <1>4
  <2>4. \E r \in Lifecycles(mlog') : r.epoch >= groupEpoch'
    BY <2>3
  <2>5. QED
    BY <1>1, <1>2, <2>2, <2>4 DEF CoordInv, LogInv, Standalone, Does
<1>10. SnapInv'
  <2>1. \A r \in OffsetRecords(mlog') : r.epoch <= groupEpoch' /\ r.epoch # groupEpoch'
    <3>1. \A r \in OffsetRecords(mlog) : r.epoch \in Nat /\ r.epoch <= groupEpoch
      BY DEF CoordInv, CoordType, Records, OffsetRecords, SnapInv
    <3>2. QED
      BY <1>1, <1>2, <3>1
  <2>2. QED
    BY <1>3, <2>1 DEF SnapInv
<1>11. SnapsAgree(mlog')
  BY <1>1 DEF CoordInv
<1>12. QED
  BY <1>6, <1>7, <1>8, <1>9, <1>10, <1>11 DEF CoordInv

\* A deletion begins only for an empty group; in a cluster it is one entry.
LEMMA DeleteStep ==
    ASSUME CoordInv, DeleteGroup, UNCHANGED work
    PROVE  CoordInv'
<1>1. up /\ Exists /\ DOMAIN group.members = {}
  BY DEF DeleteGroup
<1>2. CASE Standalone
  BY <1>1, <1>2, BeginStep DEF DeleteGroup
<1>3. CASE ~Standalone
  <2>1. /\ group' = NoGroup /\ groupEpoch' = groupEpoch + 1 /\ acked' = NoOffsets
        /\ UNCHANGED <<up, lifecycle, mlog, logDown, joins>>
    BY <1>3 DEF DeleteGroup
  <2>2. Idle /\ mlog = {}
    BY <1>3 DEF CoordInv, LifecycleInv, LogInv
  <2>3. /\ group' \in GroupType /\ group'.offs = NoOffsets /\ group'.rev = 0
        /\ DOMAIN group'.members = {} /\ group'.epoch = 0 /\ NoOffsets \in Offsets
    BY <2>1, EmptyGroups
  <2>4. CoordType'
    BY <2>1, <2>3 DEF CoordInv, CoordType
  <2>5. MemberInv' /\ AckedInv'
    BY <2>1, <2>3 DEF MemberInv, AckedInv, Exists
  <2>6. LifecycleInv'
    BY <2>1, <2>2 DEF LifecycleInv, Idle, NoLifecycle
  <2>7. LogInv' /\ SnapInv' /\ SnapsAgree(mlog')
    BY <1>3, <2>1, <2>2, <2>3
       DEF LogInv, SnapInv, SnapsAgree, Lifecycles, OffsetRecords, Standalone, Does
  <2>8. QED
    BY <2>4, <2>5, <2>6, <2>7 DEF CoordInv
<1>4. QED
  BY <1>2, <1>3

-----------------------------------------------------------------------------
(* Offset commits.                                                         *)

PartialOffsets == UNION {[S -> Int] : S \in SUBSET Partitions}

\* A snapshot that passed the regression check is the group's with some offsets raised.
LEMMA MergedFields ==
    ASSUME CoordInv, NEW offs \in PartialOffsets, \A p \in DOMAIN offs : ~(offs[p] < group.offs[p])
    PROVE  /\ Merged(offs) \in GroupType
           /\ Merged(offs).epoch = group.epoch
           /\ Merged(offs).rev = group.rev + 1
           /\ Merged(offs).members = group.members
           /\ Merged(offs).offs = [p \in Partitions |-> IF p \in DOMAIN offs THEN offs[p] ELSE group.offs[p]]
           /\ AtMost(group.offs, Merged(offs).offs)
<1> DEFINE n == [p \in Partitions |-> IF p \in DOMAIN offs THEN offs[p] ELSE group.offs[p]]
<1>1. group \in GroupType
  BY DEF CoordInv, CoordType
<1>2. group.offs \in Offsets
  BY <1>1 DEF GroupType
<1>3. \A p \in DOMAIN offs : p \in Partitions /\ offs[p] \in Int
  BY DEF PartialOffsets
<1>4. n \in Offsets /\ AtMost(group.offs, n)
  BY <1>2, <1>3 DEF Offsets, AtMost
<1>5. group.rev + 1 \in Nat
  BY <1>1 DEF GroupType
<1>6. Merged(offs) = [group EXCEPT !.rev = group.rev + 1, !.offs = n]
  BY DEF Merged
<1> HIDE DEF n
<1>7. /\ Merged(offs) \in GroupType
  BY <1>1, <1>4, <1>5, <1>6 DEF GroupType
<1>8. /\ Merged(offs).epoch = group.epoch /\ Merged(offs).rev = group.rev + 1
      /\ Merged(offs).members = group.members /\ Merged(offs).offs = n
  BY <1>1, <1>6 DEF GroupType
<1>9. QED
  BY <1>4, <1>7, <1>8 DEF n

\* What CommitCheck establishes.
LEMMA CommitAccepted ==
    ASSUME NEW m, NEW gen, NEW offs, CommitCheck(m, gen, offs) = "OK"
    PROVE  /\ Exists /\ m \in DOMAIN group.members /\ Idle
           /\ \A p \in DOMAIN offs : ~(offs[p] < group.offs[p])
<1>1. Validate(m, gen) = "OK"
  BY DEF CommitCheck
<1>2. Exists /\ m \in DOMAIN group.members
  BY <1>1 DEF Validate
<1>3. QED
  BY <1>1, <1>2 DEF CommitCheck

\* The next snapshot reaches the log: with the offsets in memory, or in doubt and with the log down.
LEMMA SnapshotReaches ==
    ASSUME CoordInv, Standalone, up, ~logDown, Exists, NEW offs \in PartialOffsets,
           \A p \in DOMAIN offs : ~(offs[p] < group.offs[p]),
           mlog' = mlog \union {OffsetRecord(Merged(offs))},
           \/ group' = Merged(offs) /\ logDown' = logDown
           \/ group' = group /\ logDown' = TRUE,
           UNCHANGED <<work, up, groupEpoch>>
    PROVE  SnapInv' /\ SnapsAgree(mlog') /\ OffsetRecord(Merged(offs)) \in Records
           /\ Lifecycles(mlog') = Lifecycles(mlog)
<1> DEFINE rec == OffsetRecord(Merged(offs))
           new == Merged(offs)
<1>1. /\ new \in GroupType /\ new.epoch = group.epoch /\ new.rev = group.rev + 1
      /\ AtMost(group.offs, new.offs)
  BY MergedFields
<1>2. /\ group.epoch = groupEpoch /\ group.rev \in Nat /\ group.offs \in Offsets /\ groupEpoch \in Nat
  BY DEF CoordInv, CoordType, GroupType, MemberInv, Exists
<1>3. new.epoch \in Nat /\ new.rev \in Nat /\ new.offs \in Offsets
  BY <1>1 DEF GroupType
<1> HIDE DEF new
<1>4. /\ rec.type = "offsets" /\ rec.epoch = groupEpoch /\ rec.rev = group.rev + 1
      /\ rec.offs = new.offs /\ rec \in Records
  BY <1>1, <1>2, <1>3 DEF OffsetRecord, Records, new
<1> HIDE DEF rec
<1>5. mlog' = mlog \union {rec}
  BY DEF rec
<1>6. OffsetRecords(mlog') = OffsetRecords(mlog) \union {rec} /\ Lifecycles(mlog') = Lifecycles(mlog)
  BY <1>4, <1>5 DEF OffsetRecords, Lifecycles
<1>7. \A r \in OffsetRecords(mlog) :
        /\ r.epoch \in Nat /\ r.rev \in Nat /\ r.offs \in Offsets /\ r.epoch <= groupEpoch
        /\ r.epoch = groupEpoch => r.rev <= group.rev /\ AtMost(r.offs, group.offs)
  BY <1>2 DEF CoordInv, CoordType, OffsetRecords, Records, SnapInv
<1>8. \A a, b, c \in Offsets : AtMost(a, b) /\ AtMost(b, c) => AtMost(a, c)
  BY DEF AtMost, Offsets
<1>9. \A r \in OffsetRecords(mlog) : r.epoch = groupEpoch => AtMost(r.offs, new.offs)
  BY <1>1, <1>2, <1>3, <1>7, <1>8
<1>10. /\ group'.rev \in {group.rev, group.rev + 1}
       /\ group'.rev = group.rev => group' = group
       /\ group'.rev = group.rev + 1 => group' = new
       /\ group'.epoch = group.epoch
       /\ group' = group => logDown'
  BY <1>1, <1>2 DEF new
<1>11. SnapsAgree(mlog')
  <2>1. SUFFICES ASSUME NEW r \in OffsetRecords(mlog'), NEW s \in OffsetRecords(mlog'), r.epoch = s.epoch
                 PROVE  /\ r.rev = s.rev => r = s
                        /\ r.rev < s.rev => AtMost(r.offs, s.offs)
    BY DEF SnapsAgree
  <2>2. CASE r \in OffsetRecords(mlog) /\ s \in OffsetRecords(mlog)
    BY <2>1, <2>2 DEF CoordInv, SnapsAgree
  <2>3. CASE r = rec \/ s = rec
    <3>1. \A x \in OffsetRecords(mlog) : x.epoch = groupEpoch => x.rev < rec.rev /\ AtMost(x.offs, rec.offs)
      BY <1>2, <1>4, <1>7, <1>9
    <3>2. rec.rev \in Nat /\ \A x \in OffsetRecords(mlog) : x.rev \in Nat
      BY <1>2, <1>4, <1>7
    <3>3. CASE r = rec /\ s \in OffsetRecords(mlog)
      BY <1>4, <2>1, <3>1, <3>2, <3>3
    <3>4. CASE s = rec /\ r \in OffsetRecords(mlog)
      BY <1>4, <2>1, <3>1, <3>2, <3>4
    <3>5. CASE s = rec /\ r = rec
      BY <3>2, <3>5
    <3>6. QED
      BY <1>6, <2>3, <3>3, <3>4, <3>5
  <2>4. QED
    BY <1>6, <2>2, <2>3
<1>12. \A r \in OffsetRecords(mlog') : r.epoch <= groupEpoch' /\ (r.epoch = groupEpoch' => Exists')
  BY <1>2, <1>4, <1>6, <1>7, <1>10 DEF Exists
<1>13. AtMost(group.offs, group.offs) /\ AtMost(new.offs, new.offs)
  BY <1>2, <1>3 DEF AtMost, Offsets
<1>14. ASSUME NEW r \in OffsetRecords(mlog'), r.epoch = groupEpoch'
       PROVE  /\ r.rev <= group'.rev => AtMost(r.offs, group'.offs)
              /\ r.rev = group'.rev => r.offs = group'.offs
              /\ r.rev > group'.rev => /\ r.rev = group'.rev + 1 /\ AtMost(group'.offs, r.offs)
                                       /\ ~up' \/ logDown'
  <2>1. CASE group' = group /\ logDown'
    <3>1. CASE r \in OffsetRecords(mlog)
      BY <1>14, <2>1, <3>1 DEF CoordInv, SnapInv
    <3>2. CASE r = rec
      BY <1>1, <1>2, <1>4, <2>1, <3>2
    <3>3. QED
      BY <1>6, <3>1, <3>2
  <2>2. CASE group'.rev = group.rev + 1 /\ group' = new
    <3>1. CASE r \in OffsetRecords(mlog)
      <4>1. r.rev < group'.rev /\ r.rev \in Nat /\ group'.rev \in Nat
        BY <1>2, <1>7, <1>14, <2>2, <3>1
      <4>2. AtMost(r.offs, group'.offs)
        BY <1>9, <1>14, <2>2, <3>1
      <4>3. QED
        BY <4>1, <4>2
    <3>2. CASE r = rec
      BY <1>2, <1>4, <1>13, <2>2, <3>2
    <3>3. QED
      BY <1>6, <3>1, <3>2
  <2>3. QED
    BY <1>10, <2>1, <2>2
<1>15. \E r \in OffsetRecords(mlog') : r.epoch = groupEpoch' /\ r.rev >= group'.rev
  <2>1. group'.rev = group.rev \/ group'.rev = group.rev + 1
    BY <1>10
  <2>2. group.rev + 1 >= group'.rev
    BY <1>2, <2>1
  <2>3. rec \in OffsetRecords(mlog') /\ rec.epoch = groupEpoch' /\ rec.rev >= group'.rev
    BY <1>4, <1>6, <2>2
  <2>4. QED
    BY <2>3
<1>16. group'.rev = 0 => group'.offs = NoOffsets
  BY <1>2, <1>10 DEF CoordInv, SnapInv
<1>17. SnapInv'
  BY <1>12, <1>14, <1>15, <1>16 DEF SnapInv
<1>18. QED
  BY <1>4, <1>6, <1>11, <1>17 DEF rec

\* An accepted commit raises the group's offsets, after its snapshot is in a standalone log.
LEMMA CommitStep ==
    ASSUME CoordInv, up, NEW m, NEW gen, NEW offs \in PartialOffsets,
           CommitCheck(m, gen, offs) = "OK", Changes(offs) => ~logDown, CommitOffsets(offs),
           UNCHANGED <<work, up, groupEpoch, lifecycle, logDown, joins>>
    PROVE  CoordInv'
<1>1. Exists /\ Idle /\ \A p \in DOMAIN offs : ~(offs[p] < group.offs[p])
  BY CommitAccepted
<1>2. /\ group \in GroupType /\ group.offs \in Offsets /\ acked \in Offsets /\ AtMost(acked, group.offs)
      /\ mlog \in SUBSET Records
  BY <1>1 DEF CoordInv, CoordType, GroupType, AckedInv
<1>3. \A p \in DOMAIN offs : p \in Partitions /\ offs[p] \in Int
  BY DEF PartialOffsets
<1>4. /\ group' \in GroupType /\ group'.epoch = group.epoch /\ group'.members = group.members
      /\ \A p \in Partitions : group'.offs[p] = IF p \in DOMAIN offs THEN offs[p] ELSE group.offs[p]
  <2>1. CASE Changes(offs)
    <3>1. group' = Merged(offs)
      BY <2>1 DEF CommitOffsets
    <3>2. /\ Merged(offs) \in GroupType /\ Merged(offs).epoch = group.epoch
          /\ Merged(offs).members = group.members
          /\ Merged(offs).offs = [p \in Partitions |-> IF p \in DOMAIN offs THEN offs[p] ELSE group.offs[p]]
      BY <1>1, MergedFields
    <3>3. QED
      BY <3>1, <3>2
  <2>2. CASE ~Changes(offs)
    BY <1>2, <2>2 DEF CommitOffsets, Changes
  <2>3. QED
    BY <2>1, <2>2
<1>5. acked' \in Offsets /\ AtMost(acked', group'.offs)
  <2>1. acked' = [p \in Partitions |-> IF p \in DOMAIN offs THEN Max({acked[p], offs[p]}) ELSE acked[p]]
    BY DEF CommitOffsets
  <2>2. ASSUME NEW p \in Partitions
        PROVE  acked'[p] \in Int /\ acked'[p] <= group'.offs[p]
    <3>1. acked[p] \in Int /\ group.offs[p] \in Int /\ acked[p] <= group.offs[p]
      BY <1>2 DEF Offsets, AtMost
    <3>2. CASE p \in DOMAIN offs
      <4>1. acked'[p] = Max({acked[p], offs[p]}) /\ group'.offs[p] = offs[p]
        BY <1>4, <2>1, <3>2
      <4>2. offs[p] \in Int /\ offs[p] >= group.offs[p]
        BY <1>1, <1>3, <3>1, <3>2
      <4>3. QED
        BY <3>1, <4>1, <4>2, MaxOfTwo
    <3>3. CASE p \notin DOMAIN offs
      BY <1>4, <2>1, <3>1, <3>3
    <3>4. QED
      BY <3>2, <3>3
  <2>3. QED
    BY <2>1, <2>2 DEF Offsets, AtMost
<1>6. SnapInv' /\ SnapsAgree(mlog') /\ mlog' \in SUBSET Records /\ Lifecycles(mlog') = Lifecycles(mlog)
  <2>1. CASE ~Changes(offs)
    <3>1. UNCHANGED <<group, mlog>>
      BY <2>1 DEF CommitOffsets
    <3>2. QED
      BY <1>2, <3>1 DEF CoordInv, SnapInv, SnapsAgree, Exists, Standalone, Does
  <2>2. CASE Changes(offs) /\ Standalone
    <3>1. ~logDown /\ group' = Merged(offs) /\ mlog' = mlog \union {OffsetRecord(Merged(offs))}
      BY <2>2 DEF CommitOffsets, Persist
    <3>2. /\ SnapInv' /\ SnapsAgree(mlog') /\ OffsetRecord(Merged(offs)) \in Records
          /\ Lifecycles(mlog') = Lifecycles(mlog)
      BY <1>1, <2>2, <3>1, SnapshotReaches
    <3>3. QED
      BY <1>2, <3>1, <3>2
  <2>3. CASE Changes(offs) /\ ~Standalone
    <3>1. mlog' = mlog /\ mlog = {} /\ group' = Merged(offs)
      BY <2>3 DEF CommitOffsets, Persist, CoordInv, LogInv
    <3>2. group'.rev = group.rev + 1 /\ group.rev \in Nat
      BY <1>1, <1>2, <3>1, MergedFields DEF GroupType
    <3>3. QED
      BY <1>2, <2>3, <3>1, <3>2 DEF SnapInv, SnapsAgree, OffsetRecords, Standalone, Does
  <2>4. QED
    BY <2>1, <2>2, <2>3
<1>7. CoordType'
  BY <1>4, <1>5, <1>6 DEF CoordInv, CoordType
<1>8. MemberInv' /\ AckedInv'
  BY <1>1, <1>4, <1>5 DEF CoordInv, MemberInv, AckedInv, Exists
<1>9. LifecycleInv'
  BY <1>1 DEF LifecycleInv, Idle, NoLifecycle
<1>10. LogInv'
  <2>1. ~Standalone => mlog' = {}
    BY DEF CoordInv, LogInv, CommitOffsets, Persist
  <2>2. QED
    BY <1>4, <1>6, <2>1 DEF CoordInv, LogInv, Exists, Standalone, Does
<1>11. QED
  BY <1>6, <1>7, <1>8, <1>9, <1>10 DEF CoordInv

\* A commit whose write fails leaves the group as it was, and the log down.
LEMMA CommitFailsStep ==
    ASSUME CoordInv, Standalone, up, ~logDown, NEW m, NEW gen, NEW offs \in PartialOffsets,
           CommitCheck(m, gen, offs) = "OK", logDown' = TRUE,
           mlog' \in {mlog, mlog \union {OffsetRecord(Merged(offs))}},
           UNCHANGED <<work, up, group, groupEpoch, lifecycle, joins, acked>>
    PROVE  CoordInv'
<1>1. Exists /\ Idle /\ \A p \in DOMAIN offs : ~(offs[p] < group.offs[p])
  BY CommitAccepted
<1>2. SnapInv' /\ SnapsAgree(mlog') /\ mlog' \in SUBSET Records /\ Lifecycles(mlog') = Lifecycles(mlog)
  <2>1. CASE mlog' = mlog
    BY <2>1 DEF CoordInv, CoordType, SnapInv, SnapsAgree, Exists, Standalone, Does
  <2>2. CASE mlog' = mlog \union {OffsetRecord(Merged(offs))}
    BY <1>1, <2>2, SnapshotReaches DEF CoordInv, CoordType
  <2>3. QED
    BY <2>1, <2>2
<1>3. CoordType' /\ MemberInv' /\ AckedInv'
  BY <1>2 DEF CoordInv, CoordType, MemberInv, AckedInv, Exists
<1>4. LifecycleInv'
  BY <1>1 DEF LifecycleInv, Idle, NoLifecycle
<1>5. LogInv'
  BY <1>2 DEF CoordInv, LogInv, Exists, Standalone, Does
<1>6. QED
  BY <1>2, <1>3, <1>4, <1>5 DEF CoordInv

-----------------------------------------------------------------------------
(* Crash, recovery and compaction.                                         *)

\* A crash forgets the pending lifecycle operation; its record stays in doubt.
LEMMA CrashStep ==
    ASSUME CoordInv, CoordinatorCrash, UNCHANGED work
    PROVE  CoordInv'
<1>1. /\ up' = FALSE /\ lifecycle' = NoLifecycle
      /\ UNCHANGED <<group, groupEpoch, mlog, logDown, joins, acked>>
  BY DEF CoordinatorCrash
<1>2. CoordType' /\ MemberInv' /\ AckedInv'
  BY <1>1 DEF CoordInv, CoordType, MemberInv, AckedInv, Exists, NoLifecycle
<1>3. LifecycleInv'
  BY <1>1 DEF LifecycleInv, Idle, NoLifecycle
<1>4. LogInv' /\ SnapInv' /\ SnapsAgree(mlog')
  BY <1>1 DEF CoordInv, LogInv, SnapInv, SnapsAgree, Exists, Standalone, Does
<1>5. QED
  BY <1>2, <1>3, <1>4 DEF CoordInv

\* What a start makes of the log as it is: the group in memory with the same offsets or one
\* snapshot's more, or the next incarnation without any.
LEMMA MaterializeIs ==
    ASSUME CoordInv, Standalone
    PROVE  /\ MaterializedEpoch(mlog) \in {groupEpoch, groupEpoch + 1}
           /\ \A r \in Lifecycles(mlog) : r.epoch <= MaterializedEpoch(mlog)
           /\ MaterializedEpoch(mlog) # 0 => \E r \in Lifecycles(mlog) : r.epoch = MaterializedEpoch(mlog)
           /\ \A r \in Lifecycles(mlog) : r.epoch = MaterializedEpoch(mlog) =>
                  (r.type = "register" <=> Materialize(mlog).epoch # 0)
           /\ Materialize(mlog) \in GroupType
           /\ Materialize(mlog).epoch \in {0, MaterializedEpoch(mlog)}
           /\ DOMAIN Materialize(mlog).members = {}
           /\ Materialize(mlog).epoch = 0 => Materialize(mlog) = NoGroup
           /\ Materialize(mlog).rev = 0 => Materialize(mlog).offs = NoOffsets
           /\ MaterializedEpoch(mlog) = groupEpoch =>
                 /\ Exists <=> Materialize(mlog).epoch # 0
                 /\ AtMost(group.offs, Materialize(mlog).offs)
           /\ Materialize(mlog).epoch # 0 =>
                 /\ \A r \in OffsetRecords(mlog) : r.epoch = MaterializedEpoch(mlog)
                       => /\ r.rev <= Materialize(mlog).rev /\ AtMost(r.offs, Materialize(mlog).offs)
                          /\ r.rev = Materialize(mlog).rev => r.offs = Materialize(mlog).offs
                 /\ Materialize(mlog).rev > 0 =>
                       \E r \in OffsetRecords(mlog) : /\ r.epoch = MaterializedEpoch(mlog)
                                                      /\ r.rev = Materialize(mlog).rev
                                                      /\ r.offs = Materialize(mlog).offs
<1> DEFINE G == Materialize(mlog)
           E == MaterializedEpoch(mlog)
           L == Latest(mlog)
<1>1. groupEpoch \in Nat /\ group \in GroupType /\ group.offs \in Offsets /\ mlog \in SUBSET Records
      /\ NoOffsets \in Offsets /\ group.rev \in Nat
  BY EmptyGroups DEF CoordInv, CoordType, GroupType
<1>2. CASE Lifecycles(mlog) = {}
  <2>1. groupEpoch = 0 /\ E = 0 /\ G = NoGroup
    BY <1>1, <1>2 DEF CoordInv, LogInv, MaterializedEpoch, Materialize
  <2>2. ~Exists /\ group.offs = NoOffsets
    BY <2>1 DEF CoordInv, MemberInv, Exists
  <2>3. G \in GroupType /\ G.epoch = 0 /\ G.offs = NoOffsets /\ G.rev = 0 /\ DOMAIN G.members = {}
    BY <2>1, EmptyGroups
  <2>4. AtMost(group.offs, G.offs)
    BY <2>2, <2>3 DEF AtMost, NoOffsets, None
  <2> HIDE DEF G, E
  <2>5. QED
    BY <1>2, <2>1, <2>2, <2>3, <2>4 DEF G, E
<1>3. CASE Lifecycles(mlog) # {}
  <2>1. \A r \in Lifecycles(mlog) : r.epoch \in Nat /\ r.epoch <= groupEpoch + 1 /\ r.epoch # 0
    BY <1>1 DEF CoordInv, LogInv
  <2>2. L \in Lifecycles(mlog) /\ \A s \in Lifecycles(mlog) : s.epoch <= L.epoch
    BY <1>1, <1>3, <2>1, LatestIsNewest
  <2>3. E = L.epoch /\ E \in Nat /\ E # 0
    BY <1>3, <2>1, <2>2 DEF MaterializedEpoch
  <2>4. E \in {groupEpoch, groupEpoch + 1}
    <3>1. groupEpoch > 0 => E >= groupEpoch
      BY <1>1, <2>1, <2>2, <2>3 DEF CoordInv, LogInv
    <3>2. E <= groupEpoch + 1
      BY <2>1, <2>2, <2>3
    <3>3. QED
      BY <1>1, <2>3, <3>1, <3>2
  <2>5. \A r \in Lifecycles(mlog) : r.epoch = E => r = L
    BY <2>2, <2>3 DEF CoordInv, LogInv
  <2>6. L.type \in {"register", "delete"}
    BY <1>1, <2>2 DEF Lifecycles, Records
  <2>7. E = groupEpoch => (L.type = "register" <=> Exists)
    BY <2>2, <2>3 DEF CoordInv, LogInv
  <2>8. CASE L.type = "delete"
    <3>1. G = NoGroup
      BY <2>8 DEF Materialize
    <3>2. G \in GroupType /\ G.epoch = 0 /\ G.offs = NoOffsets /\ G.rev = 0 /\ DOMAIN G.members = {}
      BY <3>1, EmptyGroups
    <3>3. E = groupEpoch => ~Exists /\ AtMost(group.offs, G.offs)
      <4>1. SUFFICES ASSUME E = groupEpoch PROVE ~Exists /\ AtMost(group.offs, G.offs)
        OBVIOUS
      <4>2. ~Exists
        BY <2>7, <2>8, <4>1
      <4>3. QED
        BY <3>2, <4>2 DEF CoordInv, MemberInv, AtMost, NoOffsets, None
    <3> HIDE DEF G, E, L
    <3>4. \A r \in Lifecycles(mlog) : r.epoch = E => (r.type = "register" <=> G.epoch # 0)
      BY <2>5, <2>8, <3>2
    <3>5. (\A r \in Lifecycles(mlog) : r.epoch <= E) /\ (\E r \in Lifecycles(mlog) : r.epoch = E)
      BY <2>2, <2>3
    <3>6. QED
      BY <2>3, <2>4, <3>1, <3>2, <3>3, <3>4, <3>5 DEF G, E
  <2>9. CASE L.type = "register"
    <3> DEFINE S == Snapshots(mlog, E)
    <3>1. /\ S = {r \in OffsetRecords(mlog) : r.epoch = E}
          /\ G = IF S = {} THEN NewGroup(E)
                 ELSE LET r == CHOOSE r \in S : \A s \in S : s.rev <= r.rev
                      IN  [NewGroup(E) EXCEPT !.offs = r.offs, !.rev = r.rev]
      BY <1>3, <2>3, <2>9 DEF Snapshots, OffsetRecords, Materialize
    <3> HIDE DEF G, E, L, S
    <3>2. (\A r \in Lifecycles(mlog) : r.epoch <= E) /\ (\E r \in Lifecycles(mlog) : r.epoch = E)
      BY <2>2, <2>3
    <3>3. /\ NewGroup(E) \in GroupType /\ NewGroup(E).epoch = E /\ NewGroup(E).offs = NoOffsets
          /\ NewGroup(E).rev = 0 /\ DOMAIN NewGroup(E).members = {}
      BY <2>3, EmptyGroups
    <3>4. E = groupEpoch => Exists
      BY <2>7, <2>9
    <3>5. E = groupEpoch /\ group.rev > 0 => \E r \in S : r.rev >= group.rev
      BY <3>1 DEF CoordInv, SnapInv
    <3>6. CASE S = {}
      <4>1. G = NewGroup(E)
        BY <3>1, <3>6
      <4>2. E = groupEpoch => group.offs = NoOffsets
        BY <1>1, <3>5, <3>6 DEF CoordInv, SnapInv
      <4>3. AtMost(NoOffsets, NoOffsets)
        BY DEF AtMost, NoOffsets, None
      <4>4. \A r \in OffsetRecords(mlog) : r.epoch # E
        BY <3>1, <3>6
      <4>5. QED
        BY <2>3, <2>4, <2>5, <2>9, <3>2, <3>3, <3>4, <4>1, <4>2, <4>3, <4>4 DEF G, E
    <3>7. CASE S # {}
      <4> DEFINE n == CHOOSE r \in S : \A s \in S : s.rev <= r.rev
      <4>1. E = groupEpoch /\ Exists
        <5>1. PICK r \in OffsetRecords(mlog) : r.epoch = E
          BY <3>1, <3>7
        <5>2. r.epoch <= groupEpoch
          BY <5>1 DEF CoordInv, SnapInv
        <5>3. E = groupEpoch
          BY <1>1, <2>4, <5>1, <5>2
        <5>4. QED
          BY <3>4, <5>3
      <4>2. S \in SUBSET Records /\ group.rev + 1 \in Nat /\ \A r \in S : r.rev <= group.rev + 1
        <5>1. S \in SUBSET Records /\ \A r \in S : r.rev \in Nat
          BY <1>1, <3>1 DEF OffsetRecords, Records
        <5>2. \A r \in S : r.rev > group.rev => r.rev = group.rev + 1
          BY <3>1, <4>1 DEF CoordInv, SnapInv
        <5>3. QED
          BY <1>1, <5>1, <5>2
      <4>3. n \in S /\ \A s \in S : s.rev <= n.rev
        BY <3>7, <4>2, NewestSnapshot
      <4> HIDE DEF n
      <4>4. G = [NewGroup(E) EXCEPT !.offs = n.offs, !.rev = n.rev]
        BY <3>1, <3>7 DEF n
      <4>5. n.offs \in Offsets /\ n.rev \in Nat /\ n \in OffsetRecords(mlog) /\ n.epoch = E
        BY <3>1, <4>2, <4>3 DEF Records
      <4>6. G \in GroupType
        BY <3>3, <4>4, <4>5 DEF GroupType
      <4>7. G.epoch = E /\ G.offs = n.offs /\ G.rev = n.rev /\ G.members = NewGroup(E).members
        BY <3>3, <4>4 DEF GroupType
      <4>8. AtMost(n.offs, n.offs)
        BY <4>5 DEF AtMost, Offsets
      <4>9. \A r \in OffsetRecords(mlog) : r.epoch = E =>
              /\ r.rev <= G.rev /\ AtMost(r.offs, G.offs)
              /\ r.rev = G.rev => r.offs = G.offs
        <5>1. SUFFICES ASSUME NEW r \in OffsetRecords(mlog), r.epoch = E
                       PROVE  /\ r.rev <= G.rev /\ AtMost(r.offs, G.offs)
                              /\ r.rev = G.rev => r.offs = G.offs
          OBVIOUS
        <5>2. r \in S /\ r.rev <= n.rev /\ r.rev \in Nat
          BY <3>1, <4>2, <4>3, <5>1 DEF Records
        <5>3. r.rev = n.rev => r = n
          BY <4>5, <5>1 DEF CoordInv, SnapsAgree
        <5>4. r.rev < n.rev => AtMost(r.offs, n.offs)
          BY <4>5, <5>1 DEF CoordInv, SnapsAgree
        <5>5. QED
          BY <4>5, <4>7, <4>8, <5>2, <5>3, <5>4
      <4>10. n.rev >= group.rev
        <5>1. CASE group.rev = 0
          BY <4>5, <5>1
        <5>2. CASE group.rev # 0
          <6>1. PICK r \in S : r.rev >= group.rev
            BY <1>1, <3>5, <4>1, <5>2
          <6>2. r.rev <= n.rev /\ r.rev \in Nat
            BY <4>2, <4>3 DEF Records
          <6>3. QED
            BY <1>1, <4>5, <6>1, <6>2
        <5>3. QED
          BY <5>1, <5>2
      <4>11. /\ n.rev > group.rev => AtMost(group.offs, n.offs)
             /\ n.rev = group.rev => n.offs = group.offs
        BY <4>1, <4>5 DEF CoordInv, SnapInv
      <4>12. AtMost(group.offs, G.offs)
        BY <1>1, <4>5, <4>7, <4>8, <4>10, <4>11
      <4>13. G.rev = 0 => G.offs = NoOffsets
        <5>1. n.rev = 0 => group.rev = 0
          BY <1>1, <4>5, <4>10
        <5>2. n.rev = 0 => n.offs = NoOffsets
          BY <4>11, <5>1 DEF CoordInv, SnapInv
        <5>3. QED
          BY <4>7, <5>2
      <4>14. \E r \in OffsetRecords(mlog) : r.epoch = E /\ r.rev = G.rev /\ r.offs = G.offs
        BY <4>5, <4>7
      <4>15. \A r \in Lifecycles(mlog) : r.epoch = E => (r.type = "register" <=> G.epoch # 0)
        BY <2>3, <2>5, <2>9, <4>7
      <4>16. QED
        BY <2>3, <2>4, <3>2, <3>3, <4>1, <4>6, <4>7, <4>9, <4>12, <4>13, <4>14, <4>15 DEF G, E
    <3>8. QED
      BY <3>6, <3>7
  <2>10. QED
    BY <2>6, <2>8, <2>9
<1>4. QED
  BY <1>2, <1>3

\* The start installs what the log says; what was in doubt is decided.
LEMMA RecoverStep ==
    ASSUME CoordInv, CoordinatorRecover, UNCHANGED work
    PROVE  CoordInv'
<1>1. /\ ~up /\ up' = TRUE /\ logDown' = FALSE /\ UNCHANGED <<lifecycle, mlog, joins>>
  BY DEF CoordinatorRecover
<1>2. Idle
  BY <1>1 DEF CoordInv, LifecycleInv
<1>3. LifecycleInv'
  BY <1>1, <1>2 DEF LifecycleInv, Idle, NoLifecycle
<1>4. CASE ~Standalone
  <2>1. UNCHANGED <<group, groupEpoch, acked>> /\ mlog = {}
    BY <1>4 DEF CoordinatorRecover, CoordInv, LogInv
  <2>2. CoordType' /\ MemberInv' /\ AckedInv'
    BY <1>1, <2>1 DEF CoordInv, CoordType, MemberInv, AckedInv, Exists
  <2>3. LogInv' /\ SnapInv' /\ SnapsAgree(mlog')
    BY <1>1, <1>4, <2>1
       DEF CoordInv, LogInv, SnapInv, SnapsAgree, Lifecycles, OffsetRecords, Standalone, Does
  <2>4. QED
    BY <1>3, <2>2, <2>3 DEF CoordInv
<1>5. CASE Standalone
  <2> DEFINE G == Materialize(mlog)
             E == MaterializedEpoch(mlog)
  <2>1. /\ group' = G /\ groupEpoch' = E
        /\ acked' = IF groupEpoch' = groupEpoch THEN acked ELSE NoOffsets
    BY <1>5 DEF CoordinatorRecover
  <2>2. groupEpoch \in Nat /\ acked \in Offsets /\ group.offs \in Offsets /\ NoOffsets \in Offsets
    BY EmptyGroups DEF CoordInv, CoordType, GroupType
  <2>3. /\ E \in {groupEpoch, groupEpoch + 1}
        /\ \A r \in Lifecycles(mlog) : r.epoch <= E
        /\ E # 0 => \E r \in Lifecycles(mlog) : r.epoch = E
        /\ \A r \in Lifecycles(mlog) : r.epoch = E => (r.type = "register" <=> G.epoch # 0)
    BY <1>5, MaterializeIs
  <2>4. /\ G \in GroupType /\ G.epoch \in {0, E} /\ DOMAIN G.members = {}
        /\ G.epoch = 0 => G = NoGroup
        /\ G.rev = 0 => G.offs = NoOffsets
        /\ E = groupEpoch => (Exists <=> G.epoch # 0) /\ AtMost(group.offs, G.offs)
    BY <1>5, MaterializeIs
  <2>5. G.epoch # 0 =>
            /\ \A r \in OffsetRecords(mlog) : r.epoch = E
                  => /\ r.rev <= G.rev /\ AtMost(r.offs, G.offs)
                     /\ r.rev = G.rev => r.offs = G.offs
            /\ G.rev > 0 => \E r \in OffsetRecords(mlog) : r.epoch = E /\ r.rev = G.rev
    BY <1>5, MaterializeIs
  <2> HIDE DEF G, E
  <2>6. CoordType'
    <3>1. E \in Nat
      BY <2>2, <2>3
    <3>2. acked' \in Offsets
      BY <2>1, <2>2
    <3>3. QED
      BY <1>1, <2>1, <2>4, <3>1, <3>2 DEF CoordInv, CoordType
  <2>7. MemberInv'
    BY <1>1, <2>1, <2>4, EmptyGroups DEF CoordInv, MemberInv, Exists
  <2>8. AckedInv'
    <3>1. CASE E = groupEpoch
      <4>1. Exists' <=> Exists
        BY <2>1, <2>4, <3>1 DEF Exists
      <4>2. Exists => AtMost(acked, G.offs)
        <5>1. Exists => AtMost(acked, group.offs) /\ AtMost(group.offs, G.offs) /\ G.offs \in Offsets
          BY <2>4, <3>1 DEF CoordInv, AckedInv, GroupType
        <5>2. QED
          BY <2>2, <5>1 DEF AtMost, Offsets
      <4>3. QED
        BY <2>1, <3>1, <4>1, <4>2 DEF CoordInv, AckedInv
    <3>2. CASE E # groupEpoch
      <4>1. acked' = NoOffsets
        BY <2>1, <3>2
      <4>2. \A r \in OffsetRecords(mlog) : r.epoch # E
        <5>1. \A r \in OffsetRecords(mlog) : r.epoch \in Nat /\ r.epoch <= groupEpoch
          BY DEF CoordInv, CoordType, SnapInv, OffsetRecords, Records
        <5>2. E = groupEpoch + 1
          BY <2>3, <3>2
        <5>3. QED
          BY <2>2, <5>1, <5>2
      <4>3. G.offs = NoOffsets
        <5>1. CASE G.epoch = 0
          BY <2>4, <5>1, EmptyGroups
        <5>2. CASE G.epoch # 0
          <6>1. ~(G.rev > 0) /\ G.rev \in Nat
            BY <2>4, <2>5, <4>2, <5>2 DEF GroupType
          <6>2. QED
            BY <2>4, <6>1
        <5>3. QED
          BY <5>1, <5>2
      <4>4. AtMost(NoOffsets, NoOffsets)
        BY DEF AtMost, NoOffsets, None
      <4>5. QED
        BY <2>1, <4>1, <4>3, <4>4 DEF AckedInv
    <3>3. QED
      BY <3>1, <3>2
  <2>9. LogInv'
    <3>1. \A r \in Lifecycles(mlog) : r.epoch \in Nat /\ r.epoch >= 1
      BY <2>2 DEF CoordInv, LogInv
    <3>2. E \in Nat
      BY <2>2, <2>3
    <3>3. \A r \in Lifecycles(mlog') :
            /\ r.epoch \in 1 .. groupEpoch' + 1 /\ r.epoch # groupEpoch' + 1
            /\ r.epoch = groupEpoch' => (r.type = "register" <=> Exists')
      BY <1>1, <2>1, <2>3, <3>1, <3>2 DEF Exists
    <3>4. groupEpoch' > 0 => \E r \in Lifecycles(mlog') : r.epoch >= groupEpoch'
      BY <1>1, <2>1, <2>3, <3>2
    <3>5. QED
      BY <1>1, <1>5, <3>3, <3>4 DEF CoordInv, LogInv, Standalone, Does
  <2>10. SnapInv'
    <3>1. \A r \in OffsetRecords(mlog) : /\ r.epoch \in Nat /\ r.rev \in Nat /\ r.epoch <= groupEpoch
                                         /\ r.epoch = groupEpoch => Exists
      BY DEF CoordInv, CoordType, SnapInv, OffsetRecords, Records
    <3>2. E \in Nat /\ E >= groupEpoch
      BY <2>2, <2>3
    <3>3. \A r \in OffsetRecords(mlog) : r.epoch <= E /\ (r.epoch = E => G.epoch # 0)
      <4>1. SUFFICES ASSUME NEW r \in OffsetRecords(mlog) PROVE r.epoch <= E /\ (r.epoch = E => G.epoch # 0)
        OBVIOUS
      <4>2. r.epoch \in Nat /\ r.epoch <= groupEpoch /\ (r.epoch = groupEpoch => Exists)
        BY <3>1
      <4>3. r.epoch <= E /\ (r.epoch = E => E = groupEpoch)
        BY <2>2, <3>2, <4>2
      <4>4. QED
        BY <2>4, <4>2, <4>3
    <3>4. G.rev \in Nat
      BY <2>4 DEF GroupType
    <3>5. ASSUME NEW r \in OffsetRecords(mlog), r.epoch = E
          PROVE  /\ AtMost(r.offs, G.offs) /\ ~(r.rev > G.rev)
                 /\ r.rev = G.rev => r.offs = G.offs
      <4>1. G.epoch # 0 /\ r.rev \in Nat
        BY <3>1, <3>3, <3>5
      <4>2. r.rev <= G.rev /\ AtMost(r.offs, G.offs) /\ (r.rev = G.rev => r.offs = G.offs)
        BY <2>5, <3>5, <4>1
      <4>3. QED
        BY <3>4, <4>1, <4>2
    <3>6. G.rev > 0 => \E r \in OffsetRecords(mlog) : r.epoch = E /\ r.rev >= G.rev
      <4>1. G.rev > 0 => G.epoch # 0
        BY <2>4, EmptyGroups
      <4>2. QED
        BY <2>5, <3>4, <4>1
    <3>7. QED
      BY <1>1, <2>1, <2>4, <3>3, <3>5, <3>6 DEF SnapInv, Exists
  <2>11. SnapsAgree(mlog')
    BY <1>1 DEF CoordInv
  <2>12. QED
    BY <1>3, <2>6, <2>7, <2>8, <2>9, <2>10, <2>11 DEF CoordInv
<1>6. QED
  BY <1>4, <1>5

\* Compaction keeps the newest lifecycle record and the newest snapshot, which are all that a
\* start reads.
LEMMA CompactStep ==
    ASSUME CoordInv, CompactMetadata, UNCHANGED work
    PROVE  CoordInv'
<1> DEFINE top  == Latest(mlog)
           offs == OffsetRecords(mlog)
           last == {r \in offs : \A s \in offs : s.epoch < r.epoch \/ (s.epoch = r.epoch /\ s.rev <= r.rev)}
<1>1. /\ Standalone /\ up /\ Lifecycles(mlog) # {} /\ mlog' = {top} \union last
      /\ UNCHANGED <<up, group, groupEpoch, lifecycle, logDown, joins, acked>>
  BY DEF CompactMetadata, OffsetRecords
<1>2. groupEpoch \in Nat /\ group.rev \in Nat /\ mlog \in SUBSET Records
  BY DEF CoordInv, CoordType, GroupType
<1>3. \A r \in Lifecycles(mlog) : r.epoch \in Nat /\ r.epoch <= groupEpoch + 1
  BY <1>2 DEF CoordInv, LogInv
<1>4. top \in Lifecycles(mlog) /\ \A s \in Lifecycles(mlog) : s.epoch <= top.epoch
  BY <1>1, <1>2, <1>3, LatestIsNewest
<1> HIDE DEF top
<1>5. last \in SUBSET offs /\ offs \in SUBSET Records
  BY <1>2 DEF OffsetRecords
<1>6. Lifecycles(mlog') = {top} /\ OffsetRecords(mlog') = last
  BY <1>1, <1>4, <1>5 DEF Lifecycles, OffsetRecords
<1>7. CoordType'
  BY <1>1, <1>2, <1>4, <1>5 DEF CoordInv, CoordType, Lifecycles
<1>8. MemberInv' /\ AckedInv'
  BY <1>1 DEF CoordInv, MemberInv, AckedInv, Exists
<1>9. LifecycleInv'
  <2>1. ASSUME lifecycle.written PROVE LifecycleRecord(lifecycle.op, lifecycle.epoch) = top
    <3> DEFINE rec == LifecycleRecord(lifecycle.op, lifecycle.epoch)
    <3>1. rec \in mlog /\ lifecycle.op \in {"register", "delete"} /\ lifecycle.epoch = groupEpoch + 1
      BY <2>1 DEF CoordInv, LifecycleInv, Idle, NoLifecycle
    <3>2. rec \in Lifecycles(mlog) /\ rec.epoch = groupEpoch + 1
      BY <3>1 DEF LifecycleRecord, Lifecycles
    <3> HIDE DEF rec
    <3>3. top.epoch = rec.epoch
      BY <1>2, <1>3, <1>4, <3>2
    <3>4. QED
      BY <1>4, <3>2, <3>3 DEF CoordInv, LogInv, rec
  <2>2. lifecycle.written => LifecycleRecord(lifecycle.op, lifecycle.epoch) \in mlog'
    BY <1>1, <2>1
  <2>3. QED
    BY <1>1, <2>2 DEF CoordInv, LifecycleInv, Idle, Exists, Standalone, Does
<1>10. LogInv'
  <2>1. groupEpoch > 0 => top.epoch >= groupEpoch
    BY <1>1, <1>2, <1>3, <1>4 DEF CoordInv, LogInv
  <2>2. QED
    BY <1>1, <1>4, <1>6, <2>1 DEF CoordInv, LogInv, Exists, Standalone, Does
<1>11. SnapInv'
  <2>1. group.rev > 0 => \E r \in last : r.epoch = groupEpoch /\ r.rev >= group.rev
    <3>1. SUFFICES ASSUME group.rev > 0 PROVE \E r \in last : r.epoch = groupEpoch /\ r.rev >= group.rev
      OBVIOUS
    <3> DEFINE S == {r \in offs : r.epoch = groupEpoch}
    <3>2. PICK q \in S : q.rev >= group.rev
      BY <1>1, <3>1 DEF CoordInv, SnapInv
    <3>3. S \in SUBSET Records /\ \A r \in S : r.rev \in Nat /\ r.rev <= group.rev + 1
      <4>1. S \in SUBSET Records /\ \A r \in S : r.rev \in Nat
        BY <1>5 DEF Records
      <4>2. \A r \in S : r.rev > group.rev => r.rev = group.rev + 1
        BY DEF CoordInv, SnapInv
      <4>3. QED
        BY <1>2, <4>1, <4>2
    <3>4. PICK n \in S : \A s \in S : s.rev <= n.rev
      BY <1>2, <3>2, <3>3, NewestSnapshot
    <3>5. \A s \in offs : s.epoch \in Nat /\ s.epoch <= groupEpoch
      BY <1>5 DEF CoordInv, SnapInv, Records
    <3>6. \A s \in offs : s.epoch < n.epoch \/ (s.epoch = n.epoch /\ s.rev <= n.rev)
      BY <1>2, <3>4, <3>5
    <3>7. n \in last /\ n.epoch = groupEpoch /\ n.rev >= group.rev
      <4>1. n \in last /\ n.epoch = groupEpoch
        BY <3>4, <3>6
      <4>2. q.rev <= n.rev /\ q.rev \in Nat /\ n.rev \in Nat
        BY <3>2, <3>3, <3>4
      <4>3. QED
        BY <1>2, <3>2, <4>1, <4>2
    <3>8. QED
      BY <3>7
  <2>2. QED
    BY <1>1, <1>5, <1>6, <2>1 DEF CoordInv, SnapInv, Exists, Standalone, Does
<1>12. SnapsAgree(mlog')
  BY <1>5, <1>6 DEF CoordInv, SnapsAgree
<1>13. QED
  BY <1>7, <1>8, <1>9, <1>10, <1>11, <1>12 DEF CoordInv

-----------------------------------------------------------------------------
(* What the invariant means.                                               *)

\* Live assignments partition the topic.
LEMMA CoordCovers ==
    ASSUME CoordInv PROVE AssignmentsCover
  BY DEF CoordInv, MemberInv, AssignmentsCover, Covers

\* Acknowledged offsets are in memory and in what a start would find.
LEMMA CoordDurable ==
    ASSUME CoordInv PROVE AckedCommitsDurable
<1>1. \A p \in Partitions : up /\ Exists => acked[p] <= group.offs[p]
  BY DEF CoordInv, AckedInv, AtMost
<1>2. ASSUME NEW p \in Partitions, Standalone, acked[p] # None, MaterializedEpoch(mlog) = groupEpoch
      PROVE  acked[p] <= Materialize(mlog).offs[p]
  <2>1. Exists
    BY <1>2 DEF CoordInv, AckedInv, NoOffsets
  <2>2. acked[p] <= group.offs[p] /\ group.offs \in Offsets /\ acked \in Offsets
    BY <2>1 DEF CoordInv, AckedInv, AtMost, CoordType, GroupType
  <2>3. group.offs[p] <= Materialize(mlog).offs[p] /\ Materialize(mlog).offs \in Offsets
    BY <1>2, MaterializeIs DEF AtMost, GroupType
  <2>4. QED
    BY <2>2, <2>3 DEF Offsets
<1>3. QED
  BY <1>1, <1>2 DEF AckedCommitsDurable
=============================================================================
