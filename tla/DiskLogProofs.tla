---------------------------- MODULE DiskLogProofs ----------------------------
(***************************************************************************)
(* The files of a partition, for any segment, batch and channel size and   *)
(* any number of records, crashes and failed writes: every segment can be  *)
(* read and recovered, what was acknowledged survives, reads meet no hole  *)
(* and maintenance leaves a reader's segment alone.                        *)
(*                                                                         *)
(* The lemmas of the first part are about what one file operation does to  *)
(* the segments f, their synced lengths y and the compacted ones m; those  *)
(* of the second part about the actions.                                   *)
(***************************************************************************)
EXTENDS DiskLogWorkloads, FiniteSetTheorems, WellFoundedInduction, TLAPS

-----------------------------------------------------------------------------
(* Extremal elements and pairs.                                            *)

\* A set of naturals that is not empty has a least element.
LEMMA LeastNat ==
    ASSUME NEW T \in SUBSET Nat, T # {}
    PROVE  \E x \in T : \A y \in T : x <= y
<1>1. PICK x \in T : \A y \in T : ~(<<y, x>> \in OpToRel(<, Nat))
  BY NatLessThanWellFounded, WFMin
<1>2. \A y \in T : ~(y < x)
  BY <1>1 DEF OpToRel
<1>3. QED
  BY <1>2

\* A bounded set of naturals that is not empty has a greatest element.
LEMMA GreatestNat ==
    ASSUME NEW S \in SUBSET Nat, S # {}, NEW b \in Nat, \A s \in S : s <= b
    PROVE  \E x \in S : \A y \in S : y <= x
<1> DEFINE T == {n \in Nat : \A s \in S : s <= n}
<1>1. PICK n \in T : \A k \in T : n <= k
  <2>1. T \in SUBSET Nat /\ b \in T
    OBVIOUS
  <2>2. QED
    BY <2>1, LeastNat
<1>2. n \in Nat /\ \A s \in S : s <= n
  BY <1>1
<1>3. n \in S
  <2>1. SUFFICES ASSUME n \notin S PROVE FALSE
    OBVIOUS
  <2>2. \A s \in S : s <= n - 1 /\ n - 1 \in Nat
    BY <1>2, <2>1
  <2>3. n - 1 \in T
    BY <2>2
  <2>4. QED
    BY <1>1, <1>2, <2>3
<1>4. QED
  BY <1>2, <1>3

\* Max chooses the greatest element.
LEMMA MaxIs ==
    ASSUME NEW S \in SUBSET Nat, NEW x \in S, \A y \in S : y <= x
    PROVE  Max(S) = x
<1>1. \A z \in S : (\A y \in S : z >= y) => z = x
  OBVIOUS
<1>2. QED
  BY <1>1 DEF Max

\* Min chooses the least element.
LEMMA MinIs ==
    ASSUME NEW S \in SUBSET Nat, NEW x \in S, \A y \in S : x <= y
    PROVE  Min(S) = x
<1>1. \A z \in S : (\A y \in S : z <= y) => z = x
  OBVIOUS
<1>2. QED
  BY <1>1 DEF Min

\* The two-element uses.
LEMMA PairExtrema ==
    ASSUME NEW a \in Nat, NEW b \in Nat
    PROVE  /\ Max({a, b}) = IF a <= b THEN b ELSE a
           /\ Min({a, b}) = IF a <= b THEN a ELSE b
<1>1. {a, b} \in SUBSET Nat
  OBVIOUS
<1>2. CASE a <= b
  <2>1. a \in {a, b} /\ b \in {a, b} /\ \A y \in {a, b} : y <= b /\ a <= y
    BY <1>2
  <2>2. QED
    BY <1>1, <1>2, <2>1, MaxIs, MinIs
<1>3. CASE ~(a <= b)
  <2>1. a \in {a, b} /\ b \in {a, b} /\ \A y \in {a, b} : y <= a /\ b <= y
    BY <1>3
  <2>2. QED
    BY <1>1, <1>3, <2>1, MaxIs, MinIs
<1>4. QED
  BY <1>2, <1>3

-----------------------------------------------------------------------------
(* Segments.                                                               *)

Entries == [off : Nat, key : {k.key : k \in Kinds}, prod : {k.prod : k \in Kinds}]

IsLast(f, e)   == e \in DOMAIN f /\ \A b \in DOMAIN f : b <= e
\* b is the segment in which offset o is looked up.
Holds(f, b, o) == b \in DOMAIN f /\ b <= o /\ \A c \in DOMAIN f : c <= o => c <= b

Rising(s)   == \A i, j \in 1 .. Len(s) : i < j => s[i].off < s[j].off
Dense(s, b) == \A i \in 1 .. Len(s) : s[i].off = b + i - 1

Shape(f, y, m) ==
    /\ DOMAIN f \in SUBSET Nat /\ f \in [DOMAIN f -> Seq(Entries)]
    /\ y \in [DOMAIN f -> Nat] /\ m \in SUBSET DOMAIN f
\* Everything but the last segment is synced.
Sized(f, y) ==
    \A b \in DOMAIN f : y[b] <= Len(f[b]) /\ (IsLast(f, b) \/ y[b] = Len(f[b]))
Ordered(f, m) == \A b \in DOMAIN f : Rising(f[b]) /\ (b \in m \/ Dense(f[b], b))
Apart(f) ==
    \A b \in DOMAIN f : \A i \in 1 .. Len(f[b]) :
        b <= f[b][i].off /\ \A c \in DOMAIN f : b < c => f[b][i].off < c
Ended(f, m) == \E e \in DOMAIN f : IsLast(f, e) /\ e \notin m

FilesOk(f, y, m) == Shape(f, y, m) /\ Sized(f, y) /\ Ordered(f, m) /\ Apart(f) /\ Ended(f, m)

\* No offset is missing before the last segment; none is missing below x.
Whole(f, m) ==
    \A b \in DOMAIN f : \A o \in Nat :
        Holds(f, b, o) /\ ~IsLast(f, b) => b \in m \/ o < b + Len(f[b])
Covers(f, m, x) ==
    \A b \in DOMAIN f : \A o \in Nat :
        Holds(f, b, o) /\ o < x => b \in m \/ o < b + Len(f[b])

\* Records past any crash, and those among them that no truncation may touch.
Stored(f, y, r)  == \E b \in DOMAIN f : \E i \in 1 .. y[b] : f[b][i] = r
Safe(f, y, L, r) == Stored(f, y, r) /\ r.off \in L

Gone(f, r) == \A b \in DOMAIN f : r.off < b
Replaced(f, y, m, L, r) ==
    /\ r.key # None /\ \E b \in m : Holds(f, b, r.off)
    /\ \E s \in Entries : Safe(f, y, L, s) /\ s.key = r.key /\ s.off > r.off
Anchored(f, y, L, r) ==
    r.prod = None \/ \E s \in Entries : Safe(f, y, L, s) /\ s.prod = r.prod /\ s.off >= r.off

\* What became of an acknowledged record.
Kept(f, y, m, L, r) ==
    Gone(f, r) \/ (Stored(f, y, r) /\ Anchored(f, y, L, r))
               \/ (Replaced(f, y, m, L, r) /\ Anchored(f, y, L, r))
Survive(f, y, m, A, L) == \A r \in A : r \in Entries /\ r.off \in L /\ Kept(f, y, m, L, r)

\* Records are entries.
LEMMA RecordEntry ==
    ASSUME NEW o \in Nat, NEW k \in Kinds
    PROVE  Record(o, k) \in Entries /\ Record(o, k).off = o
BY DEF Record, Entries

\* A segment's records and their offsets.
LEMMA SegmentEntry ==
    ASSUME NEW f, NEW y, NEW m, Shape(f, y, m), NEW b \in DOMAIN f
    PROVE  /\ b \in Nat /\ f[b] \in Seq(Entries) /\ Len(f[b]) \in Nat /\ y[b] \in Nat
           /\ \A i \in 1 .. Len(f[b]) : f[b][i] \in Entries /\ f[b][i].off \in Nat
<1>1. b \in Nat /\ f[b] \in Seq(Entries) /\ Len(f[b]) \in Nat /\ y[b] \in Nat
  BY DEF Shape
<1>2. \A i \in 1 .. Len(f[b]) : f[b][i] \in Entries
  BY <1>1
<1>3. QED
  BY <1>1, <1>2 DEF Entries

\* There is one last segment.
LEMMA LastIsUnique ==
    ASSUME NEW f, NEW y, NEW m, Shape(f, y, m), NEW e, IsLast(f, e), NEW b, IsLast(f, b)
    PROVE  b = e
BY DEF Shape, IsLast

\* What is stored in a segment is looked up in it.
LEMMA StoredWhere ==
    ASSUME NEW f, NEW y, NEW m, FilesOk(f, y, m), NEW b \in DOMAIN f, NEW i \in 1 .. Len(f[b])
    PROVE  Holds(f, b, f[b][i].off)
<1>1. b \in Nat /\ f[b][i].off \in Nat
  BY SegmentEntry DEF FilesOk
<1>2. b <= f[b][i].off /\ \A c \in DOMAIN f : b < c => f[b][i].off < c
  BY DEF FilesOk, Apart
<1>3. DOMAIN f \in SUBSET Nat
  BY DEF FilesOk, Shape
<1>4. QED
  BY <1>1, <1>2, <1>3 DEF Holds

\* The lookup is a function.
LEMMA HoldsOne ==
    ASSUME NEW f, NEW y, NEW m, Shape(f, y, m), NEW o, NEW b, Holds(f, b, o), NEW c, Holds(f, c, o)
    PROVE  b = c
BY DEF Shape, Holds

\* An acknowledged record survives an operation that keeps the safe records, adds segments only
\* behind them and removes none below the first.
LEMMA SurviveKept ==
    ASSUME NEW f, NEW y, NEW m, NEW A, NEW L, Survive(f, y, m, A, L),
           NEW g, NEW z, NEW n,
           \A r \in Entries : Safe(f, y, L, r) => Safe(g, z, L, r),
           \A r \in Entries : Gone(f, r) => Gone(g, r),
           \A b \in m : \A r, s \in Entries :
               Holds(f, b, r.off) /\ Safe(f, y, L, s) /\ r.off < s.off => b \in n /\ Holds(g, b, r.off)
    PROVE  Survive(g, z, n, A, L)
<1>1. SUFFICES ASSUME NEW r \in A PROVE r \in Entries /\ r.off \in L /\ Kept(g, z, n, L, r)
  BY DEF Survive
<1>2. r \in Entries /\ r.off \in L /\ Kept(f, y, m, L, r)
  BY DEF Survive
<1>3. Anchored(f, y, L, r) => Anchored(g, z, L, r)
  BY <1>2 DEF Anchored
<1>4. Stored(f, y, r) => Stored(g, z, r)
  BY <1>2 DEF Safe
<1>5. Replaced(f, y, m, L, r) => Replaced(g, z, n, L, r)
  BY <1>2 DEF Replaced
<1>6. QED
  BY <1>2, <1>3, <1>4, <1>5 DEF Kept

\* In particular one that only adds to the segments and behind them.
Grows(f, y, m, g, z, n) ==
    /\ DOMAIN f \subseteq DOMAIN g /\ m \subseteq n
    /\ \A b \in DOMAIN f : y[b] <= z[b] /\ \A i \in 1 .. y[b] : g[b][i] = f[b][i]
    /\ \A c \in DOMAIN g \ DOMAIN f : \A b \in DOMAIN f :
          b < c /\ \A i \in 1 .. Len(f[b]) : f[b][i].off < c

\* Acknowledged records survive growth.
LEMMA GrowthKeeps ==
    ASSUME NEW f, NEW y, NEW m, NEW A, NEW L, FilesOk(f, y, m), Survive(f, y, m, A, L),
           NEW g, NEW z, NEW n, Shape(g, z, n), Grows(f, y, m, g, z, n)
    PROVE  Survive(g, z, n, A, L)
<1>1. ASSUME NEW r \in Entries, Safe(f, y, L, r) PROVE Safe(g, z, L, r)
  <2>1. PICK b \in DOMAIN f : \E i \in 1 .. y[b] : f[b][i] = r
    BY <1>1 DEF Safe, Stored
  <2>2. PICK i \in 1 .. y[b] : f[b][i] = r
    BY <2>1
  <2>3. b \in DOMAIN g /\ y[b] <= z[b] /\ g[b][i] = r
    BY <2>2 DEF Grows
  <2>4. y[b] \in Nat /\ z[b] \in Nat
    BY <2>3 DEF FilesOk, Shape
  <2>5. QED
    BY <1>1, <2>2, <2>3, <2>4 DEF Safe, Stored
<1>2. PICK e \in DOMAIN f : IsLast(f, e)
  BY DEF FilesOk, Ended
<1>3. DOMAIN f \in SUBSET Nat /\ DOMAIN g \in SUBSET Nat
  BY DEF FilesOk, Shape
<1>4. ASSUME NEW r \in Entries, Gone(f, r) PROVE Gone(g, r)
  <2>1. SUFFICES ASSUME NEW b \in DOMAIN g PROVE r.off < b
    BY DEF Gone
  <2>2. CASE b \in DOMAIN f
    BY <1>4, <2>2 DEF Gone
  <2>3. CASE b \notin DOMAIN f
    BY <1>2, <1>3, <1>4, <2>3 DEF Gone, Grows, Entries
  <2>4. QED
    BY <2>2, <2>3
<1>5. ASSUME NEW b \in m, NEW r \in Entries, NEW s \in Entries, Holds(f, b, r.off), Safe(f, y, L, s),
             r.off < s.off
      PROVE  b \in n /\ Holds(g, b, r.off)
  <2>1. PICK d \in DOMAIN f : \E i \in 1 .. y[d] : f[d][i] = s
    BY <1>5 DEF Safe, Stored
  <2>2. PICK i \in 1 .. y[d] : f[d][i] = s
    BY <2>1
  <2>3. i \in 1 .. Len(f[d])
    BY <2>2, SegmentEntry DEF FilesOk, Sized
  <2>4. \A c \in DOMAIN g \ DOMAIN f : s.off < c
    BY <2>2, <2>3 DEF Grows
  <2>5. b \in n /\ b \in DOMAIN g
    BY <1>5 DEF Grows, Holds
  <2>6. \A c \in DOMAIN g : c <= r.off => c <= b
    BY <1>3, <1>5, <2>4 DEF Holds, Entries
  <2>7. QED
    BY <1>5, <2>5, <2>6 DEF Holds
<1>6. QED
  BY <1>1, <1>4, <1>5, SurviveKept

\* rotateSegment at the tail.
Rolled(f, y, e, next, g, z) ==
    /\ g = [b \in DOMAIN f \cup {next} |-> IF b \in DOMAIN f THEN f[b] ELSE <<>>]
    /\ z = [b \in DOMAIN f \cup {next} |->
              IF b = e THEN Len(f[b]) ELSE IF b \in DOMAIN f THEN y[b] ELSE 0]

\* A roll at the end of the active segment keeps the files well formed and complete.
LEMMA RotateKeeps ==
    ASSUME NEW f, NEW y, NEW m, FilesOk(f, y, m), NEW e, IsLast(f, e), e \notin m, f[e] # <<>>,
           NEW next, next = e + Len(f[e]),
           NEW g, NEW z, Rolled(f, y, e, next, g, z)
    PROVE  /\ FilesOk(g, z, m) /\ IsLast(g, next) /\ next \notin m /\ next > e /\ next \in Nat
           /\ g[next] = <<>> /\ z[next] = 0 /\ Grows(f, y, m, g, z, m)
           /\ Whole(f, m) => Whole(g, m)
           /\ \A x \in Nat : Covers(f, m, x) /\ x <= next => Covers(g, m, x)
<1> USE DEF Rolled
<1>1. e \in Nat /\ f[e] \in Seq(Entries) /\ Len(f[e]) \in Nat \ {0} /\ e \in DOMAIN f
  BY SegmentEntry DEF FilesOk, IsLast
<1>2. next \in Nat /\ next > e /\ next \notin DOMAIN f /\ DOMAIN g = DOMAIN f \cup {next}
  BY <1>1 DEF IsLast
<1>3. g[next] = <<>> /\ z[next] = 0 /\ \A b \in DOMAIN f : g[b] = f[b]
  BY <1>1, <1>2
<1>4. Shape(g, z, m) /\ m \in SUBSET DOMAIN f /\ DOMAIN f \in SUBSET Nat
  <2>1. \A b \in DOMAIN f : b \in Nat /\ f[b] \in Seq(Entries) /\ Len(f[b]) \in Nat /\ y[b] \in Nat
    BY SegmentEntry DEF FilesOk
  <2>2. m \in SUBSET DOMAIN f /\ DOMAIN f \in SUBSET Nat
    BY DEF FilesOk, Shape
  <2>3. g \in [DOMAIN g -> Seq(Entries)] /\ z \in [DOMAIN g -> Nat]
    BY <1>2, <2>1
  <2>4. QED
    BY <1>2, <2>2, <2>3 DEF Shape
<1>5. IsLast(g, next) /\ next \notin m
  BY <1>2, <1>4 DEF IsLast
<1>6. \A b \in DOMAIN f : \A i \in 1 .. Len(f[b]) : f[b][i].off < next
  <2>1. SUFFICES ASSUME NEW b \in DOMAIN f, NEW i \in 1 .. Len(f[b]) PROVE f[b][i].off < next
    OBVIOUS
  <2>2. b \in Nat /\ f[b][i].off \in Nat
    BY SegmentEntry DEF FilesOk
  <2>3. CASE b = e
    <3>1. f[e][i].off = e + i - 1
      BY <1>1, <2>3 DEF FilesOk, Ordered, Dense
    <3>2. QED
      BY <1>1, <2>3, <3>1
  <2>4. CASE b # e
    <3>1. b < e
      BY <1>1, <2>2, <2>4 DEF IsLast
    <3>2. f[b][i].off < e
      BY <1>1, <3>1 DEF FilesOk, Apart
    <3>3. QED
      BY <1>1, <1>2, <2>2, <3>2
  <2>5. QED
    BY <2>3, <2>4
<1>7. Sized(g, z)
  <2>1. SUFFICES ASSUME NEW b \in DOMAIN g
                 PROVE  z[b] <= Len(g[b]) /\ (IsLast(g, b) \/ z[b] = Len(g[b]))
    BY DEF Sized
  <2>2. CASE b = next
    BY <1>3, <1>5, <2>2
  <2>3. CASE b = e
    BY <1>1, <1>2, <1>3, <2>3
  <2>4. CASE b \in DOMAIN f /\ b # e
    <3>1. ~IsLast(f, b)
      BY <2>4, LastIsUnique DEF FilesOk
    <3>2. y[b] = Len(f[b]) /\ z[b] = y[b] /\ Len(f[b]) \in Nat
      BY <1>2, <2>4, <3>1, SegmentEntry DEF FilesOk, Sized
    <3>3. QED
      BY <1>3, <2>4, <3>2
  <2>5. QED
    BY <1>2, <2>2, <2>3, <2>4
<1>8. Ordered(g, m)
  <2>1. \A b \in DOMAIN f : Rising(g[b]) /\ (b \in m \/ Dense(g[b], b))
    BY <1>3 DEF FilesOk, Ordered
  <2>2. Rising(g[next]) /\ Dense(g[next], next)
    BY <1>3 DEF Rising, Dense
  <2>3. QED
    BY <1>2, <2>1, <2>2 DEF Ordered
<1>9. Apart(g)
  <2>1. SUFFICES ASSUME NEW b \in DOMAIN g, NEW i \in 1 .. Len(g[b])
                 PROVE  b <= g[b][i].off /\ \A c \in DOMAIN g : b < c => g[b][i].off < c
    BY DEF Apart
  <2>2. b \in DOMAIN f /\ g[b] = f[b]
    BY <1>2, <1>3
  <2>3. QED
    BY <1>2, <1>6, <2>2 DEF FilesOk, Apart
<1>10. FilesOk(g, z, m)
  BY <1>4, <1>5, <1>7, <1>8, <1>9 DEF FilesOk, Ended, IsLast
<1>11. Grows(f, y, m, g, z, m)
  <2>1. ASSUME NEW b \in DOMAIN f PROVE y[b] <= z[b]
    <3>1. y[b] \in Nat /\ Len(f[b]) \in Nat /\ y[b] <= Len(f[b])
      BY SegmentEntry DEF FilesOk, Sized
    <3>2. z[b] \in {Len(f[b]), y[b]}
      BY <1>2
    <3>3. QED
      BY <3>1, <3>2
  <2>2. \A b \in DOMAIN f : b < next
    BY <1>2, <1>4 DEF IsLast
  <2>3. QED
    BY <1>2, <1>3, <1>6, <2>1, <2>2 DEF Grows
<1>12. ASSUME NEW b \in DOMAIN f, NEW o \in Nat, Holds(g, b, o)
       PROVE  Holds(f, b, o) /\ (IsLast(f, b) => o < b + Len(f[b])) /\ g[b] = f[b]
  <2>1. Holds(f, b, o)
    BY <1>2, <1>12 DEF Holds
  <2>2. o < next
    <3>1. next <= o => next <= b
      BY <1>2, <1>12 DEF Holds
    <3>2. QED
      BY <1>2, <1>4, <3>1 DEF IsLast
  <2>3. IsLast(f, b) => b = e
    BY LastIsUnique DEF FilesOk
  <2>4. QED
    BY <1>3, <2>1, <2>2, <2>3
<1>13. ASSUME Whole(f, m) PROVE Whole(g, m)
  <2>1. SUFFICES ASSUME NEW b \in DOMAIN g, NEW o \in Nat, Holds(g, b, o), ~IsLast(g, b)
                 PROVE  b \in m \/ o < b + Len(g[b])
    BY DEF Whole
  <2>2. b \in DOMAIN f
    BY <1>2, <1>5, <2>1
  <2>3. QED
    BY <1>12, <1>13, <2>1, <2>2 DEF Whole
<1>14. ASSUME NEW x \in Nat, Covers(f, m, x), x <= next PROVE Covers(g, m, x)
  <2>1. SUFFICES ASSUME NEW b \in DOMAIN g, NEW o \in Nat, Holds(g, b, o), o < x
                 PROVE  b \in m \/ o < b + Len(g[b])
    BY DEF Covers
  <2>2. b # next
    BY <1>2, <1>14, <2>1 DEF Holds
  <2>3. b \in DOMAIN f
    BY <1>2, <2>2
  <2>4. QED
    BY <1>12, <1>14, <2>1, <2>3 DEF Covers
<1>15. QED
  BY <1>2, <1>3, <1>5, <1>10, <1>11, <1>13, <1>14

\* The files with the records s in segment e, k of them synced.
Put(f, y, e, s, k, g, z) ==
    /\ DOMAIN g = DOMAIN f /\ DOMAIN z = DOMAIN f /\ g = [b \in DOMAIN g |-> g[b]] /\ z = [b \in DOMAIN z |-> z[b]]
    /\ g[e] = s /\ z[e] = k /\ \A b \in DOMAIN f : b # e => g[b] = f[b] /\ z[b] = y[b]

\* An assignment to one segment.
LEMMA PutIs ==
    ASSUME NEW f, NEW y, NEW m, Shape(f, y, m), NEW e \in DOMAIN f, NEW s, NEW k
    PROVE  Put(f, y, e, s, k, [f EXCEPT ![e] = s], [y EXCEPT ![e] = k])
BY DEF Put, Shape

\* The last segment gets other records: an append, a cut, a sync.
LEMMA LastReplaced ==
    ASSUME NEW f, NEW y, NEW m, FilesOk(f, y, m), NEW e, IsLast(f, e), e \notin m,
           NEW s \in Seq(Entries), Dense(s, e), NEW k \in Nat, k <= Len(s),
           NEW g, NEW z, Put(f, y, e, s, k, g, z)
    PROVE  /\ FilesOk(g, z, m) /\ IsLast(g, e) /\ g[e] = s /\ z[e] = k /\ DOMAIN g = DOMAIN f
           /\ Whole(f, m) => Whole(g, m)
           /\ \A x \in Nat : Covers(f, m, x) /\ (x <= e + Len(s) \/ Len(f[e]) <= Len(s)) => Covers(g, m, x)
           /\ y[e] <= k /\ (\A i \in 1 .. y[e] : s[i] = f[e][i]) => Grows(f, y, m, g, z, m)
<1>1. e \in Nat /\ f[e] \in Seq(Entries) /\ Len(f[e]) \in Nat /\ e \in DOMAIN f /\ Len(s) \in Nat
  BY SegmentEntry DEF FilesOk, IsLast
<1>2. DOMAIN f \in SUBSET Nat /\ f \in [DOMAIN f -> Seq(Entries)] /\ y \in [DOMAIN f -> Nat]
      /\ m \in SUBSET DOMAIN f
  BY DEF FilesOk, Shape
<1>3. DOMAIN g = DOMAIN f /\ g[e] = s /\ z[e] = k /\ \A b \in DOMAIN f : b # e => g[b] = f[b] /\ z[b] = y[b]
  BY DEF Put
<1>4. Shape(g, z, m)
  <2>1. \A b \in DOMAIN f : g[b] \in Seq(Entries) /\ z[b] \in Nat
    BY <1>2, <1>3
  <2>2. g \in [DOMAIN g -> Seq(Entries)] /\ z \in [DOMAIN g -> Nat]
    BY <2>1 DEF Put
  <2>3. QED
    BY <1>2, <1>3, <2>2 DEF Shape
<1>5. \A b \in DOMAIN f : IsLast(g, b) <=> IsLast(f, b)
  BY <1>3 DEF IsLast
<1>6. \A b, o : Holds(g, b, o) <=> Holds(f, b, o)
  BY <1>3 DEF Holds
<1>7. Sized(g, z)
  <2>1. SUFFICES ASSUME NEW b \in DOMAIN f
                 PROVE  z[b] <= Len(g[b]) /\ (IsLast(g, b) \/ z[b] = Len(g[b]))
    BY <1>3 DEF Sized
  <2>2. CASE b = e
    BY <1>1, <1>3, <1>5, <2>2
  <2>3. CASE b # e
    BY <1>3, <1>5, <2>3 DEF FilesOk, Sized
  <2>4. QED
    BY <2>2, <2>3
<1>8. Ordered(g, m)
  <2>1. Rising(s)
    BY <1>1 DEF Dense, Rising
  <2>2. SUFFICES ASSUME NEW b \in DOMAIN f PROVE Rising(g[b]) /\ (b \in m \/ Dense(g[b], b))
    BY <1>3 DEF Ordered
  <2>3. CASE b = e
    BY <1>3, <2>1, <2>3
  <2>4. CASE b # e
    BY <1>3, <2>4 DEF FilesOk, Ordered
  <2>5. QED
    BY <2>3, <2>4
<1>9. Apart(g)
  <2>1. SUFFICES ASSUME NEW b \in DOMAIN f, NEW i \in 1 .. Len(g[b])
                 PROVE  b <= g[b][i].off /\ \A c \in DOMAIN f : b < c => g[b][i].off < c
    BY <1>3 DEF Apart
  <2>2. CASE b = e
    <3>1. s[i].off = e + i - 1 /\ i \in 1 .. Len(s)
      BY <1>3, <2>2 DEF Dense
    <3>2. \A c \in DOMAIN f : c \in Nat /\ c <= e
      BY <1>2 DEF IsLast
    <3>3. \A c \in DOMAIN f : ~(e < c)
      BY <1>1, <3>2
    <3>4. QED
      BY <1>1, <1>3, <2>2, <3>1, <3>3
  <2>3. CASE b # e
    BY <1>3, <2>3 DEF FilesOk, Apart
  <2>4. QED
    BY <2>2, <2>3
<1>10. FilesOk(g, z, m) /\ IsLast(g, e)
  BY <1>1, <1>3, <1>4, <1>5, <1>7, <1>8, <1>9 DEF FilesOk, Ended
<1>11. ASSUME Whole(f, m) PROVE Whole(g, m)
  <2>1. SUFFICES ASSUME NEW b \in DOMAIN f, NEW o \in Nat, Holds(f, b, o), ~IsLast(f, b)
                 PROVE  b \in m \/ o < b + Len(g[b])
    BY <1>3, <1>5, <1>6 DEF Whole
  <2>2. g[b] = f[b]
    BY <1>3, <2>1
  <2>3. QED
    BY <1>11, <2>1, <2>2 DEF Whole
<1>12. ASSUME NEW x \in Nat, Covers(f, m, x), x <= e + Len(s) \/ Len(f[e]) <= Len(s) PROVE Covers(g, m, x)
  <2>1. SUFFICES ASSUME NEW b \in DOMAIN f, NEW o \in Nat, Holds(f, b, o), o < x
                 PROVE  b \in m \/ o < b + Len(g[b])
    BY <1>3, <1>6 DEF Covers
  <2>2. b \in m \/ o < b + Len(f[b])
    BY <1>12, <2>1 DEF Covers
  <2>3. CASE b = e
    BY <1>1, <1>3, <1>12, <2>1, <2>2, <2>3
  <2>4. CASE b # e
    BY <1>3, <2>2, <2>4
  <2>5. QED
    BY <2>3, <2>4
<1>13. ASSUME y[e] <= k, \A i \in 1 .. y[e] : s[i] = f[e][i] PROVE Grows(f, y, m, g, z, m)
  <2>1. \A b \in DOMAIN f : y[b] <= z[b] /\ \A i \in 1 .. y[b] : g[b][i] = f[b][i]
    <3>1. SUFFICES ASSUME NEW b \in DOMAIN f PROVE y[b] <= z[b] /\ \A i \in 1 .. y[b] : g[b][i] = f[b][i]
      OBVIOUS
    <3>2. CASE b = e
      BY <1>3, <1>13, <3>2
    <3>3. CASE b # e
      BY <1>2, <1>3, <3>3
    <3>4. QED
      BY <3>2, <3>3
  <2>2. QED
    BY <1>3, <2>1 DEF Grows
<1>14. QED
  BY <1>3, <1>10, <1>11, <1>12, <1>13

\* A dense run behind a dense segment makes a dense segment.
LEMMA DenseConcat ==
    ASSUME NEW s \in Seq(Entries), NEW t \in Seq(Entries), NEW b \in Nat, Dense(s, b), Dense(t, b + Len(s))
    PROVE  /\ s \o t \in Seq(Entries) /\ Len(s \o t) = Len(s) + Len(t) /\ Dense(s \o t, b)
           /\ \A i \in 1 .. Len(s) : (s \o t)[i] = s[i]
<1>1. Len(s) \in Nat /\ Len(t) \in Nat /\ s \o t \in Seq(Entries) /\ Len(s \o t) = Len(s) + Len(t)
  OBVIOUS
<1>2. \A i \in 1 .. Len(s) + Len(t) : (s \o t)[i] = IF i <= Len(s) THEN s[i] ELSE t[i - Len(s)]
  OBVIOUS
<1>3. ASSUME NEW i \in 1 .. Len(s) + Len(t) PROVE (s \o t)[i].off = b + i - 1
  <2>1. CASE i <= Len(s)
    BY <1>1, <1>2, <2>1 DEF Dense
  <2>2. CASE i > Len(s)
    <3>1. i - Len(s) \in 1 .. Len(t)
      BY <1>1, <2>2
    <3>2. t[i - Len(s)].off = (b + Len(s)) + (i - Len(s)) - 1
      BY <3>1 DEF Dense
    <3>3. QED
      BY <1>1, <1>2, <2>2, <3>2
  <2>3. QED
    BY <1>1, <2>1, <2>2
<1>4. QED
  BY <1>1, <1>2, <1>3 DEF Dense

\* A prefix of a dense segment.
LEMMA DensePrefix ==
    ASSUME NEW s \in Seq(Entries), NEW b \in Nat, Dense(s, b), NEW n \in Nat, n <= Len(s)
    PROVE  /\ SubSeq(s, 1, n) \in Seq(Entries) /\ Len(SubSeq(s, 1, n)) = n /\ Dense(SubSeq(s, 1, n), b)
           /\ \A i \in 1 .. n : SubSeq(s, 1, n)[i] = s[i]
<1>1. Len(s) \in Nat
  OBVIOUS
<1>2. SubSeq(s, 1, n) \in Seq(Entries) /\ Len(SubSeq(s, 1, n)) = n
  BY <1>1
<1>3. \A i \in 1 .. n : SubSeq(s, 1, n)[i] = s[i]
  BY <1>1
<1>4. Dense(SubSeq(s, 1, n), b)
  BY <1>1, <1>2, <1>3 DEF Dense
<1>5. QED
  BY <1>2, <1>3, <1>4

\* Recovery: everything that is found is synced.
LEMMA AllSynced ==
    ASSUME NEW f, NEW y, NEW m, FilesOk(f, y, m), NEW z, z = [b \in DOMAIN f |-> Len(f[b])]
    PROVE  FilesOk(f, z, m) /\ Grows(f, y, m, f, z, m)
<1>1. \A b \in DOMAIN f : Len(f[b]) \in Nat /\ y[b] \in Nat /\ y[b] <= Len(f[b])
  BY SegmentEntry DEF FilesOk, Sized
<1>2. z \in [DOMAIN f -> Nat] /\ \A b \in DOMAIN f : z[b] = Len(f[b])
  BY <1>1
<1>3. Shape(f, z, m) /\ Sized(f, z)
  BY <1>1, <1>2 DEF FilesOk, Shape, Sized
<1>4. QED
  BY <1>1, <1>2, <1>3 DEF FilesOk, Grows

\* A compacted range in place of the empty last segment, with an empty segment behind it.
Ranged(f, y, e, to, s, g, z) ==
    /\ g = [b \in DOMAIN f \cup {e, to} |-> IF b = e THEN s ELSE IF b = to THEN <<>> ELSE f[b]]
    /\ z = [b \in DOMAIN g |-> IF b = e THEN Len(s) ELSE IF b \in DOMAIN f THEN y[b] ELSE 0]

\* The files stay well formed when a range is installed behind them.
LEMMA RangeKeeps ==
    ASSUME NEW f, NEW y, NEW m, FilesOk(f, y, m), NEW e, IsLast(f, e), e \notin m, f[e] = <<>>, y[e] = 0,
           NEW to \in Nat, e < to, NEW s \in Seq(Entries), Rising(s),
           \A i \in 1 .. Len(s) : e <= s[i].off /\ s[i].off < to,
           NEW g, NEW z, Ranged(f, y, e, to, s, g, z)
    PROVE  /\ FilesOk(g, z, m \cup {e}) /\ IsLast(g, to) /\ to \notin m \cup {e} /\ g[to] = <<>> /\ z[to] = 0
           /\ Grows(f, y, m, g, z, m \cup {e}) /\ DOMAIN g = DOMAIN f \cup {to}
           /\ Whole(f, m) => Whole(g, m \cup {e})
           /\ \A x \in Nat : Covers(f, m, x) /\ x <= e => Covers(g, m \cup {e}, x)
<1> USE DEF Ranged
<1>1. e \in Nat /\ e \in DOMAIN f /\ Len(s) \in Nat /\ Len(f[e]) = 0
  BY SegmentEntry DEF FilesOk, IsLast
<1>2. DOMAIN f \in SUBSET Nat /\ f \in [DOMAIN f -> Seq(Entries)] /\ y \in [DOMAIN f -> Nat]
      /\ m \in SUBSET DOMAIN f
  BY DEF FilesOk, Shape
<1>3. DOMAIN g = DOMAIN f \cup {to} /\ to \notin DOMAIN f /\ DOMAIN z = DOMAIN g
  BY <1>1, <1>2 DEF IsLast
<1>4. /\ g[e] = s /\ z[e] = Len(s) /\ g[to] = <<>> /\ z[to] = 0 /\ to # e
      /\ \A b \in DOMAIN f : b # e => g[b] = f[b] /\ z[b] = y[b]
  BY <1>1, <1>3
<1>5. Shape(g, z, m \cup {e})
  <2>1. \A b \in DOMAIN g : g[b] \in Seq(Entries) /\ z[b] \in Nat
    BY <1>1, <1>2, <1>3, <1>4
  <2>2. g \in [DOMAIN g -> Seq(Entries)] /\ z \in [DOMAIN g -> Nat]
    BY <1>3, <2>1
  <2>3. QED
    BY <1>1, <1>2, <1>3, <2>2 DEF Shape
<1>6. IsLast(g, to) /\ to \notin m \cup {e} /\ \A b \in DOMAIN f : b < to
  BY <1>1, <1>2, <1>3 DEF IsLast
<1>7. Sized(g, z)
  <2>1. SUFFICES ASSUME NEW b \in DOMAIN g
                 PROVE  z[b] <= Len(g[b]) /\ (IsLast(g, b) \/ z[b] = Len(g[b]))
    BY DEF Sized
  <2>2. CASE b = to
    BY <1>4, <1>6, <2>2
  <2>3. CASE b = e
    BY <1>1, <1>4, <2>3
  <2>4. CASE b \in DOMAIN f /\ b # e
    <3>1. ~IsLast(f, b)
      BY <2>4, LastIsUnique DEF FilesOk
    <3>2. y[b] = Len(f[b]) /\ Len(f[b]) \in Nat
      BY <2>4, <3>1, SegmentEntry DEF FilesOk, Sized
    <3>3. QED
      BY <1>4, <2>4, <3>2
  <2>5. QED
    BY <1>3, <2>2, <2>3, <2>4
<1>8. Ordered(g, m \cup {e})
  <2>1. Rising(<<>>) /\ Dense(<<>>, to)
    BY DEF Rising, Dense
  <2>2. SUFFICES ASSUME NEW b \in DOMAIN g PROVE Rising(g[b]) /\ (b \in m \cup {e} \/ Dense(g[b], b))
    BY DEF Ordered
  <2>3. CASE b = to
    BY <1>4, <2>1, <2>3
  <2>4. CASE b = e
    BY <1>4, <2>4
  <2>5. CASE b \in DOMAIN f /\ b # e
    BY <1>4, <2>5 DEF FilesOk, Ordered
  <2>6. QED
    BY <1>3, <2>3, <2>4, <2>5
<1>9. \A b \in DOMAIN f : b # e => \A i \in 1 .. Len(f[b]) : f[b][i].off < e /\ f[b][i].off \in Nat
  <2>1. SUFFICES ASSUME NEW b \in DOMAIN f, b # e, NEW i \in 1 .. Len(f[b])
                 PROVE  f[b][i].off < e /\ f[b][i].off \in Nat
    OBVIOUS
  <2>2. b < e
    BY <1>1, <1>2, <2>1 DEF IsLast
  <2>3. QED
    BY <1>1, <2>1, <2>2, SegmentEntry DEF FilesOk, Apart
<1>10. Apart(g)
  <2>1. SUFFICES ASSUME NEW b \in DOMAIN g, NEW i \in 1 .. Len(g[b])
                 PROVE  b <= g[b][i].off /\ \A c \in DOMAIN g : b < c => g[b][i].off < c
    BY DEF Apart
  <2>2. CASE b = to
    BY <1>4, <2>2
  <2>3. CASE b = e
    <3>1. e <= s[i].off /\ s[i].off < to
      BY <1>4, <2>3
    <3>2. \A c \in DOMAIN f : ~(e < c)
      BY <1>1, <1>2 DEF IsLast
    <3>3. QED
      BY <1>3, <1>4, <2>3, <3>1, <3>2
  <2>4. CASE b \in DOMAIN f /\ b # e
    <3>1. b <= f[b][i].off /\ (\A c \in DOMAIN f : b < c => f[b][i].off < c) /\ f[b][i].off < e
      BY <1>4, <1>9, <2>4 DEF FilesOk, Apart
    <3>2. f[b][i].off < to
      BY <1>1, <1>4, <1>9, <2>4
    <3>3. QED
      BY <1>3, <1>4, <2>4, <3>1, <3>2
  <2>5. QED
    BY <1>3, <2>2, <2>3, <2>4
<1>11. FilesOk(g, z, m \cup {e})
  BY <1>3, <1>5, <1>6, <1>7, <1>8, <1>10 DEF FilesOk, Ended
<1>12. Grows(f, y, m, g, z, m \cup {e})
  <2>1. \A b \in DOMAIN f : y[b] <= z[b] /\ \A i \in 1 .. y[b] : g[b][i] = f[b][i]
    BY <1>1, <1>2, <1>4
  <2>2. \A b \in DOMAIN f : b < to /\ \A i \in 1 .. Len(f[b]) : f[b][i].off < to
    <3>1. SUFFICES ASSUME NEW b \in DOMAIN f, NEW i \in 1 .. Len(f[b]) PROVE f[b][i].off < to
      BY <1>6
    <3>2. b # e
      BY <1>1
    <3>3. QED
      BY <1>1, <1>9, <3>1, <3>2
  <2>3. QED
    BY <1>3, <2>1, <2>2 DEF Grows
<1>13. ASSUME NEW b \in DOMAIN f, NEW o \in Nat, Holds(g, b, o) PROVE Holds(f, b, o)
  BY <1>3, <1>13 DEF Holds
<1>14. ASSUME Whole(f, m) PROVE Whole(g, m \cup {e})
  <2>1. SUFFICES ASSUME NEW b \in DOMAIN g, NEW o \in Nat, Holds(g, b, o), ~IsLast(g, b), b # e
                 PROVE  b \in m \/ o < b + Len(g[b])
    BY DEF Whole
  <2>2. b \in DOMAIN f /\ g[b] = f[b] /\ ~IsLast(f, b)
    BY <1>3, <1>4, <1>6, <2>1, LastIsUnique DEF FilesOk
  <2>3. QED
    BY <1>13, <1>14, <2>1, <2>2 DEF Whole
<1>15. ASSUME NEW x \in Nat, Covers(f, m, x), x <= e PROVE Covers(g, m \cup {e}, x)
  <2>1. SUFFICES ASSUME NEW b \in DOMAIN g, NEW o \in Nat, Holds(g, b, o), o < x, b # e
                 PROVE  b \in m \/ o < b + Len(g[b])
    BY DEF Covers
  <2>2. b # to
    BY <1>1, <1>15, <2>1 DEF Holds
  <2>3. b \in DOMAIN f /\ g[b] = f[b]
    BY <1>3, <1>4, <2>1, <2>2
  <2>4. QED
    BY <1>13, <1>15, <2>1, <2>3 DEF Covers
<1>16. QED
  BY <1>3, <1>4, <1>6, <1>11, <1>12, <1>14, <1>15

\* Segments are removed: the others are as they were.
Cut(f, y, m, K, g, z, n) == g = [b \in K |-> f[b]] /\ z = [b \in K |-> y[b]] /\ n = m \cap K

\* What is left of well-formed files is well formed when its last segment is not compacted.
LEMMA Restricted ==
    ASSUME NEW f, NEW y, NEW m, FilesOk(f, y, m), NEW K \in SUBSET DOMAIN f,
           NEW e \in K, e \notin m, \A b \in K : b <= e,
           NEW g, NEW z, NEW n, Cut(f, y, m, K, g, z, n)
    PROVE  FilesOk(g, z, n) /\ IsLast(g, e) /\ DOMAIN g = K /\ \A b \in K : g[b] = f[b] /\ z[b] = y[b]
<1> USE DEF Cut
<1>1. DOMAIN f \in SUBSET Nat /\ f \in [DOMAIN f -> Seq(Entries)] /\ y \in [DOMAIN f -> Nat]
      /\ m \in SUBSET DOMAIN f
  BY DEF FilesOk, Shape
<1>2. DOMAIN g = K /\ DOMAIN z = K /\ \A b \in K : g[b] = f[b] /\ z[b] = y[b]
  OBVIOUS
<1>3. Shape(g, z, n)
  BY <1>1, <1>2 DEF Shape
<1>4. IsLast(g, e) /\ Ended(g, n)
  BY <1>2 DEF IsLast, Ended
<1>5. Sized(g, z)
  <2>1. SUFFICES ASSUME NEW b \in K PROVE z[b] <= Len(g[b]) /\ (IsLast(g, b) \/ z[b] = Len(g[b]))
    BY <1>2 DEF Sized
  <2>2. IsLast(f, b) => IsLast(g, b)
    BY <1>2 DEF IsLast
  <2>3. QED
    BY <1>2, <2>2 DEF FilesOk, Sized
<1>6. Ordered(g, n)
  BY <1>2 DEF FilesOk, Ordered
<1>7. Apart(g)
  BY <1>2 DEF FilesOk, Apart
<1>8. QED
  BY <1>2, <1>3, <1>4, <1>5, <1>6, <1>7 DEF FilesOk

\* Where a stored record is.
LEMMA StoredIn ==
    ASSUME NEW f, NEW y, NEW m, FilesOk(f, y, m), NEW r, Stored(f, y, r)
    PROVE  /\ \E b \in DOMAIN f : Holds(f, b, r.off) /\ \E i \in 1 .. y[b] : f[b][i] = r
           /\ r \in Entries /\ r.off \in Nat
<1>1. PICK b \in DOMAIN f : \E i \in 1 .. y[b] : f[b][i] = r
  BY DEF Stored
<1>2. PICK i \in 1 .. y[b] : f[b][i] = r
  BY <1>1
<1>3. i \in 1 .. Len(f[b])
  BY SegmentEntry, <1>2 DEF FilesOk, Sized
<1>4. Holds(f, b, r.off)
  BY <1>2, <1>3, StoredWhere
<1>5. r \in Entries /\ r.off \in Nat
  BY <1>2, <1>3, SegmentEntry DEF FilesOk
<1>6. QED
  BY <1>1, <1>4, <1>5

\* EnforceRetention: the oldest segments go.
Behind(f, x, K) == K \in SUBSET DOMAIN f /\ \A b \in DOMAIN f : b \in K <=> b > x

\* Acknowledged records survive retention or are older than the first segment.
LEMMA RetentionKeeps ==
    ASSUME NEW f, NEW y, NEW m, NEW A, NEW L, FilesOk(f, y, m), Survive(f, y, m, A, L),
           NEW e, IsLast(f, e), e \notin m, NEW x \in Nat, x < e,
           NEW K, Behind(f, x, K),
           NEW g, NEW z, NEW n, Cut(f, y, m, K, g, z, n)
    PROVE  /\ FilesOk(g, z, n) /\ IsLast(g, e) /\ g[e] = f[e] /\ z[e] = y[e] /\ Survive(g, z, n, A, L)
           /\ \A b \in K : g[b] = f[b] /\ z[b] = y[b]
           /\ Whole(f, m) => Whole(g, n)
           /\ \A q \in Nat : Covers(f, m, q) => Covers(g, n, q)
<1> USE DEF Behind
<1>1. DOMAIN f \in SUBSET Nat /\ m \in SUBSET DOMAIN f
  BY DEF FilesOk, Shape
<1>2. K \in SUBSET DOMAIN f /\ e \in K /\ \A b \in K : b <= e
  BY DEF IsLast
<1>3. FilesOk(g, z, n) /\ IsLast(g, e) /\ DOMAIN g = K /\ \A b \in K : g[b] = f[b] /\ z[b] = y[b]
  BY <1>2, Restricted
<1>4. \A b \in K : \A o \in Nat : Holds(g, b, o) <=> Holds(f, b, o)
  <2>1. SUFFICES ASSUME NEW b \in K, NEW o \in Nat PROVE Holds(g, b, o) <=> Holds(f, b, o)
    OBVIOUS
  <2>2. \A c \in DOMAIN f : c \notin K => c <= b
    BY <1>1
  <2>3. QED
    BY <1>2, <1>3, <2>2 DEF Holds
<1>5. \A b \in K : IsLast(g, b) <=> IsLast(f, b)
  BY <1>3, LastIsUnique DEF FilesOk
<1>6. Whole(f, m) => Whole(g, n)
  <2>1. SUFFICES ASSUME Whole(f, m), NEW b \in K, NEW o \in Nat, Holds(g, b, o), ~IsLast(g, b)
                 PROVE  b \in n \/ o < b + Len(g[b])
    BY <1>3 DEF Whole
  <2>2. QED
    BY <1>2, <1>3, <1>4, <1>5, <2>1 DEF Cut, Whole
<1>7. \A q \in Nat : Covers(f, m, q) => Covers(g, n, q)
  <2>1. SUFFICES ASSUME NEW q \in Nat, Covers(f, m, q), NEW b \in K, NEW o \in Nat, Holds(g, b, o), o < q
                 PROVE  b \in n \/ o < b + Len(g[b])
    BY <1>3 DEF Covers
  <2>2. QED
    BY <1>2, <1>3, <1>4, <2>1 DEF Cut, Covers
<1>8. \* A safe record behind the removed ones stays.
      ASSUME NEW b \in K, NEW o \in Nat, b <= o, NEW s \in Entries, Safe(f, y, L, s), o <= s.off
      PROVE  Safe(g, z, L, s)
  <2>1. PICK c \in DOMAIN f : Holds(f, c, s.off) /\ \E i \in 1 .. y[c] : f[c][i] = s
    BY <1>8, StoredIn DEF Safe
  <2>2. b <= c
    BY <1>1, <1>2, <1>8, <2>1 DEF Holds, Entries
  <2>3. c \in K
    BY <1>1, <1>2, <2>1, <2>2
  <2>4. QED
    BY <1>3, <1>8, <2>1, <2>3 DEF Safe, Stored
<1>9. ASSUME NEW b \in DOMAIN f, b \notin K, NEW r \in Entries, Holds(f, b, r.off) PROVE Gone(g, r)
  <2>1. SUFFICES ASSUME NEW c \in K PROVE r.off < c
    BY <1>3 DEF Gone
  <2>2. b < c
    BY <1>1, <1>9
  <2>3. QED
    BY <1>1, <1>2, <1>9, <2>2 DEF Holds, Entries
<1>10. Survive(g, z, n, A, L)
  <2>1. SUFFICES ASSUME NEW r \in A PROVE r \in Entries /\ r.off \in L /\ Kept(g, z, n, L, r)
    BY DEF Survive
  <2>2. r \in Entries /\ r.off \in L /\ Kept(f, y, m, L, r) /\ r.off \in Nat
    BY DEF Survive, Entries
  <2>3. CASE Gone(f, r)
    <3>1. Gone(g, r)
      BY <1>2, <1>3, <2>3 DEF Gone
    <3>2. QED
      BY <2>2, <3>1 DEF Kept
  <2>4. ASSUME NEW b \in K, b <= r.off, Anchored(f, y, L, r) PROVE Anchored(g, z, L, r)
    BY <1>8, <2>2, <2>4 DEF Anchored
  <2>5. CASE Stored(f, y, r) /\ Anchored(f, y, L, r)
    <3>1. PICK b \in DOMAIN f : Holds(f, b, r.off) /\ \E i \in 1 .. y[b] : f[b][i] = r
      BY <2>5, StoredIn
    <3>2. CASE b \in K
      <4>1. Stored(g, z, r)
        BY <1>3, <3>1, <3>2 DEF Stored
      <4>2. QED
        BY <2>2, <2>4, <2>5, <3>1, <3>2, <4>1 DEF Kept, Holds
    <3>3. CASE b \notin K
      BY <1>9, <2>2, <3>1, <3>3 DEF Kept
    <3>4. QED
      BY <3>2, <3>3
  <2>6. CASE Replaced(f, y, m, L, r) /\ Anchored(f, y, L, r)
    <3>1. PICK b \in m : Holds(f, b, r.off)
      BY <2>6 DEF Replaced
    <3>2. CASE b \in K
      <4>1. b \in n /\ Holds(g, b, r.off) /\ b <= r.off
        BY <1>4, <2>2, <3>1, <3>2 DEF Cut, Holds
      <4>2. PICK s \in Entries : Safe(f, y, L, s) /\ s.key = r.key /\ s.off > r.off
        BY <2>6 DEF Replaced
      <4>3. s.off \in Nat /\ r.off <= s.off
        BY <2>2, <4>2 DEF Entries
      <4>4. Safe(g, z, L, s)
        BY <1>8, <2>2, <3>2, <4>1, <4>2, <4>3
      <4>5. QED
        BY <2>2, <2>4, <2>6, <3>2, <4>1, <4>2, <4>4 DEF Kept, Replaced
    <3>3. CASE b \notin K
      BY <1>1, <1>9, <2>2, <3>1, <3>3 DEF Kept
    <3>4. QED
      BY <3>2, <3>3
  <2>7. QED
    BY <2>2, <2>3, <2>5, <2>6 DEF Kept
<1>11. QED
  BY <1>2, <1>3, <1>6, <1>7, <1>10

\* TruncateTo removes the segment next to the target's.
AllBut(f, x, K) == K \in SUBSET DOMAIN f /\ \A b \in DOMAIN f : b \in K <=> b # x

\* The removal loses nothing below the watermark lim, which falls into segment t.
LEMMA RemovalKeeps ==
    ASSUME NEW f, NEW y, NEW m, NEW A, NEW lim \in Nat, FilesOk(f, y, m),
           Survive(f, y, m, A, 0 .. lim - 1), NEW t, Holds(f, t, lim), t \notin m, Covers(f, m, lim),
           NEW x \in DOMAIN f, x > t, \A b \in DOMAIN f : b > t => x <= b,
           NEW K, AllBut(f, x, K),
           NEW g, NEW z, NEW n, Cut(f, y, m, K, g, z, n)
    PROVE  /\ FilesOk(g, z, n) /\ Survive(g, z, n, A, 0 .. lim - 1) /\ Covers(g, n, lim)
           /\ Holds(g, t, lim) /\ t \notin n
           /\ (\A e \in DOMAIN f : IsLast(f, e) => lim <= e + y[e])
                 => \A e \in DOMAIN g : IsLast(g, e) => lim <= e + z[e]
<1> USE DEF AllBut
<1>1. DOMAIN f \in SUBSET Nat /\ m \in SUBSET DOMAIN f
  BY DEF FilesOk, Shape
<1>2. t \in Nat /\ t \in K /\ K \in SUBSET DOMAIN f /\ x \in Nat
  BY <1>1 DEF Holds
<1>3. PICK e \in K : e \notin m /\ (\A b \in K : b <= e) /\ (e = t \/ IsLast(f, e))
  <2>1. PICK d \in DOMAIN f : IsLast(f, d) /\ d \notin m
    BY DEF FilesOk, Ended
  <2>2. CASE d = x
    <3>1. \A b \in K : b <= t
      BY <1>1, <1>2, <2>1, <2>2 DEF IsLast
    <3>2. QED
      BY <1>2, <3>1
  <2>3. CASE d # x
    BY <2>1, <2>3 DEF IsLast
  <2>4. QED
    BY <2>2, <2>3
<1>4. FilesOk(g, z, n) /\ IsLast(g, e) /\ DOMAIN g = K /\ \A b \in K : g[b] = f[b] /\ z[b] = y[b]
  <2>1. e \in K /\ e \notin m /\ \A b \in K : b <= e
    BY <1>3
  <2>2. QED
    BY <1>2, <2>1, Restricted
<1>5. x > lim
  BY <1>1, <1>2 DEF Holds
<1>6. \A b \in K : \A o \in Nat : o <= lim => (Holds(g, b, o) <=> Holds(f, b, o))
  <2>1. SUFFICES ASSUME NEW b \in K, NEW o \in Nat, o <= lim PROVE Holds(g, b, o) <=> Holds(f, b, o)
    OBVIOUS
  <2>2. ~(x <= o)
    BY <1>2, <1>5, <2>1
  <2>3. QED
    BY <1>2, <1>4, <2>2 DEF Holds
<1>7. Covers(g, n, lim)
  <2>1. SUFFICES ASSUME NEW b \in K, NEW o \in Nat, Holds(g, b, o), o < lim
                 PROVE  b \in n \/ o < b + Len(g[b])
    BY <1>4 DEF Covers
  <2>2. Holds(f, b, o)
    BY <1>6, <2>1
  <2>3. b \in m \/ o < b + Len(f[b])
    BY <1>2, <2>1, <2>2 DEF Covers
  <2>4. QED
    BY <1>4, <2>1, <2>3 DEF Cut
<1>8. ASSUME NEW r \in Entries, Safe(f, y, 0 .. lim - 1, r) PROVE Safe(g, z, 0 .. lim - 1, r)
  <2>1. PICK b \in DOMAIN f : Holds(f, b, r.off) /\ \E i \in 1 .. y[b] : f[b][i] = r
    BY <1>8, StoredIn DEF Safe
  <2>2. b # x
    BY <1>1, <1>5, <1>8, <2>1 DEF Holds, Safe
  <2>3. QED
    BY <1>4, <1>8, <2>1, <2>2 DEF Safe, Stored
<1>9. \A r \in Entries : Gone(f, r) => Gone(g, r)
  BY <1>2, <1>4 DEF Gone
<1>10. ASSUME NEW b \in m, NEW r \in Entries, NEW s \in Entries, Holds(f, b, r.off),
              Safe(f, y, 0 .. lim - 1, s), r.off < s.off
       PROVE  b \in n /\ Holds(g, b, r.off)
  <2>1. r.off \in Nat /\ r.off <= lim
    BY <1>10 DEF Entries, Safe
  <2>2. b # x
    BY <1>1, <1>2, <1>5, <1>10, <2>1 DEF Holds
  <2>3. QED
    BY <1>1, <1>6, <1>10, <2>1, <2>2 DEF Cut
<1>11. Survive(g, z, n, A, 0 .. lim - 1)
  BY <1>8, <1>9, <1>10, SurviveKept
<1>12. ASSUME \A d \in DOMAIN f : IsLast(f, d) => lim <= d + y[d], NEW d \in DOMAIN g, IsLast(g, d)
       PROVE  lim <= d + z[d]
  <2>1. d = e
    BY <1>4, <1>12, LastIsUnique DEF FilesOk
  <2>2. CASE IsLast(f, e)
    BY <1>3, <1>4, <1>12, <2>1, <2>2
  <2>3. CASE e = t /\ ~IsLast(f, t)
    <3>1. y[t] = Len(f[t]) /\ Len(f[t]) \in Nat /\ z[t] = y[t]
      BY <1>2, <1>4, <2>3, SegmentEntry DEF FilesOk, Sized
    <3>2. CASE lim = t
      BY <1>2, <2>1, <2>3, <3>1, <3>2
    <3>3. CASE lim # t
      <4>1. lim - 1 \in Nat /\ Holds(f, t, lim - 1)
        BY <1>1, <1>2, <3>3 DEF Holds
      <4>2. lim - 1 < t + Len(f[t])
        BY <1>2, <4>1 DEF Covers
      <4>3. QED
        BY <1>2, <2>1, <2>3, <3>1, <4>2
    <3>4. QED
      BY <3>2, <3>3
  <2>4. QED
    BY <1>3, <2>2, <2>3
<1>13. Holds(g, t, lim) /\ t \notin n
  BY <1>2, <1>6 DEF Cut
<1>14. QED
  BY <1>4, <1>7, <1>11, <1>12, <1>13

-----------------------------------------------------------------------------
(* Compaction.                                                             *)

\* Without takes the records in turn.
LEMMA WithoutRun ==
    ASSUME NEW s, Len(s) \in Nat, NEW D
    PROVE  \E k : /\ k[0] = <<>>
                  /\ \A n \in 1 .. Len(s) : k[n] = IF s[n].off \in D THEN k[n - 1] ELSE Append(k[n - 1], s[n])
                  /\ Without(s, D) = k[Len(s)]
<1> DEFINE Step(v, n) == IF s[n].off \in D THEN v ELSE Append(v, s[n])
           Upto(k, f) == f = [n \in 0 .. k |-> IF n = 0 THEN <<>> ELSE Step(f[n - 1], n)]
           T == {k \in Nat : ~\E f : Upto(k, f)}
<1> HIDE DEF Step
<1>1. \E f : Upto(0, f)
  <2>1. Upto(0, [n \in 0 .. 0 |-> <<>>])
    OBVIOUS
  <2>2. QED
    BY <2>1
<1>2. ASSUME NEW k \in Nat, NEW f, Upto(k, f) PROVE \E g : Upto(k + 1, g)
  <2> DEFINE g == [n \in 0 .. k + 1 |-> IF n = k + 1 THEN Step(f[k], k + 1) ELSE f[n]]
  <2>1. \A n \in 0 .. k + 1 : g[n] = IF n = 0 THEN <<>> ELSE Step(g[n - 1], n)
    BY <1>2
  <2>2. Upto(k + 1, g)
    BY <2>1
  <2>3. QED
    BY <2>2
<1> HIDE DEF Upto
<1>3. T = {}
  <2>1. SUFFICES ASSUME T # {} PROVE FALSE
    OBVIOUS
  <2>2. PICK k \in T : \A j \in T : k <= j
    BY <2>1, LeastNat
  <2>3. k # 0
    BY <1>1, <2>2
  <2>4. k - 1 \in Nat /\ k - 1 \notin T
    BY <2>2, <2>3
  <2>5. \E g : Upto((k - 1) + 1, g)
    BY <1>2, <2>4
  <2>6. QED
    BY <2>2, <2>4, <2>5
<1>4. \E f : Upto(Len(s), f)
  BY <1>3
<1> DEFINE kept == CHOOSE f : Upto(Len(s), f)
<1>5. Upto(Len(s), kept)
  BY <1>4
<1>6. Without(s, D) = kept[Len(s)]
  BY DEF Without, Upto, Step
<1>7. kept[0] = <<>> /\ \A n \in 1 .. Len(s) :
                            kept[n] = IF s[n].off \in D THEN kept[n - 1] ELSE Append(kept[n - 1], s[n])
  <2> HIDE DEF kept
  <2>1. \A n \in 0 .. Len(s) : kept[n] = IF n = 0 THEN <<>> ELSE Step(kept[n - 1], n)
    BY <1>5 DEF Upto
  <2>2. QED
    BY <2>1 DEF Step
<1>8. QED
  BY <1>6, <1>7

\* w holds the records of the first n that are not dropped, in order.
Remains(s, D, n, w) ==
    /\ w \in Seq(Entries) /\ Rising(w)
    /\ \A i \in 1 .. Len(w) : \E j \in 1 .. n : w[i] = s[j] /\ s[j].off \notin D
    /\ \A j \in 1 .. n : s[j].off \notin D => \E i \in 1 .. Len(w) : w[i] = s[j]

\* One record more.
LEMMA OneMore ==
    ASSUME NEW s \in Seq(Entries), Rising(s), NEW D, NEW n \in 1 .. Len(s), NEW w, Remains(s, D, n - 1, w)
    PROVE  Remains(s, D, n, IF s[n].off \in D THEN w ELSE Append(w, s[n]))
<1>1. w \in Seq(Entries) /\ Len(w) \in Nat /\ Len(s) \in Nat /\ s[n] \in Entries
  BY DEF Remains
<1>2. CASE s[n].off \in D
  <2>1. \A j \in 1 .. n : s[j].off \notin D => j \in 1 .. n - 1
    BY <1>1, <1>2
  <2>2. Remains(s, D, n, w)
    BY <1>1, <2>1 DEF Remains
  <2>3. QED
    BY <1>2, <2>2
<1>3. CASE s[n].off \notin D
  <2> DEFINE v == Append(w, s[n])
  <2>1. v \in Seq(Entries) /\ Len(v) = Len(w) + 1 /\ v[Len(w) + 1] = s[n] /\ \A i \in 1 .. Len(w) : v[i] = w[i]
    BY <1>1
  <2> HIDE DEF v
  <2>2. Rising(v)
    <3>1. SUFFICES ASSUME NEW i \in 1 .. Len(v), NEW j \in 1 .. Len(v), i < j PROVE v[i].off < v[j].off
      BY DEF Rising
    <3>2. CASE j <= Len(w)
      <4>1. i \in 1 .. Len(w) /\ j \in 1 .. Len(w)
        BY <1>1, <2>1, <3>1, <3>2
      <4>2. w[i].off < w[j].off
        BY <3>1, <4>1 DEF Remains, Rising
      <4>3. QED
        BY <2>1, <4>1, <4>2
    <3>3. CASE j > Len(w)
      <4>1. j = Len(w) + 1 /\ i \in 1 .. Len(w)
        BY <1>1, <2>1, <3>1, <3>3
      <4>2. PICK q \in 1 .. n - 1 : w[i] = s[q]
        BY <4>1 DEF Remains
      <4>3. s[q].off < s[n].off
        <5>1. q \in 1 .. Len(s) /\ q < n
          BY <1>1
        <5>2. QED
          BY <5>1 DEF Rising
      <4>4. QED
        BY <2>1, <4>1, <4>2, <4>3
    <3>4. QED
      BY <1>1, <2>1, <3>2, <3>3
  <2>3. ASSUME NEW i \in 1 .. Len(v) PROVE \E j \in 1 .. n : v[i] = s[j] /\ s[j].off \notin D
    <3>1. CASE i <= Len(w)
      <4>1. PICK j \in 1 .. n - 1 : w[i] = s[j] /\ s[j].off \notin D
        BY <1>1, <2>1, <3>1 DEF Remains
      <4>2. j \in 1 .. n /\ v[i] = s[j]
        BY <1>1, <2>1, <3>1, <4>1
      <4>3. QED
        BY <4>1, <4>2
    <3>2. CASE i > Len(w)
      <4>1. v[i] = s[n] /\ n \in 1 .. n
        BY <1>1, <2>1, <3>2
      <4>2. QED
        BY <1>3, <4>1
    <3>3. i <= Len(w) \/ i > Len(w)
      BY <1>1, <2>1
    <3>4. QED
      BY <3>1, <3>2, <3>3
  <2>4. ASSUME NEW j \in 1 .. n, s[j].off \notin D PROVE \E i \in 1 .. Len(v) : v[i] = s[j]
    <3>1. CASE j = n
      BY <1>1, <2>1, <3>1
    <3>2. CASE j # n
      <4>1. j \in 1 .. n - 1
        BY <3>2
      <4>2. PICK i \in 1 .. Len(w) : w[i] = s[j]
        BY <2>4, <4>1 DEF Remains
      <4>3. i \in 1 .. Len(v) /\ v[i] = s[j]
        BY <1>1, <2>1, <4>2
      <4>4. QED
        BY <4>3
    <3>3. QED
      BY <3>1, <3>2
  <2>5. Remains(s, D, n, v)
    BY <2>1, <2>2, <2>3, <2>4 DEF Remains
  <2>6. QED
    BY <1>3, <2>5 DEF v
<1>4. QED
  BY <1>2, <1>3

\* What is left of a segment.
LEMMA WithoutIs ==
    ASSUME NEW s \in Seq(Entries), Rising(s), NEW D
    PROVE  Remains(s, D, Len(s), Without(s, D))
<1>1. Len(s) \in Nat
  OBVIOUS
<1>2. PICK k : /\ k[0] = <<>>
               /\ \A n \in 1 .. Len(s) : k[n] = IF s[n].off \in D THEN k[n - 1] ELSE Append(k[n - 1], s[n])
               /\ Without(s, D) = k[Len(s)]
  BY <1>1, WithoutRun
<1> DEFINE T == {n \in Nat : n <= Len(s) /\ ~Remains(s, D, n, k[n])}
<1>3. Remains(s, D, 0, k[0])
  <2>1. k[0] \in Seq(Entries) /\ Len(k[0]) = 0
    BY <1>2
  <2>2. QED
    BY <2>1 DEF Remains, Rising
<1>4. T = {}
  <2>1. SUFFICES ASSUME T # {} PROVE FALSE
    OBVIOUS
  <2>2. PICK n \in T : \A j \in T : n <= j
    BY <2>1, LeastNat
  <2>3. n # 0 /\ n \in Nat /\ n <= Len(s)
    BY <1>3, <2>2
  <2>4. n - 1 \in Nat /\ n - 1 \notin T /\ n \in 1 .. Len(s)
    BY <1>1, <2>2, <2>3
  <2>5. Remains(s, D, n - 1, k[n - 1])
    BY <1>1, <2>3, <2>4
  <2>6. Remains(s, D, n, k[n])
    BY <1>2, <2>4, <2>5, OneMore
  <2>7. QED
    BY <2>2, <2>6
<1>5. QED
  BY <1>1, <1>2, <1>4

\* A record that compaction may drop: later ones of its key and of its producer stay.
Dispensable(f, y, L, D, r) ==
    /\ r.key # None
    /\ \E s \in Entries : Safe(f, y, L, s) /\ s.key = r.key /\ s.off > r.off /\ s.off \notin D
    /\ r.prod = None \/ \E s \in Entries : Safe(f, y, L, s) /\ s.prod = r.prod /\ s.off > r.off /\ s.off \notin D

\* compactClosedSegment
Rewrites(f, y, m, L, b, D, w, n) ==
    /\ Remains(f[b], D, Len(f[b]), w) /\ n = m \cup {b}
    /\ \A i \in 1 .. Len(f[b]) : f[b][i].off \in D => Dispensable(f, y, L, D, f[b][i])

\* A rewritten segment: its records are the old ones without those a later record stands for.
LEMMA CompactionKeeps ==
    ASSUME NEW f, NEW y, NEW m, NEW A, NEW L, FilesOk(f, y, m), Survive(f, y, m, A, L),
           NEW b \in DOMAIN f, ~IsLast(f, b), NEW D,
           NEW w, NEW n, Rewrites(f, y, m, L, b, D, w, n), NEW g, NEW z, Put(f, y, b, w, Len(w), g, z)
    PROVE  /\ FilesOk(g, z, n) /\ Survive(g, z, n, A, L) /\ DOMAIN g = DOMAIN f
           /\ \A c \in DOMAIN f : c # b => g[c] = f[c] /\ z[c] = y[c]
           /\ \A i \in 1 .. Len(w) : \E j \in 1 .. Len(f[b]) : w[i] = f[b][j]
           /\ \A r \in Entries : Safe(f, y, L, r) /\ r.off \notin D => Safe(g, z, L, r)
           /\ Whole(f, m) => Whole(g, n)
           /\ \A x \in Nat : Covers(f, m, x) => Covers(g, n, x)
<1> USE DEF Rewrites
<1>1. f[b] \in Seq(Entries) /\ Len(f[b]) \in Nat /\ b \in Nat /\ y[b] = Len(f[b]) /\ Rising(f[b])
  BY SegmentEntry DEF FilesOk, Sized, Ordered
<1>2. Remains(f[b], D, Len(f[b]), w)
  OBVIOUS
<1>3. w \in Seq(Entries) /\ Len(w) \in Nat
  BY <1>2 DEF Remains
<1>4. DOMAIN f \in SUBSET Nat /\ f \in [DOMAIN f -> Seq(Entries)] /\ y \in [DOMAIN f -> Nat]
      /\ m \in SUBSET DOMAIN f
  BY DEF FilesOk, Shape
<1>5. DOMAIN g = DOMAIN f /\ g[b] = w /\ z[b] = Len(w) /\ \A c \in DOMAIN f : c # b => g[c] = f[c] /\ z[c] = y[c]
  BY DEF Put
<1>6. Shape(g, z, n)
  <2>1. \A c \in DOMAIN f : g[c] \in Seq(Entries) /\ z[c] \in Nat
    BY <1>3, <1>4, <1>5
  <2>2. g \in [DOMAIN g -> Seq(Entries)] /\ z \in [DOMAIN g -> Nat]
    BY <2>1 DEF Put
  <2>3. QED
    BY <1>4, <1>5, <2>2 DEF Shape
<1>7. \A c : IsLast(g, c) <=> IsLast(f, c)
  BY <1>5 DEF IsLast
<1>8. \A c, o : Holds(g, c, o) <=> Holds(f, c, o)
  BY <1>5 DEF Holds
<1>9. Ended(g, n)
  BY <1>5, <1>7 DEF FilesOk, Ended
<1>10. Sized(g, z)
  <2>1. SUFFICES ASSUME NEW c \in DOMAIN f PROVE z[c] <= Len(g[c]) /\ (IsLast(g, c) \/ z[c] = Len(g[c]))
    BY <1>5 DEF Sized
  <2>2. CASE c = b
    BY <1>3, <1>5, <2>2
  <2>3. CASE c # b
    BY <1>5, <1>7, <2>3 DEF FilesOk, Sized
  <2>4. QED
    BY <2>2, <2>3
<1>11. Ordered(g, n)
  <2>1. SUFFICES ASSUME NEW c \in DOMAIN f PROVE Rising(g[c]) /\ (c \in n \/ Dense(g[c], c))
    BY <1>5 DEF Ordered
  <2>2. CASE c = b
    BY <1>2, <1>5, <2>2 DEF Remains
  <2>3. CASE c # b
    BY <1>5, <2>3 DEF FilesOk, Ordered
  <2>4. QED
    BY <2>2, <2>3
<1>12. Apart(g)
  <2>1. SUFFICES ASSUME NEW c \in DOMAIN f, NEW i \in 1 .. Len(g[c])
                 PROVE  c <= g[c][i].off /\ \A d \in DOMAIN f : c < d => g[c][i].off < d
    BY <1>5 DEF Apart
  <2>2. CASE c = b
    <3>1. PICK j \in 1 .. Len(f[b]) : w[i] = f[b][j]
      BY <1>2, <1>5, <2>2 DEF Remains
    <3>2. QED
      BY <1>5, <2>2, <3>1 DEF FilesOk, Apart
  <2>3. CASE c # b
    BY <1>5, <2>3 DEF FilesOk, Apart
  <2>4. QED
    BY <2>2, <2>3
<1>13. FilesOk(g, z, n)
  BY <1>6, <1>9, <1>10, <1>11, <1>12 DEF FilesOk
<1>14. ASSUME NEW r \in Entries, Safe(f, y, L, r)
       PROVE  Safe(g, z, L, r) \/ (r.off \in D /\ Dispensable(f, y, L, D, r) /\ Holds(g, b, r.off))
  <2>1. PICK c \in DOMAIN f : Holds(f, c, r.off) /\ \E i \in 1 .. y[c] : f[c][i] = r
    BY <1>14, StoredIn DEF Safe
  <2>2. PICK i \in 1 .. y[c] : f[c][i] = r
    BY <2>1
  <2>3. CASE c # b
    BY <1>5, <1>14, <2>2, <2>3 DEF Safe, Stored
  <2>4. CASE c = b /\ r.off \in D
    BY <1>1, <1>8, <2>1, <2>2, <2>4
  <2>5. CASE c = b /\ r.off \notin D
    <3>1. PICK j \in 1 .. Len(w) : w[j] = r
      BY <1>1, <1>2, <2>2, <2>5 DEF Remains
    <3>2. Stored(g, z, r)
      BY <1>5, <3>1 DEF Stored
    <3>3. QED
      BY <1>14, <3>2 DEF Safe
  <2>6. QED
    BY <2>3, <2>4, <2>5
<1>15. ASSUME NEW r \in Entries, Safe(f, y, L, r), Dispensable(f, y, L, D, r)
       PROVE  /\ r.key # None /\ \E s \in Entries : Safe(g, z, L, s) /\ s.key = r.key /\ s.off > r.off
              /\ r.prod = None \/ \E s \in Entries : Safe(g, z, L, s) /\ s.prod = r.prod /\ s.off > r.off
  BY <1>14, <1>15 DEF Dispensable
<1>16. ASSUME NEW r \in A PROVE r \in Entries /\ r.off \in L /\ Kept(g, z, n, L, r)
  <2>1. r \in Entries /\ r.off \in L /\ Kept(f, y, m, L, r) /\ r.off \in Nat
    BY <1>16 DEF Survive, Entries
  <2>2. Gone(f, r) => Gone(g, r)
    BY <1>5 DEF Gone
  <2>3. ASSUME Anchored(f, y, L, r) PROVE Anchored(g, z, L, r)
    <3>1. SUFFICES ASSUME r.prod # None PROVE \E s \in Entries : Safe(g, z, L, s) /\ s.prod = r.prod /\ s.off >= r.off
      BY DEF Anchored
    <3>2. PICK s \in Entries : Safe(f, y, L, s) /\ s.prod = r.prod /\ s.off >= r.off
      BY <2>3, <3>1 DEF Anchored
    <3>3. CASE Safe(g, z, L, s)
      BY <3>2, <3>3
    <3>4. CASE Dispensable(f, y, L, D, s)
      <4>1. PICK q \in Entries : Safe(g, z, L, q) /\ q.prod = s.prod /\ q.off > s.off
        BY <1>15, <3>1, <3>2, <3>4
      <4>2. q.off >= r.off
        BY <2>1, <3>2, <4>1 DEF Entries
      <4>3. QED
        BY <3>2, <4>1, <4>2
    <3>5. QED
      BY <1>14, <3>2, <3>3, <3>4
  <2>4. ASSUME Replaced(f, y, m, L, r) PROVE Replaced(g, z, n, L, r)
    <3>1. PICK s \in Entries : Safe(f, y, L, s) /\ s.key = r.key /\ s.off > r.off
      BY <2>4 DEF Replaced
    <3>2. r.key # None /\ \E c \in n : Holds(g, c, r.off)
      BY <1>8, <2>4 DEF Replaced
    <3>3. CASE Safe(g, z, L, s)
      BY <3>1, <3>2, <3>3 DEF Replaced
    <3>4. CASE Dispensable(f, y, L, D, s)
      <4>1. PICK q \in Entries : Safe(g, z, L, q) /\ q.key = s.key /\ q.off > s.off
        BY <1>15, <3>1, <3>4
      <4>2. q.off > r.off
        BY <2>1, <3>1, <4>1 DEF Entries
      <4>3. QED
        BY <3>1, <3>2, <4>1, <4>2 DEF Replaced
    <3>5. QED
      BY <1>14, <3>1, <3>3, <3>4
  <2>5. ASSUME Stored(f, y, r) PROVE Stored(g, z, r) \/ Replaced(g, z, n, L, r)
    <3>1. Safe(f, y, L, r)
      BY <2>1, <2>5 DEF Safe
    <3>2. CASE Safe(g, z, L, r)
      BY <3>2 DEF Safe
    <3>3. CASE Dispensable(f, y, L, D, r) /\ Holds(g, b, r.off)
      BY <1>15, <2>1, <3>1, <3>3 DEF Replaced
    <3>4. QED
      BY <1>14, <2>1, <3>1, <3>2, <3>3
  <2>6. QED
    BY <2>1, <2>2, <2>3, <2>4, <2>5 DEF Kept
<1>17. Survive(g, z, n, A, L)
  BY <1>16 DEF Survive
<1>18. ASSUME Whole(f, m) PROVE Whole(g, n)
  <2>1. SUFFICES ASSUME NEW c \in DOMAIN f, NEW o \in Nat, Holds(f, c, o), ~IsLast(f, c), c # b
                 PROVE  c \in m \/ o < c + Len(g[c])
    BY <1>5, <1>7, <1>8 DEF Whole
  <2>2. QED
    BY <1>5, <1>18, <2>1 DEF Whole
<1>19. ASSUME NEW x \in Nat, Covers(f, m, x) PROVE Covers(g, n, x)
  <2>1. SUFFICES ASSUME NEW c \in DOMAIN f, NEW o \in Nat, Holds(f, c, o), o < x, c # b
                 PROVE  c \in m \/ o < c + Len(g[c])
    BY <1>5, <1>8 DEF Covers
  <2>2. QED
    BY <1>5, <1>19, <2>1 DEF Covers
<1>20. \A i \in 1 .. Len(w) : \E j \in 1 .. Len(f[b]) : w[i] = f[b][j]
  BY <1>2 DEF Remains
<1>21. QED
  BY <1>5, <1>13, <1>14, <1>17, <1>18, <1>19, <1>20

-----------------------------------------------------------------------------
(* The invariant.                                                          *)

Replicated == Does("replicated")
Truncating == work.op = "truncate"

\* The files without a range that is being installed: its segment is still empty then.
Files == IF pending = Idle THEN file ELSE [file EXCEPT ![pending.from] = <<>>]
Syncs == IF pending = Idle THEN synced ELSE [synced EXCEPT ![pending.from] = 0]

\* The offsets that are never truncated.
Limit == IF Replicated THEN 0 .. committed - 1 ELSE Nat

TypeOk ==
    /\ workload \in Workloads /\ up \in BOOLEAN /\ writeFailure \in BOOLEAN /\ reconciled \in BOOLEAN
    /\ batch \in Seq(Entries) /\ writeCh \in Seq(Entries)
    /\ absoluteOffset \in Nat /\ flushedOffset \in Nat /\ currentSegment \in Nat
    /\ leo \in Nat /\ hwm \in Nat /\ checkpoint \in Nat /\ committed \in Nat
    /\ DOMAIN file \in SUBSET Nat /\ file \in [DOMAIN file -> Seq(Entries)] /\ synced \in [DOMAIN file -> Nat]
    /\ DOMAIN pass = {"drop", "todo"}

\* Which callers a partition has, and what follows.
ModeOk ==
    /\ batch # <<>> \/ writeCh # <<>> => Does("queued") /\ up
    /\ writeFailure => Does("fault") /\ ~Does("queued")
    /\ Does("queued") => acked = {}

\* What the files hold.
FileInv ==
    /\ FilesOk(Files, Syncs, markers)
    /\ Survive(Files, Syncs, markers, acked, Limit)
    /\ Replicated => /\ Covers(Files, markers, committed)
                     /\ \A e \in DOMAIN Files : IsLast(Files, e) => committed <= e + Syncs[e]
    /\ (Replicated => up /\ reconciled /\ ~Truncating) => Whole(Files, markers)

\* A range that is being installed, and its manifest.
RangeOk(p) ==
    /\ DOMAIN p = {"op", "from", "to", "recs"} /\ p.op = "range"
    /\ p.from \in Nat /\ p.to \in Nat /\ p.from < p.to /\ p.recs \in Seq(Entries) /\ Rising(p.recs)
    /\ \A i \in 1 .. Len(p.recs) : p.from <= p.recs[i].off /\ p.recs[i].off < p.to
PendingOk ==
    pending # Idle =>
        /\ RangeOk(pending) /\ Replicated /\ IsLast(file, pending.from) /\ committed <= pending.from
        /\ file[pending.from] \in {<<>>, pending.recs}
        /\ synced[pending.from] = Len(file[pending.from])

\* What holds the locks.
WorkOk ==
    /\ ~up => work = Idle /\ reader = {} /\ pass = NoPass
    /\ work # Idle => Replicated /\ up /\ pass = NoPass
    /\ \/ work = Idle /\ (up => pending = Idle)
       \/ work = [op |-> "check"] /\ pending = Idle
       \/ /\ DOMAIN work = {"op", "to", "target"} /\ work.op = "truncate" /\ pending = Idle
          /\ work.to = committed /\ Holds(file, work.target, committed) /\ work.target \notin markers
       \/ /\ work = pending /\ RangeOk(work)
          /\ currentSegment = work.from /\ ~writeFailure /\ reconciled

\* The offsets of the handler: everything assigned is in the last segment or queued, in order.
TailOk ==
    up =>
        /\ leo = absoluteOffset /\ absoluteOffset = flushedOffset + Len(batch) + Len(writeCh)
        /\ Dense(batch, flushedOffset) /\ Dense(writeCh, flushedOffset + Len(batch))
        /\ Replicated => committed <= leo
        /\ ~Truncating =>
              /\ IsLast(Files, currentSegment) /\ currentSegment <= flushedOffset
              /\ \/ currentSegment + Len(Files[currentSegment]) = flushedOffset
                 \/ writeFailure /\ currentSegment + Len(Files[currentSegment]) = flushedOffset + 1
              /\ Replicated => flushedOffset <= currentSegment + Syncs[currentSegment]
MarkOk == Replicated => hwm <= committed /\ checkpoint <= committed

PassOk ==
    /\ pass # NoPass => pass.todo # {}
    /\ pass.todo \subseteq DOMAIN file \ {currentSegment}
    /\ \A b \in pass.todo : \A i \in 1 .. Len(file[b]) :
          file[b][i].off \in pass.drop => Dispensable(file, synced, Limit, pass.drop, file[b][i])

ReaderOk == \A b \in reader : b \in DOMAIN file /\ (Replicated => b < committed)

DiskInv ==
    TypeOk /\ ModeOk /\ FileInv /\ PendingOk /\ WorkOk /\ TailOk /\ MarkOk /\ PassOk /\ ReaderOk

\* A partition has one kind of writer.
LEMMA Modes ==
    ASSUME TypeOk
    PROVE  /\ Does("queued") => ~Does("direct") /\ ~Replicated
           /\ Does("direct") => ~Replicated
           /\ Does("range") => Replicated
           /\ Does("roll") => ~Does("queued") /\ ~Does("fault")
<1>1. /\ \A a, c \in workload \cap {"queued", "direct", "replicated"} : a = c
      /\ "range" \in workload => "replicated" \in workload
      /\ "roll" \in workload => {"queued", "fault"} \cap workload = {}
  BY WorkloadsAssumption DEF TypeOk
<1>2. "queued" # "direct" /\ "queued" # "replicated" /\ "direct" # "replicated"
  OBVIOUS
<1>3. QED
  BY <1>1, <1>2 DEF Does, Replicated

\* What operations are not a range or a truncation.
LEMMA Ops ==
    /\ Idle.op = "idle" /\ [op |-> "check"].op = "check"
    /\ Idle # [op |-> "check"]
    /\ \A p : p.op = "range" => p # Idle
    /\ \A p : p.op = "truncate" => p # Idle
<1>1. Idle.op = "idle" /\ [op |-> "check"].op = "check"
  BY DEF Idle
<1>2. "idle" # "check" /\ "idle" # "range" /\ "idle" # "truncate"
  OBVIOUS
<1>3. QED
  BY <1>1, <1>2

\* The files when nothing holds the locks.
LEMMA WhenIdle ==
    ASSUME DiskInv, up, pending = Idle, ~Truncating
    PROVE  /\ Files = file /\ Syncs = synced /\ FilesOk(file, synced, markers)
           /\ IsLast(file, currentSegment) /\ currentSegment \in DOMAIN file /\ currentSegment \notin markers
           /\ currentSegment \in Nat /\ file[currentSegment] \in Seq(Entries)
           /\ Len(file[currentSegment]) \in Nat /\ Dense(file[currentSegment], currentSegment)
           /\ synced[currentSegment] \in Nat /\ synced[currentSegment] <= Len(file[currentSegment])
           /\ currentSegment <= flushedOffset
           /\ ~writeFailure => currentSegment + Len(file[currentSegment]) = flushedOffset
           /\ flushedOffset <= currentSegment + Len(file[currentSegment])
           /\ flushedOffset \in Nat
<1>1. Files = file /\ Syncs = synced
  BY DEF Files, Syncs
<1>2. FilesOk(file, synced, markers)
  BY <1>1 DEF DiskInv, FileInv
<1>3. IsLast(file, currentSegment) /\ currentSegment \in DOMAIN file /\ currentSegment <= flushedOffset
  BY <1>1 DEF DiskInv, TailOk, IsLast
<1>4. currentSegment \notin markers
  BY <1>2, <1>3, LastIsUnique DEF FilesOk, Ended
<1>5. /\ currentSegment \in Nat /\ file[currentSegment] \in Seq(Entries)
      /\ Len(file[currentSegment]) \in Nat /\ synced[currentSegment] \in Nat
  BY <1>2, <1>3, SegmentEntry DEF FilesOk
<1>6. Dense(file[currentSegment], currentSegment) /\ synced[currentSegment] <= Len(file[currentSegment])
  BY <1>2, <1>3, <1>4 DEF FilesOk, Ordered, Sized
<1>7. flushedOffset \in Nat
  BY DEF DiskInv, TypeOk
<1>8. /\ ~writeFailure => currentSegment + Len(file[currentSegment]) = flushedOffset
      /\ flushedOffset <= currentSegment + Len(file[currentSegment])
  BY <1>1, <1>5, <1>7 DEF DiskInv, TailOk
<1>9. QED
  BY <1>1, <1>2, <1>3, <1>4, <1>5, <1>6, <1>7, <1>8

\* Nothing holds the locks.
LEMMA IdleState ==
    ASSUME DiskInv, WithinHandler
    PROVE  up /\ work = Idle /\ pending = Idle /\ ~Truncating
BY Ops DEF DiskInv, WorkOk, WithinHandler, Truncating

-----------------------------------------------------------------------------
(* Writing at the tail.                                                    *)

\* What a write of recs leaves, given the files before it; all but the last segment are left alone.
Extended(c, f, y, recs, fsync, d, g, z) ==
    /\ d \in DOMAIN g /\ IsLast(g, d) /\ d \in Nat /\ d >= c
    /\ DOMAIN f \subseteq DOMAIN g
    /\ \A b \in DOMAIN f : b # c => b # d /\ g[b] = f[b] /\ z[b] = y[b]
    /\ Len(g[c]) >= Len(f[c]) /\ \A i \in 1 .. Len(f[c]) : g[c][i] = f[c][i]
    /\ d + Len(g[d]) = c + Len(f[c]) + Len(recs)
    /\ d <= c + Len(f[c])
    /\ fsync => z[d] = Len(g[d])
    /\ c + Len(f[c]) <= c + y[c] => c + Len(f[c]) <= d + z[d]
    /\ \A i \in 1 .. Len(recs) : \E j \in 1 .. Len(g[d]) : g[d][j] = recs[i]

\* The records of a segment after a write.
Joined(s, t, recs) ==
    /\ s \in Seq(Entries) /\ Len(s) = Len(t) + Len(recs)
    /\ \A i \in 1 .. Len(t) : s[i] = t[i]
    /\ \A i \in 1 .. Len(recs) : s[Len(t) + i] = recs[i] /\ Len(t) + i \in 1 .. Len(s)

\* A concatenation.
LEMMA JoinedIs ==
    ASSUME NEW t \in Seq(Entries), NEW recs \in Seq(Entries)
    PROVE  Joined(t \o recs, t, recs)
<1>1. Len(t) \in Nat /\ Len(recs) \in Nat /\ t \o recs \in Seq(Entries) /\ Len(t \o recs) = Len(t) + Len(recs)
  OBVIOUS
<1>2. \A i \in 1 .. Len(t) + Len(recs) : (t \o recs)[i] = IF i <= Len(t) THEN t[i] ELSE recs[i - Len(t)]
  OBVIOUS
<1>3. \A i \in 1 .. Len(t) : (t \o recs)[i] = t[i]
  BY <1>1, <1>2
<1>4. ASSUME NEW i \in 1 .. Len(recs)
      PROVE  (t \o recs)[Len(t) + i] = recs[i] /\ Len(t) + i \in 1 .. Len(t \o recs)
  <2>1. Len(t) + i \in 1 .. Len(t) + Len(recs) /\ ~(Len(t) + i <= Len(t)) /\ Len(t) + i - Len(t) = i
    BY <1>1
  <2>2. QED
    BY <1>1, <1>2, <2>1
<1>5. QED
  BY <1>1, <1>3, <1>4 DEF Joined

\* A write to the last segment.
LEMMA WriteThere ==
    ASSUME NEW f, NEW y, NEW m, FilesOk(f, y, m), NEW c, IsLast(f, c), c \notin m,
           NEW recs \in Seq(Entries), Dense(recs, c + Len(f[c])), NEW fsync \in BOOLEAN,
           NEW s, Joined(s, f[c], recs), Dense(s, c),
           NEW k \in Nat, k <= Len(s), y[c] <= k, fsync => k >= Len(s),
           NEW g, NEW z, Put(f, y, c, s, k, g, z)
    PROVE  /\ FilesOk(g, z, m) /\ Grows(f, y, m, g, z, m) /\ Extended(c, f, y, recs, fsync, c, g, z)
           /\ Whole(f, m) => Whole(g, m)
           /\ \A x \in Nat : Covers(f, m, x) => Covers(g, m, x)
<1>1. c \in DOMAIN f /\ c \in Nat /\ f[c] \in Seq(Entries) /\ Len(f[c]) \in Nat /\ y[c] \in Nat
      /\ y[c] <= Len(f[c]) /\ Len(recs) \in Nat
  BY SegmentEntry DEF FilesOk, IsLast, Sized
<1>2. /\ s \in Seq(Entries) /\ Len(s) = Len(f[c]) + Len(recs) /\ Len(s) \in Nat
      /\ \A i \in 1 .. Len(f[c]) : s[i] = f[c][i]
  BY <1>1 DEF Joined
<1>3. Len(f[c]) <= Len(s) /\ \A i \in 1 .. y[c] : s[i] = f[c][i]
  <2>1. \A i \in 1 .. y[c] : i \in 1 .. Len(f[c])
    BY <1>1
  <2>2. Len(f[c]) <= Len(s)
    BY <1>1, <1>2
  <2>3. QED
    BY <1>2, <2>1, <2>2
<1>4. /\ FilesOk(g, z, m) /\ IsLast(g, c) /\ g[c] = s /\ z[c] = k /\ DOMAIN g = DOMAIN f
      /\ Whole(f, m) => Whole(g, m)
      /\ \A x \in Nat : Covers(f, m, x) /\ (x <= c + Len(s) \/ Len(f[c]) <= Len(s)) => Covers(g, m, x)
      /\ y[c] <= k /\ (\A i \in 1 .. y[c] : s[i] = f[c][i]) => Grows(f, y, m, g, z, m)
  BY <1>2, LastReplaced
<1>5. Extended(c, f, y, recs, fsync, c, g, z)
  <2>1. \A i \in 1 .. Len(recs) : \E j \in 1 .. Len(g[c]) : g[c][j] = recs[i]
    BY <1>4 DEF Joined
  <2>2. c >= c /\ c <= c + Len(f[c]) /\ c + Len(g[c]) = c + Len(f[c]) + Len(recs) /\ Len(g[c]) >= Len(f[c])
    <3>1. Len(g[c]) = Len(f[c]) + Len(recs)
      BY <1>2, <1>4
    <3>2. QED
      BY <1>1, <3>1
  <2>3. c + Len(f[c]) <= c + y[c] => c + Len(f[c]) <= c + z[c]
    BY <1>1, <1>4
  <2>4. \A b \in DOMAIN f : b # c => g[b] = f[b] /\ z[b] = y[b]
    BY DEF Put
  <2>5. \A i \in 1 .. Len(f[c]) : g[c][i] = f[c][i]
    BY <1>2, <1>4
  <2>6. fsync => z[c] = Len(g[c])
    BY <1>2, <1>4
  <2>7. QED
    BY <1>1, <1>4, <2>1, <2>2, <2>3, <2>4, <2>5, <2>6 DEF Extended
<1>6. QED
  BY <1>3, <1>4, <1>5

\* What growth carries over.
Carried(f, y, m, g, z, n) ==
    /\ \A A, L : Survive(f, y, m, A, L) => Survive(g, z, n, A, L)
    /\ \A r : Stored(f, y, r) => Stored(g, z, r)

\* Growth between well-formed files.
LEMMA GrowthCarries ==
    ASSUME NEW f, NEW y, NEW m, FilesOk(f, y, m), NEW g, NEW z, NEW n, FilesOk(g, z, n), Grows(f, y, m, g, z, n)
    PROVE  Carried(f, y, m, g, z, n)
<1>1. Shape(g, z, n)
  BY DEF FilesOk
<1>2. \A A, L : Survive(f, y, m, A, L) => Survive(g, z, n, A, L)
  BY <1>1, GrowthKeeps
<1>3. ASSUME NEW r, Stored(f, y, r) PROVE Stored(g, z, r)
  <2>1. PICK b \in DOMAIN f : \E i \in 1 .. y[b] : f[b][i] = r
    BY <1>3 DEF Stored
  <2>2. PICK i \in 1 .. y[b] : f[b][i] = r
    BY <2>1
  <2>3. b \in DOMAIN g /\ y[b] <= z[b] /\ g[b][i] = r
    BY <2>2 DEF Grows
  <2>4. y[b] \in Nat /\ z[b] \in Nat
    BY <2>3 DEF FilesOk, Shape
  <2>5. i \in 1 .. z[b]
    BY <2>2, <2>3, <2>4
  <2>6. QED
    BY <2>3, <2>5 DEF Stored
<1>4. QED
  BY <1>2, <1>3 DEF Carried

\* The effect of a write on the files f, of which c is the last, and the new ones in v.
WriteDone(c, f, y, m, recs, fsync, v) ==
    /\ FilesOk(v.file, v.synced, m) /\ Carried(f, y, m, v.file, v.synced, m)
    /\ Extended(c, f, y, recs, fsync, v.current, v.file, v.synced)
    /\ Whole(f, m) => Whole(v.file, m)
    /\ \A x \in Nat : Covers(f, m, x) /\ x <= c + Len(f[c]) => Covers(v.file, m, x)

\* A write that does not roll.
LEMMA WrittenDone ==
    ASSUME NEW v, NEW m, FilesOk(v.file, v.synced, m), IsLast(v.file, v.current), v.current \notin m,
           NEW recs \in Seq(Entries), Dense(recs, v.current + Len(v.file[v.current])), NEW fsync \in BOOLEAN
    PROVE  WriteDone(v.current, v.file, v.synced, m, recs, fsync, Written(v, recs, fsync))
<1> DEFINE c == v.current
           f == v.file
           y == v.synced
           s == f[c] \o recs
           k == IF fsync THEN Len(s) ELSE y[c]
           g == [f EXCEPT ![c] = s]
           z == [y EXCEPT ![c] = k]
           w == Written(v, recs, fsync)
<1>1. w.current = c /\ w.file = g /\ w.synced = z
  BY DEF Written
<1>2. FilesOk(f, y, m) /\ IsLast(f, c) /\ c \notin m /\ Dense(recs, c + Len(f[c]))
  OBVIOUS
<1> HIDE DEF c, f, y, w
<1>3. c \in DOMAIN f /\ c \in Nat /\ f[c] \in Seq(Entries) /\ Len(f[c]) \in Nat /\ y[c] \in Nat /\ y[c] <= Len(f[c])
  BY <1>2, SegmentEntry DEF FilesOk, IsLast, Sized
<1>4. Dense(f[c], c)
  BY <1>2, <1>3 DEF FilesOk, Ordered
<1>5. Joined(s, f[c], recs) /\ Dense(s, c) /\ Len(s) = Len(f[c]) + Len(recs) /\ Len(s) \in Nat
  BY <1>2, <1>3, <1>4, JoinedIs, DenseConcat
<1> HIDE DEF s
<1>6. k \in Nat /\ k <= Len(s) /\ y[c] <= k /\ (fsync => k >= Len(s))
  BY <1>3, <1>5
<1> HIDE DEF k
<1>7. Put(f, y, c, s, k, g, z)
  BY <1>2, <1>3, PutIs DEF FilesOk
<1> HIDE DEF g, z
<1>8. /\ FilesOk(g, z, m) /\ Grows(f, y, m, g, z, m) /\ Extended(c, f, y, recs, fsync, c, g, z)
      /\ Whole(f, m) => Whole(g, m)
      /\ \A x \in Nat : Covers(f, m, x) => Covers(g, m, x)
  BY <1>2, <1>5, <1>6, <1>7, WriteThere
<1>9. Carried(f, y, m, g, z, m)
  BY <1>2, <1>8, GrowthCarries
<1>10. WriteDone(c, f, y, m, recs, fsync, w)
  BY <1>1, <1>8, <1>9 DEF WriteDone
<1>11. QED
  BY <1>10 DEF c, f, y, w

\* What a roll at the tail leaves.
RollDone(c, f, y, m, w) ==
    /\ FilesOk(w.file, w.synced, m) /\ Carried(f, y, m, w.file, w.synced, m)
    /\ IsLast(w.file, w.current) /\ w.current \notin m /\ w.current \in Nat /\ w.current >= c
    /\ w.current + Len(w.file[w.current]) = c + Len(f[c])
    /\ DOMAIN f \subseteq DOMAIN w.file /\ \A b \in DOMAIN f : w.file[b] = f[b]
    /\ \A b \in DOMAIN f : b # c => b # w.current /\ w.synced[b] = y[b]
    /\ w.current # c => w.current = c + Len(f[c]) /\ w.file[w.current] = <<>> /\ w.synced[w.current] = 0
    /\ w.current = c => w.synced[c] = y[c]
    /\ w.file[w.current] = <<>>
    /\ Whole(f, m) => Whole(w.file, m)
    /\ \A x \in Nat : Covers(f, m, x) /\ x <= c + Len(f[c]) => Covers(w.file, m, x)

\* rotateSegment at the end of the active segment.
LEMMA RotatedDone ==
    ASSUME NEW v, NEW m, FilesOk(v.file, v.synced, m), IsLast(v.file, v.current), v.current \notin m,
           NEW next, next = v.current + Len(v.file[v.current])
    PROVE  RollDone(v.current, v.file, v.synced, m, RotateSegment(v, next))
<1> DEFINE c == v.current
           f == v.file
           y == v.synced
           w == RotateSegment(v, next)
<1>1. FilesOk(f, y, m) /\ IsLast(f, c) /\ c \notin m /\ next = c + Len(f[c])
  OBVIOUS
<1>2. c \in DOMAIN f /\ c \in Nat /\ f[c] \in Seq(Entries) /\ Len(f[c]) \in Nat
  BY SegmentEntry DEF FilesOk, IsLast
<1>3. CASE f[c] = <<>>
  <2>1. Len(f[c]) = 0 /\ next = c /\ next <= c
    BY <1>2, <1>3
  <2>2. w = v
    BY <1>3, <2>1 DEF RotateSegment
  <2> HIDE DEF c, f, y, w
  <2>3. w.file = f /\ w.synced = y /\ w.current = c
    BY <2>2 DEF c, f, y
  <2>4. Carried(f, y, m, f, y, m) /\ c >= c /\ \A b \in DOMAIN f : f[b] = f[b] /\ y[b] = y[b]
    BY <1>2 DEF Carried
  <2>5. RollDone(c, f, y, m, w)
    BY <1>1, <1>2, <1>3, <2>3, <2>4 DEF RollDone
  <2>6. QED
    BY <2>5 DEF c, f, y, w
<1>4. CASE f[c] # <<>>
  <2> DEFINE g == [b \in DOMAIN f \cup {next} |-> IF b \in DOMAIN f THEN f[b] ELSE <<>>]
             z == [b \in DOMAIN f \cup {next} |->
                         IF b = c THEN Len(f[b]) ELSE IF b \in DOMAIN f THEN y[b] ELSE 0]
  <2>1. w = [current |-> next, file |-> g, synced |-> z]
    BY <1>4 DEF RotateSegment
  <2>2. w.current = next /\ w.file = g /\ w.synced = z
    BY <2>1
  <2> HIDE DEF c, f, y, w
  <2>3. /\ FilesOk(g, z, m) /\ IsLast(g, next) /\ next \notin m /\ next > c /\ next \in Nat
        /\ g[next] = <<>> /\ z[next] = 0 /\ Grows(f, y, m, g, z, m)
        /\ Whole(f, m) => Whole(g, m)
        /\ \A x \in Nat : Covers(f, m, x) /\ x <= next => Covers(g, m, x)
    <3>1. Rolled(f, y, c, next, g, z)
      BY DEF Rolled
    <3> HIDE DEF g, z
    <3>2. QED
      BY <1>1, <1>4, <3>1, RotateKeeps
  <2>4. next \notin DOMAIN f
    BY <1>1, <1>2, <2>3 DEF IsLast, FilesOk, Shape
  <2>5. \A b \in DOMAIN f : g[b] = f[b] /\ b # next /\ (b # c => z[b] = y[b])
    BY <1>2, <2>4
  <2>6. DOMAIN f \subseteq DOMAIN g /\ next # c /\ next >= c
    BY <1>2, <2>3
  <2> HIDE DEF g, z
  <2>7. Carried(f, y, m, g, z, m)
    BY <1>1, <2>3, GrowthCarries
  <2>8. next + Len(g[next]) = c + Len(f[c])
    BY <1>1, <2>3
  <2>9. RollDone(c, f, y, m, w)
    BY <1>1, <2>2, <2>3, <2>5, <2>6, <2>7, <2>8 DEF RollDone
  <2>10. QED
    BY <2>9 DEF c, f, y, w
<1>5. QED
  BY <1>3, <1>4

\* A write, with or without a roll.
LEMMA RolledWrite ==
    ASSUME NEW v, NEW m, FilesOk(v.file, v.synced, m), IsLast(v.file, v.current), v.current \notin m,
           NEW recs \in Seq(Entries), recs # <<>>, Dense(recs, v.current + Len(v.file[v.current])),
           NEW fsync \in BOOLEAN, NEW roll \in BOOLEAN
    PROVE  WriteDone(v.current, v.file, v.synced, m, recs, fsync,
                     Written(IF roll THEN RotateSegment(v, recs[1].off) ELSE v, recs, fsync))
<1>1. CASE ~roll
  BY <1>1, WrittenDone
<1>2. CASE roll
  <2> DEFINE c == v.current
             f == v.file
             y == v.synced
             u == RotateSegment(v, recs[1].off)
             w == Written(u, recs, fsync)
  <2>1. FilesOk(f, y, m) /\ IsLast(f, c) /\ c \notin m /\ Dense(recs, c + Len(f[c]))
    OBVIOUS
  <2>2. c \in DOMAIN f /\ c \in Nat /\ f[c] \in Seq(Entries) /\ Len(f[c]) \in Nat /\ Len(recs) \in Nat
    BY <2>1, SegmentEntry DEF FilesOk, IsLast
  <2>3. recs[1].off = c + Len(f[c])
    BY <2>1, <2>2 DEF Dense
  <2>4. RollDone(c, f, y, m, u)
    BY <2>1, <2>3, RotatedDone
  <2> HIDE DEF c, f, y, u
  <2>5. /\ FilesOk(u.file, u.synced, m) /\ IsLast(u.file, u.current) /\ u.current \notin m
        /\ Dense(recs, u.current + Len(u.file[u.current]))
    BY <2>1, <2>4 DEF RollDone
  <2>6. WriteDone(u.current, u.file, u.synced, m, recs, fsync, w)
    BY <2>5, WrittenDone
  <2> HIDE DEF w
  <2> DEFINE d == w.current
  <2>7. FilesOk(w.file, w.synced, m) /\ Carried(f, y, m, w.file, w.synced, m)
    BY <2>4, <2>6 DEF RollDone, WriteDone, Carried
  <2>8. Whole(f, m) => Whole(w.file, m)
    BY <2>4, <2>6 DEF RollDone, WriteDone
  <2>9. ASSUME NEW x \in Nat, Covers(f, m, x), x <= c + Len(f[c]) PROVE Covers(w.file, m, x)
    BY <2>4, <2>6, <2>9 DEF RollDone, WriteDone
  <2>10. Extended(c, f, y, recs, fsync, w.current, w.file, w.synced)
    <3>1. /\ DOMAIN f \subseteq DOMAIN u.file /\ \A b \in DOMAIN f : u.file[b] = f[b]
          /\ \A b \in DOMAIN f : b # c => b # u.current /\ u.synced[b] = y[b]
          /\ u.current # c => u.current = c + Len(f[c]) /\ u.file[u.current] = <<>> /\ u.synced[u.current] = 0
          /\ u.current = c => u.synced[c] = y[c]
          /\ u.current >= c /\ u.current \in Nat /\ u.current + Len(u.file[u.current]) = c + Len(f[c])
      BY <2>4 DEF RollDone
    <3>2. Extended(u.current, u.file, u.synced, recs, fsync, d, w.file, w.synced)
      BY <2>6 DEF WriteDone
    <3> HIDE DEF d
    <3>3. d \in DOMAIN w.file /\ IsLast(w.file, d) /\ d \in Nat /\ d >= c /\ DOMAIN f \subseteq DOMAIN w.file
      BY <2>2, <3>1, <3>2 DEF Extended
    <3>4. \A b \in DOMAIN f : b # c => b # d /\ w.file[b] = f[b] /\ w.synced[b] = y[b]
      BY <3>1, <3>2 DEF Extended
    <3>5. Len(w.file[c]) >= Len(f[c]) /\ \A i \in 1 .. Len(f[c]) : w.file[c][i] = f[c][i]
      <4>1. CASE u.current = c
        BY <2>2, <3>1, <3>2, <4>1 DEF Extended
      <4>2. CASE u.current # c
        <5>1. w.file[c] = f[c]
          BY <2>2, <3>1, <3>2, <4>2 DEF Extended
        <5>2. QED
          BY <2>2, <5>1
      <4>3. QED
        BY <4>1, <4>2
    <3>6. d + Len(w.file[d]) = c + Len(f[c]) + Len(recs) /\ d <= c + Len(f[c])
      BY <3>1, <3>2 DEF Extended
    <3>7. /\ fsync => w.synced[d] = Len(w.file[d])
          /\ \A i \in 1 .. Len(recs) : \E j \in 1 .. Len(w.file[d]) : w.file[d][j] = recs[i]
      BY <3>2 DEF Extended
    <3>8. c + Len(f[c]) <= c + y[c] => c + Len(f[c]) <= d + w.synced[d]
      <4>1. CASE u.current = c
        BY <2>2, <3>1, <3>2, <4>1 DEF Extended
      <4>2. CASE u.current # c
        BY <2>2, <3>1, <3>2, <4>2 DEF Extended
      <4>3. QED
        BY <4>1, <4>2
    <3>9. Extended(c, f, y, recs, fsync, d, w.file, w.synced)
      BY <3>3, <3>4, <3>5, <3>6, <3>7, <3>8 DEF Extended
    <3>10. QED
      BY <3>9 DEF d
  <2>11. WriteDone(c, f, y, m, recs, fsync, w)
    BY <2>7, <2>8, <2>9, <2>10 DEF WriteDone
  <2>12. QED
    BY <1>2, <2>11 DEF c, f, y, u, w
<1>3. QED
  BY <1>1, <1>2

-----------------------------------------------------------------------------
(* What a step leaves alone keeps its part of the invariant.               *)

\* The files, when no step touches them.
LEMMA SameFiles ==
    ASSUME DiskInv, UNCHANGED <<workload, file, synced, markers, pending, committed, acked>>,
           (Replicated => up' /\ reconciled' /\ ~Truncating') => Whole(Files, markers)
    PROVE  FileInv' /\ Files' = Files /\ Syncs' = Syncs /\ Limit' = Limit /\ Replicated' = Replicated
<1>1. Files' = Files /\ Syncs' = Syncs
  BY DEF Files, Syncs
<1>2. Replicated' = Replicated /\ Limit' = Limit
  BY DEF Limit, Replicated, Does
<1>3. FileInv'
  BY <1>1, <1>2 DEF DiskInv, FileInv
<1>4. QED
  BY <1>1, <1>2, <1>3

\* A compaction pass, when the files stay.
LEMMA SamePass ==
    ASSUME DiskInv, UNCHANGED <<workload, file, synced, currentSegment, committed>>,
           pass' = pass \/ pass' = NoPass
    PROVE  PassOk'
<1>1. Limit' = Limit
  BY DEF Limit, Replicated, Does
<1>2. CASE pass' = pass
  BY <1>1, <1>2 DEF DiskInv, PassOk
<1>3. CASE pass' = NoPass
  <2>1. pass'.todo = {}
    BY <1>3 DEF NoPass
  <2>2. QED
    BY <1>3, <2>1 DEF PassOk
<1>4. QED
  BY <1>2, <1>3

\* Readers, when the files stay.
LEMMA SameReader ==
    ASSUME DiskInv, UNCHANGED <<workload, file, committed>>, reader' = reader \/ reader' = {}
    PROVE  ReaderOk'
BY DEF DiskInv, ReaderOk, Replicated, Does

\* The manifest of a range, when the files stay.
LEMMA SamePending ==
    ASSUME DiskInv, UNCHANGED <<workload, file, synced, committed, pending>>
    PROVE  PendingOk'
BY DEF DiskInv, PendingOk, Replicated, Does

\* The handler's offsets, when the files and the queue stay.
LEMMA SameTail ==
    ASSUME DiskInv, UNCHANGED <<workload, file, synced, committed, pending, up, absoluteOffset, flushedOffset,
                                currentSegment, leo, batch, writeCh, writeFailure>>,
           Truncating => Truncating'
    PROVE  TailOk'
<1>1. Files' = Files /\ Syncs' = Syncs /\ Replicated' = Replicated
  BY DEF Files, Syncs, Replicated, Does
<1>2. QED
  BY <1>1 DEF DiskInv, TailOk

\* runHWMCheckpointLoop
LEMMA PersistKeeps ==
    ASSUME DiskInv, PersistHWMCheckpoint
    PROVE  DiskInv'
<1> USE DEF fileVars, queueVars, history
<1>1. /\ UNCHANGED <<workload, up, writeCh, batch, absoluteOffset, flushedOffset, currentSegment, file,
                      synced, markers, writeFailure, pass, work, pending, reader, leo, hwm, reconciled, committed,
                      acked>>
      /\ checkpoint' = hwm
  BY DEF PersistHWMCheckpoint
<1>2. TypeOk' /\ ModeOk' /\ WorkOk' /\ MarkOk'
  BY <1>1 DEF DiskInv, TypeOk, ModeOk, WorkOk, MarkOk, Replicated, Does
<1>3. FileInv'
  BY <1>1, SameFiles DEF DiskInv, FileInv, Truncating
<1>4. PendingOk' /\ TailOk' /\ PassOk' /\ ReaderOk'
  BY <1>1, SamePending, SameTail, SamePass, SameReader DEF Truncating
<1>5. QED
  BY <1>2, <1>3, <1>4 DEF DiskInv

-----------------------------------------------------------------------------
(* Lookups.                                                                *)

\* The lookup finds the segment an offset falls into.
LEMMA LookupIs ==
    ASSUME DOMAIN file \in SUBSET Nat, NEW o, NEW b, Holds(file, b, o)
    PROVE  SegmentFor(o) = b
<1> DEFINE S == {c \in Bases : c <= o}
<1>1. S \in SUBSET Nat /\ b \in S /\ \A c \in S : c <= b
  BY DEF Holds, Bases
<1>2. Max(S) = b
  BY <1>1, MaxIs
<1>3. QED
  BY <1>2 DEF SegmentFor

\* Every offset at or behind the first segment falls into one.
LEMMA LookupFinds ==
    ASSUME NEW f, DOMAIN f \in SUBSET Nat, NEW o \in Nat, NEW a \in DOMAIN f, a <= o
    PROVE  \E b \in DOMAIN f : Holds(f, b, o)
<1> DEFINE S == {c \in DOMAIN f : c <= o}
<1>1. S \in SUBSET Nat /\ S # {} /\ \A c \in S : c <= o
  OBVIOUS
<1>2. PICK b \in S : \A c \in S : c <= b
  BY <1>1, GreatestNat
<1>3. QED
  BY <1>2 DEF Holds

\* The first segment.
LEMMA FirstIs ==
    ASSUME DOMAIN file \in SUBSET Nat, DOMAIN file # {}
    PROVE  EarliestOffset \in DOMAIN file /\ EarliestOffset \in Nat /\ \A b \in DOMAIN file : EarliestOffset <= b
<1>1. PICK a \in DOMAIN file : \A b \in DOMAIN file : a <= b
  BY LeastNat
<1>2. Min(DOMAIN file) = a
  BY <1>1, MinIs
<1>3. QED
  BY <1>1, <1>2 DEF EarliestOffset, Bases

\* There are segments.
LEMMA SomeSegment ==
    ASSUME DiskInv
    PROVE  DOMAIN file \in SUBSET Nat /\ DOMAIN file # {} /\ DOMAIN Files = DOMAIN file
<1>1. DOMAIN file \in SUBSET Nat /\ file \in [DOMAIN file -> Seq(Entries)]
  BY DEF DiskInv, TypeOk
<1>2. DOMAIN Files = DOMAIN file
  BY <1>1 DEF Files
<1>3. QED
  BY <1>1, <1>2 DEF DiskInv, FileInv, FilesOk, Ended

\* What the operation that holds the locks is.
LEMMA Checking ==
    ASSUME DiskInv, work.op = "check"
    PROVE  up /\ work = [op |-> "check"] /\ pending = Idle /\ pass = NoPass /\ Replicated /\ ~Truncating
<1>1. "check" # "idle" /\ "check" # "truncate" /\ "check" # "range"
  OBVIOUS
<1>2. work # Idle /\ ~Truncating
  BY <1>1, Ops DEF Truncating
<1>3. work = [op |-> "check"] /\ pending = Idle
  BY <1>1, <1>2 DEF DiskInv, WorkOk, RangeOk
<1>4. QED
  BY <1>2, <1>3 DEF DiskInv, WorkOk

-----------------------------------------------------------------------------
(* Reads, checks and queueing.                                             *)

\* ReadMessages picks a segment below the watermark.
LEMMA ReadBeginKeeps ==
    ASSUME DiskInv, NEW o \in 0 .. MaxOffset, ReadBegin(o)
    PROVE  DiskInv'
<1> USE DEF fileVars, queueVars, markVars, history
<1>1. /\ UNCHANGED <<workload, up, writeCh, batch, absoluteOffset, flushedOffset, currentSegment, file, synced,
                      markers, writeFailure, pass, work, pending, leo, hwm, checkpoint, reconciled, committed,
                      acked>>
      /\ up /\ o \in EarliestOffset .. (Min({hwm, flushedOffset}) - 1) /\ reader' = {SegmentFor(o)}
  BY DEF ReadBegin
<1>2. TypeOk' /\ ModeOk' /\ WorkOk' /\ MarkOk'
  BY <1>1 DEF DiskInv, TypeOk, ModeOk, WorkOk, MarkOk, Replicated, Does
<1>3. FileInv'
  BY <1>1, SameFiles DEF DiskInv, FileInv, Truncating
<1>4. PendingOk' /\ TailOk' /\ PassOk'
  BY <1>1, SamePending, SameTail, SamePass DEF Truncating
<1>5. ReaderOk'
  <2>1. hwm \in Nat /\ flushedOffset \in Nat /\ committed \in Nat
    BY DEF DiskInv, TypeOk
  <2>2. Min({hwm, flushedOffset}) \in Nat /\ Min({hwm, flushedOffset}) <= hwm
    BY <2>1, PairExtrema
  <2>3. EarliestOffset \in DOMAIN file /\ EarliestOffset \in Nat
    BY SomeSegment, FirstIs
  <2>4. o \in Nat /\ EarliestOffset <= o /\ o < hwm
    BY <1>1, <2>1, <2>2, <2>3
  <2>5. PICK b \in DOMAIN file : Holds(file, b, o)
    BY <2>3, <2>4, SomeSegment, LookupFinds
  <2>6. SegmentFor(o) = b /\ b <= o /\ b \in Nat
    BY <2>5, SomeSegment, LookupIs DEF Holds
  <2>7. Replicated => b < committed
    BY <2>1, <2>4, <2>6 DEF DiskInv, MarkOk
  <2>8. QED
    BY <1>1, <2>5, <2>6, <2>7 DEF ReaderOk, Replicated, Does
<1>6. QED
  BY <1>2, <1>3, <1>4, <1>5 DEF DiskInv

\* ReadMessages releases it.
LEMMA ReadEndKeeps ==
    ASSUME DiskInv, ReadEnd
    PROVE  DiskInv'
<1> USE DEF fileVars, queueVars, markVars, history
<1>1. /\ UNCHANGED <<workload, up, writeCh, batch, absoluteOffset, flushedOffset, currentSegment, file, synced,
                      markers, writeFailure, pass, work, pending, leo, hwm, checkpoint, reconciled, committed,
                      acked>>
      /\ reader' = {}
  BY DEF ReadEnd
<1>2. TypeOk' /\ ModeOk' /\ WorkOk' /\ MarkOk'
  BY <1>1 DEF DiskInv, TypeOk, ModeOk, WorkOk, MarkOk, Replicated, Does
<1>3. FileInv'
  BY <1>1, SameFiles DEF DiskInv, FileInv, Truncating
<1>4. PendingOk' /\ TailOk' /\ PassOk' /\ ReaderOk'
  BY <1>1, SamePending, SameTail, SamePass, SameReader DEF Truncating
<1>5. QED
  BY <1>2, <1>3, <1>4 DEF DiskInv

\* A pass that meets a reader ends.
LEMMA CompactionDeferredKeeps ==
    ASSUME DiskInv, CompactionDeferred
    PROVE  DiskInv'
<1> USE DEF fileVars, queueVars, markVars, history
<1>1. /\ UNCHANGED <<workload, up, writeCh, batch, absoluteOffset, flushedOffset, currentSegment, file, synced,
                      markers, writeFailure, work, pending, reader, leo, hwm, checkpoint, reconciled, committed,
                      acked>>
      /\ pass' = NoPass /\ DOMAIN NoPass = {"drop", "todo"}
  BY DEF CompactionDeferred, NoPass
<1>2. TypeOk' /\ ModeOk' /\ WorkOk' /\ MarkOk'
  BY <1>1 DEF DiskInv, TypeOk, ModeOk, WorkOk, MarkOk, Replicated, Does
<1>3. FileInv'
  BY <1>1, SameFiles DEF DiskInv, FileInv, Truncating
<1>4. PendingOk' /\ TailOk' /\ PassOk' /\ ReaderOk'
  BY <1>1, SamePending, SameTail, SamePass, SameReader DEF Truncating
<1>5. QED
  BY <1>2, <1>3, <1>4 DEF DiskInv

\* TruncateTo's check for readers.
LEMMA TruncateCheckKeeps ==
    ASSUME DiskInv, TruncateCheck
    PROVE  DiskInv'
<1> USE DEF fileVars, queueVars, markVars, history
<1>1. /\ UNCHANGED <<workload, up, writeCh, batch, absoluteOffset, flushedOffset, currentSegment, file, synced,
                      markers, writeFailure, pass, pending, reader, leo, hwm, checkpoint, reconciled, committed,
                      acked>>
      /\ WithinHandler /\ work' = [op |-> "check"] /\ pass = NoPass /\ Replicated
  BY DEF TruncateCheck, Replicated
<1>2. up /\ pending = Idle /\ ~Truncating /\ ~Truncating'
  BY <1>1, IdleState DEF Truncating
<1>3. TypeOk' /\ ModeOk' /\ WorkOk' /\ MarkOk'
  BY <1>1, <1>2 DEF DiskInv, TypeOk, ModeOk, WorkOk, MarkOk, Replicated, Does
<1>4. FileInv'
  BY <1>1, <1>2, SameFiles DEF DiskInv, FileInv
<1>5. PendingOk' /\ TailOk' /\ PassOk' /\ ReaderOk'
  BY <1>1, <1>2, SamePending, SameTail, SamePass, SameReader
<1>6. QED
  BY <1>3, <1>4, <1>5 DEF DiskInv

\* TruncateTo without effect.
LEMMA TruncateRefusedKeeps ==
    ASSUME DiskInv, TruncateRefused
    PROVE  DiskInv'
<1> USE DEF fileVars, queueVars, markVars, history
<1>1. /\ UNCHANGED <<workload, up, writeCh, batch, absoluteOffset, flushedOffset, currentSegment, file, synced,
                      markers, writeFailure, pass, pending, reader, leo, hwm, checkpoint, reconciled, committed,
                      acked>>
      /\ work' = Idle /\ work.op = "check"
  BY DEF TruncateRefused
<1>2. up /\ pending = Idle /\ ~Truncating /\ ~Truncating'
  BY <1>1, Checking, Ops DEF Truncating
<1>3. TypeOk' /\ ModeOk' /\ WorkOk' /\ MarkOk'
  BY <1>1, <1>2 DEF DiskInv, TypeOk, ModeOk, WorkOk, MarkOk, Replicated, Does
<1>4. FileInv'
  BY <1>1, <1>2, SameFiles DEF DiskInv, FileInv
<1>5. PendingOk' /\ TailOk' /\ PassOk' /\ ReaderOk'
  BY <1>1, <1>2, SamePending, SameTail, SamePass, SameReader
<1>6. QED
  BY <1>3, <1>4, <1>5 DEF DiskInv

\* TruncateTo picks the segment the watermark falls into.
LEMMA TruncateBeginKeeps ==
    ASSUME DiskInv, TruncateBegin
    PROVE  DiskInv'
<1> USE DEF fileVars, queueVars, markVars, history
<1>1. /\ UNCHANGED <<workload, up, writeCh, batch, absoluteOffset, flushedOffset, currentSegment, file, synced,
                      markers, writeFailure, pass, pending, reader, leo, hwm, checkpoint, reconciled, committed,
                      acked>>
      /\ work.op = "check" /\ committed >= EarliestOffset /\ SegmentFor(committed) \notin markers
      /\ work' = [op |-> "truncate", to |-> committed, target |-> SegmentFor(committed)]
  BY DEF TruncateBegin
<1>2. up /\ pending = Idle /\ pass = NoPass /\ Replicated /\ Truncating'
  BY <1>1, Checking DEF Truncating
<1>3. Holds(file, SegmentFor(committed), committed)
  <2>1. EarliestOffset \in DOMAIN file /\ EarliestOffset \in Nat /\ committed \in Nat
    BY SomeSegment, FirstIs DEF DiskInv, TypeOk
  <2>2. PICK b \in DOMAIN file : Holds(file, b, committed)
    BY <1>1, <2>1, SomeSegment, LookupFinds
  <2>3. QED
    BY <2>2, SomeSegment, LookupIs
<1>4. TypeOk' /\ ModeOk' /\ MarkOk'
  BY <1>1, <1>2 DEF DiskInv, TypeOk, ModeOk, MarkOk, Replicated, Does
<1>5. WorkOk'
  <2>1. /\ DOMAIN work' = {"op", "to", "target"} /\ work'.op = "truncate" /\ work'.to = committed
        /\ work'.target = SegmentFor(committed)
    BY <1>1
  <2>2. Replicated'
    BY <1>1, <1>2 DEF Replicated, Does
  <2>3. QED
    BY <1>1, <1>2, <1>3, <2>1, <2>2 DEF WorkOk
<1>6. FileInv'
  BY <1>1, <1>2, SameFiles DEF DiskInv, FileInv
<1>7. PendingOk' /\ TailOk' /\ PassOk' /\ ReaderOk'
  BY <1>1, <1>2, SamePending, SameTail, SamePass, SameReader
<1>8. QED
  BY <1>4, <1>5, <1>6, <1>7 DEF DiskInv

\* ReconcileCommittedHWM when the log ends at the watermark: it is complete then.
LEMMA ReconcileAlignedKeeps ==
    ASSUME DiskInv, ReconcileAligned
    PROVE  DiskInv'
<1> USE DEF fileVars, queueVars, history
<1>1. /\ UNCHANGED <<workload, up, writeCh, batch, absoluteOffset, flushedOffset, currentSegment, file, synced,
                      markers, writeFailure, pass, work, pending, reader, leo, checkpoint, committed, acked>>
      /\ hwm' = committed /\ reconciled' = TRUE /\ leo = committed /\ WithinHandler /\ Replicated
  BY DEF ReconcileAligned, Replicated
<1>2. up /\ pending = Idle /\ ~Truncating /\ ~Truncating'
  BY <1>1, IdleState DEF Truncating
<1>3. flushedOffset = committed
  <2>1. batch = <<>> /\ writeCh = <<>>
    BY <1>1, Modes DEF DiskInv, ModeOk
  <2>2. leo = absoluteOffset /\ absoluteOffset = flushedOffset + Len(batch) + Len(writeCh) /\ flushedOffset \in Nat
    BY <1>2 DEF DiskInv, TailOk, TypeOk
  <2>3. Len(batch) = 0 /\ Len(writeCh) = 0
    BY <2>1
  <2>4. QED
    BY <1>1, <2>2, <2>3
<1>4. Whole(Files, markers)
  <2>1. /\ Files = file /\ IsLast(file, currentSegment) /\ currentSegment \in DOMAIN file
        /\ currentSegment <= flushedOffset /\ currentSegment \in Nat /\ DOMAIN file \in SUBSET Nat
        /\ committed \in Nat
    BY <1>2, WhenIdle, SomeSegment DEF DiskInv, TypeOk
  <2>2. SUFFICES ASSUME NEW b \in DOMAIN file, NEW o \in Nat, Holds(file, b, o), ~IsLast(file, b)
                 PROVE  b \in markers \/ o < b + Len(file[b])
    BY <2>1 DEF Whole
  <2>3. o < currentSegment
    BY <2>1, <2>2 DEF Holds, IsLast
  <2>4. o < committed
    BY <1>3, <2>1, <2>3
  <2>5. Covers(file, markers, committed)
    BY <1>1, <2>1 DEF DiskInv, FileInv
  <2>6. QED
    BY <2>2, <2>4, <2>5 DEF Covers
<1>5. TypeOk' /\ ModeOk' /\ WorkOk' /\ MarkOk'
  BY <1>1, <1>2 DEF DiskInv, TypeOk, ModeOk, WorkOk, MarkOk, Replicated, Does
<1>6. FileInv'
  BY <1>1, <1>4, SameFiles
<1>7. PendingOk' /\ TailOk' /\ PassOk' /\ ReaderOk'
  BY <1>1, <1>2, SamePending, SameTail, SamePass, SameReader
<1>8. QED
  BY <1>5, <1>6, <1>7 DEF DiskInv

\* A queue and the record behind it.
LEMMA DenseAppend ==
    ASSUME NEW s \in Seq(Entries), NEW b \in Nat, Dense(s, b), NEW r \in Entries, r.off = b + Len(s)
    PROVE  Append(s, r) \in Seq(Entries) /\ Len(Append(s, r)) = Len(s) + 1 /\ Dense(Append(s, r), b)
<1>1. Len(s) \in Nat /\ Append(s, r) \in Seq(Entries) /\ Len(Append(s, r)) = Len(s) + 1
  OBVIOUS
<1>2. \A i \in 1 .. Len(s) + 1 : Append(s, r)[i] = IF i <= Len(s) THEN s[i] ELSE r
  OBVIOUS
<1>3. ASSUME NEW i \in 1 .. Len(s) + 1 PROVE Append(s, r)[i].off = b + i - 1
  <2>1. CASE i <= Len(s)
    BY <1>1, <1>2, <2>1 DEF Dense
  <2>2. CASE i > Len(s)
    BY <1>1, <1>2, <2>2
  <2>3. QED
    BY <1>1, <2>1, <2>2
<1>4. QED
  BY <1>1, <1>3 DEF Dense

\* A queue without its head.
LEMMA DenseTail ==
    ASSUME NEW s \in Seq(Entries), NEW b \in Nat, Dense(s, b), s # <<>>
    PROVE  /\ Tail(s) \in Seq(Entries) /\ Len(Tail(s)) = Len(s) - 1 /\ Dense(Tail(s), b + 1)
           /\ Head(s) \in Entries /\ Head(s).off = b /\ Len(s) \in Nat \ {0}
<1>1. Len(s) \in Nat \ {0} /\ Tail(s) \in Seq(Entries) /\ Len(Tail(s)) = Len(s) - 1
  OBVIOUS
<1>2. \A i \in 1 .. Len(s) - 1 : Tail(s)[i] = s[i + 1]
  OBVIOUS
<1>3. Head(s) = s[1] /\ s[1] \in Entries
  BY <1>1
<1>4. Head(s).off = b
  BY <1>1, <1>3 DEF Dense
<1>5. ASSUME NEW i \in 1 .. Len(s) - 1 PROVE Tail(s)[i].off = b + 1 + i - 1
  <2>1. i + 1 \in 1 .. Len(s)
    BY <1>1
  <2>2. s[i + 1].off = b + (i + 1) - 1
    BY <2>1 DEF Dense
  <2>3. QED
    BY <1>2, <2>2
<1>6. QED
  BY <1>1, <1>3, <1>4, <1>5 DEF Dense

\* Enqueue with acks=0: the queue continues the files.
LEMMA EnqueueKeeps ==
    ASSUME DiskInv, NEW k \in Kinds, Enqueue(k)
    PROVE  DiskInv'
<1> USE DEF fileVars, queueVars, history
<1>1. /\ UNCHANGED <<workload, up, batch, flushedOffset, currentSegment, file, synced, markers, writeFailure,
                      pass, work, pending, reader, checkpoint, reconciled, committed, acked>>
      /\ WithinHandler /\ Does("queued") /\ writeCh' = Append(writeCh, Record(absoluteOffset, k))
      /\ absoluteOffset' = absoluteOffset + 1 /\ leo' = absoluteOffset + 1
      /\ hwm' = Max({hwm, absoluteOffset + 1})
  BY DEF Enqueue
<1>2. up /\ pending = Idle /\ ~Truncating /\ ~Truncating' /\ ~Replicated
  BY <1>1, IdleState, Modes DEF Truncating, DiskInv
<1>3. /\ absoluteOffset \in Nat /\ flushedOffset \in Nat /\ hwm \in Nat /\ batch \in Seq(Entries)
      /\ writeCh \in Seq(Entries)
  BY DEF DiskInv, TypeOk
<1>4. /\ leo = absoluteOffset /\ absoluteOffset = flushedOffset + Len(batch) + Len(writeCh)
      /\ Dense(batch, flushedOffset) /\ Dense(writeCh, flushedOffset + Len(batch))
  BY <1>2 DEF DiskInv, TailOk
<1>5. Len(batch) \in Nat /\ Len(writeCh) \in Nat /\ flushedOffset + Len(batch) \in Nat
  BY <1>3
<1>6. Record(absoluteOffset, k) \in Entries /\ Record(absoluteOffset, k).off = flushedOffset + Len(batch) + Len(writeCh)
  BY <1>3, <1>4, RecordEntry
<1>7. /\ writeCh' \in Seq(Entries) /\ Len(writeCh') = Len(writeCh) + 1
      /\ Dense(writeCh', flushedOffset + Len(batch))
  BY <1>1, <1>3, <1>4, <1>5, <1>6, DenseAppend
<1>8. hwm' \in Nat
  BY <1>1, <1>3, PairExtrema
<1>9. TypeOk' /\ ModeOk' /\ WorkOk' /\ MarkOk'
  <2>1. TypeOk'
    BY <1>1, <1>3, <1>7, <1>8 DEF DiskInv, TypeOk
  <2>2. ModeOk' /\ WorkOk' /\ MarkOk'
    BY <1>1, <1>2 DEF DiskInv, ModeOk, WorkOk, MarkOk, Replicated, Does
  <2>3. QED
    BY <2>1, <2>2
<1>10. FileInv' /\ Files' = Files /\ Syncs' = Syncs /\ Replicated' = Replicated
  BY <1>1, <1>2, SameFiles DEF DiskInv, FileInv
<1>11. PendingOk' /\ PassOk' /\ ReaderOk'
  BY <1>1, <1>2, SamePending, SamePass, SameReader
<1>12. TailOk'
  <2>1. leo' = absoluteOffset' /\ absoluteOffset' = flushedOffset' + Len(batch') + Len(writeCh')
    BY <1>1, <1>3, <1>4, <1>5, <1>7
  <2>2. Dense(batch', flushedOffset') /\ Dense(writeCh', flushedOffset' + Len(batch'))
    BY <1>1, <1>4, <1>7
  <2>3. QED
    BY <1>1, <1>2, <1>10, <2>1, <2>2 DEF DiskInv, TailOk
<1>13. QED
  BY <1>9, <1>10, <1>11, <1>12 DEF DiskInv

-----------------------------------------------------------------------------
(* Writes.                                                                 *)

\* A synced record is stored.
LEMMA SyncedStored ==
    ASSUME NEW c, NEW f, NEW y, NEW recs, NEW d, NEW g, NEW z, Extended(c, f, y, recs, TRUE, d, g, z),
           NEW i \in 1 .. Len(recs)
    PROVE  Stored(g, z, recs[i])
<1>1. d \in DOMAIN g /\ z[d] = Len(g[d]) /\ \E j \in 1 .. Len(g[d]) : g[d][j] = recs[i]
  BY DEF Extended
<1>2. QED
  BY <1>1 DEF Stored

\* What is acknowledged survives when it was acknowledged before or is stored.
LEMMA SurviveMore ==
    ASSUME NEW f, NEW y, NEW m, NEW A, NEW L, Survive(f, y, m, A, L), NEW B,
           \A r \in B : r \in A \/ (r \in Entries /\ r.off \in L /\ Stored(f, y, r))
    PROVE  Survive(f, y, m, B, L)
<1>1. SUFFICES ASSUME NEW r \in B, r \in Entries, r.off \in L, Stored(f, y, r)
               PROVE  Kept(f, y, m, L, r)
  BY DEF Survive
<1>2. Safe(f, y, L, r) /\ r.off >= r.off
  BY <1>1 DEF Safe, Entries
<1>3. Anchored(f, y, L, r)
  BY <1>1, <1>2 DEF Anchored
<1>4. QED
  BY <1>1, <1>3 DEF Kept

\* A write of n records in a state in which nothing else holds the locks.
Wrote(n, fsync) ==
    /\ FileInv' /\ PassOk' /\ ReaderOk' /\ PendingOk' /\ ~Truncating'
    /\ Files' = file' /\ Syncs' = synced'
    /\ DOMAIN file' \in SUBSET Nat /\ file' \in [DOMAIN file' -> Seq(Entries)]
    /\ synced' \in [DOMAIN file' -> Nat] /\ currentSegment' \in Nat
    /\ IsLast(file', currentSegment') /\ currentSegment' <= flushedOffset
    /\ currentSegment' + Len(file'[currentSegment']) = flushedOffset + n
    /\ Replicated => flushedOffset <= currentSegment' + synced'[currentSegment']
    /\ fsync => synced'[currentSegment'] = Len(file'[currentSegment'])

\* What a write at the tail does to the files, to a pass and to readers.
LEMMA FilesStep ==
    ASSUME DiskInv, WithinHandler, ~writeFailure, NEW recs \in Seq(Entries), NEW fsync \in BOOLEAN,
           WriteDone(currentSegment, file, synced, markers, recs, fsync,
                     [current |-> currentSegment', file |-> file', synced |-> synced']),
           UNCHANGED <<workload, markers, reconciled, committed>>,
           Files' = file' /\ Syncs' = synced' /\ ~Truncating' /\ PendingOk',
           \A r \in acked' : r \in acked \/ (fsync /\ r.off \in Limit /\ \E i \in 1 .. Len(recs) : r = recs[i]),
           pass' = pass \/ pass' = NoPass, reader' = reader \/ reader' = {}
    PROVE  Wrote(Len(recs), fsync)
<1> DEFINE c == currentSegment
<1>1. /\ up /\ pending = Idle /\ ~Truncating /\ Files = file /\ Syncs = synced /\ FilesOk(file, synced, markers)
      /\ IsLast(file, c) /\ c \in DOMAIN file /\ c \notin markers /\ c \in Nat
      /\ Len(file[c]) \in Nat /\ c + Len(file[c]) = flushedOffset /\ flushedOffset \in Nat
      /\ synced[c] \in Nat /\ synced[c] <= Len(file[c])
  BY IdleState, WhenIdle
<1>2. WriteDone(c, file, synced, markers, recs, fsync, [current |-> currentSegment', file |-> file', synced |-> synced'])
  OBVIOUS
<1>3. /\ FilesOk(file', synced', markers) /\ Carried(file, synced, markers, file', synced', markers)
      /\ Extended(c, file, synced, recs, fsync, currentSegment', file', synced')
      /\ Whole(file, markers) => Whole(file', markers)
      /\ \A x \in Nat : Covers(file, markers, x) /\ x <= c + Len(file[c]) => Covers(file', markers, x)
  BY <1>2 DEF WriteDone
<1>4. Limit' = Limit /\ Replicated' = Replicated
  BY DEF Limit, Replicated, Does
<1>5. /\ currentSegment' \in DOMAIN file' /\ IsLast(file', currentSegment') /\ currentSegment' \in Nat
      /\ currentSegment' <= flushedOffset
      /\ currentSegment' + Len(file'[currentSegment']) = flushedOffset + Len(recs)
      /\ fsync => synced'[currentSegment'] = Len(file'[currentSegment'])
      /\ DOMAIN file \subseteq DOMAIN file'
      /\ \A b \in DOMAIN file : b # c => b # currentSegment' /\ file'[b] = file[b] /\ synced'[b] = synced[b]
  BY <1>1, <1>3 DEF Extended
<1>6. Replicated => flushedOffset <= currentSegment' + synced'[currentSegment']
  <2>1. Replicated => c + Len(file[c]) <= c + synced[c]
    BY <1>1 DEF DiskInv, TailOk
  <2>2. QED
    BY <1>1, <1>3, <2>1 DEF Extended
<1>7. /\ DOMAIN file' \in SUBSET Nat /\ file' \in [DOMAIN file' -> Seq(Entries)]
      /\ synced' \in [DOMAIN file' -> Nat]
  BY <1>3 DEF FilesOk, Shape
<1>8. FileInv'
  <2>1. Survive(file', synced', markers, acked, Limit)
    BY <1>1, <1>3 DEF DiskInv, FileInv, Carried
  <2>2. ASSUME NEW r \in acked', r \notin acked PROVE r \in Entries /\ r.off \in Limit /\ Stored(file', synced', r)
    <3>1. fsync /\ r.off \in Limit
      BY <2>2
    <3>2. PICK i \in 1 .. Len(recs) : r = recs[i]
      BY <2>2
    <3>3. Extended(c, file, synced, recs, TRUE, currentSegment', file', synced')
      BY <1>3, <3>1
    <3>4. Stored(file', synced', recs[i])
      BY <3>3, SyncedStored
    <3>5. recs[i] \in Entries
      OBVIOUS
    <3>6. QED
      BY <3>1, <3>2, <3>4, <3>5
  <2>3. Survive(file', synced', markers, acked', Limit)
    BY <2>1, <2>2, SurviveMore
  <2>4. ASSUME Replicated
        PROVE  /\ Covers(file', markers, committed)
               /\ \A e \in DOMAIN file' : IsLast(file', e) => committed <= e + synced'[e]
    <3>1. /\ Covers(file, markers, committed) /\ committed \in Nat /\ committed <= c + synced[c]
      BY <1>1, <2>4 DEF DiskInv, FileInv, TypeOk
    <3>2. committed <= c + Len(file[c])
      BY <1>1, <3>1
    <3>3. Covers(file', markers, committed)
      BY <1>3, <3>1, <3>2
    <3>4. committed <= currentSegment' + synced'[currentSegment']
      <4>1. synced'[currentSegment'] \in Nat
        BY <1>5, <1>7
      <4>2. QED
        BY <1>1, <1>5, <1>6, <2>4, <3>1, <3>2, <4>1
    <3>5. \A e \in DOMAIN file' : IsLast(file', e) => e = currentSegment'
      BY <1>3, <1>5, LastIsUnique DEF FilesOk
    <3>6. QED
      BY <3>3, <3>4, <3>5
  <2>5. (Replicated => reconciled) => Whole(file', markers)
    BY <1>1, <1>3 DEF DiskInv, FileInv
  <2>6. QED
    BY <1>3, <1>4, <2>3, <2>4, <2>5 DEF FileInv
<1>9. PassOk'
  <2>1. CASE pass' = NoPass
    <3>1. pass'.todo = {}
      BY <2>1 DEF NoPass
    <3>2. QED
      BY <2>1, <3>1 DEF PassOk
  <2>2. CASE pass' = pass
    <3>1. \A L, r : Safe(file, synced, L, r) => Safe(file', synced', L, r)
      BY <1>3 DEF Carried, Safe
    <3>2. \A L, D, r : Dispensable(file, synced, L, D, r) => Dispensable(file', synced', L, D, r)
      BY <3>1 DEF Dispensable
    <3>3. pass.todo \subseteq DOMAIN file \ {c}
      BY DEF DiskInv, PassOk
    <3>4. ASSUME NEW b \in pass.todo, NEW i \in 1 .. Len(file'[b]), file'[b][i].off \in pass.drop
          PROVE  Dispensable(file', synced', Limit, pass.drop, file'[b][i])
      <4>1. file'[b] = file[b]
        BY <1>5, <3>3
      <4>2. Dispensable(file, synced, Limit, pass.drop, file[b][i])
        BY <3>4, <4>1 DEF DiskInv, PassOk
      <4>3. QED
        BY <3>2, <4>1, <4>2
    <3>5. pass'.todo \subseteq DOMAIN file' \ {currentSegment'}
      BY <1>5, <2>2, <3>3
    <3>6. pass' # NoPass => pass'.todo # {}
      BY <2>2 DEF DiskInv, PassOk
    <3>7. QED
      BY <1>4, <2>2, <3>4, <3>5, <3>6 DEF PassOk
  <2>3. QED
    BY <2>1, <2>2
<1>10. ReaderOk'
  BY <1>4, <1>5 DEF DiskInv, ReaderOk
<1>11. QED
  BY <1>5, <1>6, <1>7, <1>8, <1>9, <1>10 DEF Wrote

\* A write of records, with or without a roll.
LEMMA WriteStep ==
    ASSUME DiskInv, WithinHandler, ~writeFailure,
           NEW recs \in Seq(Entries), recs # <<>>, Dense(recs, flushedOffset),
           NEW fsync \in BOOLEAN, NEW roll \in BOOLEAN,
           SetFiles(Written(IF roll THEN RotateSegment(View, recs[1].off) ELSE View, recs, fsync)),
           UNCHANGED <<workload, markers, work, pending, reconciled, committed>>,
           \A r \in acked' : r \in acked \/ (fsync /\ r.off \in Limit /\ \E i \in 1 .. Len(recs) : r = recs[i]),
           pass' = pass \/ pass' = NoPass, reader' = reader \/ reader' = {}
    PROVE  Wrote(Len(recs), fsync)
<1>1. /\ pending = Idle /\ ~Truncating /\ FilesOk(file, synced, markers) /\ IsLast(file, currentSegment)
      /\ currentSegment \notin markers /\ currentSegment + Len(file[currentSegment]) = flushedOffset
  BY IdleState, WhenIdle
<1>2. WriteDone(currentSegment, file, synced, markers, recs, fsync, [current |-> currentSegment', file |-> file', synced |-> synced'])
  <2> DEFINE w == Written(IF roll THEN RotateSegment(View, recs[1].off) ELSE View, recs, fsync)
  <2>1. View.current = currentSegment /\ View.file = file /\ View.synced = synced
    BY DEF View
  <2>2. WriteDone(currentSegment, file, synced, markers, recs, fsync, w)
    BY <1>1, <2>1, RolledWrite
  <2>3. currentSegment' = w.current /\ file' = w.file /\ synced' = w.synced
    BY DEF SetFiles
  <2> HIDE DEF w
  <2>4. QED
    BY <2>2, <2>3 DEF WriteDone
<1>3. Files' = file' /\ Syncs' = synced' /\ ~Truncating' /\ PendingOk'
  BY <1>1 DEF Files, Syncs, Truncating, PendingOk
<1>4. QED
  BY <1>2, <1>3, FilesStep

\* A roll at the tail is a write of nothing.
LEMMA RollWrites ==
    ASSUME DiskInv, WithinHandler, ~writeFailure, SetFiles(RotateSegment(View, flushedOffset))
    PROVE  /\ RollDone(currentSegment, file, synced, markers,
                       [current |-> currentSegment', file |-> file', synced |-> synced'])
           /\ WriteDone(currentSegment, file, synced, markers, <<>>, FALSE,
                        [current |-> currentSegment', file |-> file', synced |-> synced'])
<1> DEFINE c == currentSegment
           d == currentSegment'
           w == RotateSegment(View, flushedOffset)
<1>1. /\ FilesOk(file, synced, markers) /\ IsLast(file, c) /\ c \in DOMAIN file /\ c \in Nat
      /\ c \notin markers /\ c + Len(file[c]) = flushedOffset /\ Len(file[c]) \in Nat
  BY IdleState, WhenIdle
<1>2. View.current = c /\ View.file = file /\ View.synced = synced
  BY DEF View
<1>3. RollDone(c, file, synced, markers, w)
  BY <1>1, <1>2, RotatedDone
<1>4. d = w.current /\ file' = w.file /\ synced' = w.synced
  BY DEF SetFiles
<1> HIDE DEF w
<1>5. RollDone(c, file, synced, markers, [current |-> d, file |-> file', synced |-> synced'])
  BY <1>3, <1>4 DEF RollDone
<1>6. /\ FilesOk(file', synced', markers) /\ Carried(file, synced, markers, file', synced', markers)
      /\ IsLast(file', d) /\ d \in Nat /\ d >= c /\ d + Len(file'[d]) = c + Len(file[c])
      /\ DOMAIN file \subseteq DOMAIN file' /\ \A b \in DOMAIN file : file'[b] = file[b]
      /\ \A b \in DOMAIN file : b # c => b # d /\ synced'[b] = synced[b]
      /\ d # c => d = c + Len(file[c]) /\ synced'[d] = 0
      /\ d = c => synced'[c] = synced[c]
      /\ Whole(file, markers) => Whole(file', markers)
      /\ \A x \in Nat : Covers(file, markers, x) /\ x <= c + Len(file[c]) => Covers(file', markers, x)
  BY <1>5 DEF RollDone
<1>7. Extended(c, file, synced, <<>>, FALSE, d, file', synced')
  <2>1. d \in DOMAIN file' /\ file'[c] = file[c] /\ Len(<<>>) = 0 /\ d <= c + Len(file[c])
    <3>1. d \in DOMAIN file' /\ file'[c] = file[c] /\ Len(<<>>) = 0
      BY <1>1, <1>6 DEF IsLast
    <3>2. d <= c + Len(file[c])
      BY <1>1, <1>6
    <3>3. QED
      BY <3>1, <3>2
  <2>2. Len(file'[c]) >= Len(file[c]) /\ d + Len(file'[d]) = c + Len(file[c]) + Len(<<>>)
    BY <1>1, <1>6, <2>1
  <2>3. c + Len(file[c]) <= c + synced[c] => c + Len(file[c]) <= d + synced'[d]
    BY <1>1, <1>6
  <2>4. \A i \in 1 .. Len(<<>>) : \E j \in 1 .. Len(file'[d]) : file'[d][j] = <<>>[i]
    BY <2>1
  <2>5. QED
    BY <1>6, <2>1, <2>2, <2>3, <2>4 DEF Extended
<1>8. QED
  BY <1>5, <1>6, <1>7 DEF WriteDone

\* The offsets after a write, acknowledged or failed.
LEMMA TailAfter ==
    ASSUME DiskInv, NEW n \in Nat, NEW fsync \in BOOLEAN, Wrote(n, fsync), workload' = workload,
           committed' = committed,
           leo' = absoluteOffset', absoluteOffset' = flushedOffset' + Len(batch') + Len(writeCh'),
           Dense(batch', flushedOffset'), Dense(writeCh', flushedOffset' + Len(batch')),
           Replicated => committed <= leo',
           \/ flushedOffset' = flushedOffset + n /\ (Replicated => fsync)
           \/ flushedOffset' = flushedOffset /\ n = 1 /\ writeFailure'
    PROVE  TailOk'
<1>1. Replicated' = Replicated
  BY DEF Replicated, Does
<1>2. /\ Files' = file' /\ Syncs' = synced' /\ IsLast(file', currentSegment') /\ currentSegment' \in DOMAIN file'
      /\ currentSegment' <= flushedOffset
      /\ currentSegment' + Len(file'[currentSegment']) = flushedOffset + n
      /\ Replicated => flushedOffset <= currentSegment' + synced'[currentSegment']
      /\ fsync => synced'[currentSegment'] = Len(file'[currentSegment'])
      /\ currentSegment' \in Nat /\ flushedOffset \in Nat /\ file'[currentSegment'] \in Seq(Entries)
      /\ synced'[currentSegment'] \in Nat
  BY DEF Wrote, IsLast, DiskInv, TypeOk
<1>3. Len(file'[currentSegment']) \in Nat
  BY <1>2
<1>4. CASE flushedOffset' = flushedOffset + n /\ (Replicated => fsync)
  <2>1. currentSegment' <= flushedOffset' /\ currentSegment' + Len(file'[currentSegment']) = flushedOffset'
    BY <1>2, <1>4
  <2>2. Replicated => flushedOffset' <= currentSegment' + synced'[currentSegment']
    BY <1>2, <1>3, <1>4, <2>1
  <2>3. QED
    BY <1>1, <1>2, <2>1, <2>2 DEF TailOk
<1>5. CASE flushedOffset' = flushedOffset /\ n = 1 /\ writeFailure'
  <2>1. currentSegment' <= flushedOffset' /\ currentSegment' + Len(file'[currentSegment']) = flushedOffset' + 1
    BY <1>2, <1>5
  <2>2. Replicated => flushedOffset' <= currentSegment' + synced'[currentSegment']
    BY <1>2, <1>5
  <2>3. QED
    BY <1>1, <1>2, <1>5, <2>1, <2>2 DEF TailOk
<1>6. QED
  BY <1>4, <1>5

\* Without queued records every offset is the tail.
LEMMA NoQueue ==
    ASSUME DiskInv, up, ~Does("queued")
    PROVE  batch = <<>> /\ writeCh = <<>> /\ absoluteOffset = flushedOffset /\ leo = flushedOffset
           /\ flushedOffset \in Nat
<1>1. batch = <<>> /\ writeCh = <<>>
  BY DEF DiskInv, ModeOk
<1>2. Len(batch) = 0 /\ Len(writeCh) = 0
  BY <1>1
<1>3. leo = absoluteOffset /\ absoluteOffset = flushedOffset + Len(batch) + Len(writeCh) /\ flushedOffset \in Nat
  BY DEF DiskInv, TailOk, TypeOk
<1>4. QED
  BY <1>1, <1>2, <1>3

\* One record at the tail.
LEMMA OneRecord ==
    ASSUME NEW o \in Nat, NEW k \in Kinds
    PROVE  /\ <<Record(o, k)>> \in Seq(Entries) /\ <<Record(o, k)>> # <<>> /\ Len(<<Record(o, k)>>) = 1
           /\ Dense(<<Record(o, k)>>, o) /\ <<Record(o, k)>>[1].off = o /\ <<Record(o, k)>>[1] = Record(o, k)
<1>1. Record(o, k) \in Entries /\ Record(o, k).off = o
  BY RecordEntry
<1>2. QED
  BY <1>1 DEF Dense

\* Nothing queued is contiguous from any offset.
LEMMA EmptyDense == \A b : Dense(<<>>, b)
BY DEF Dense

\* EnqueueSync with acks=1: what is acknowledged is stored.
LEMMA EnqueueSyncKeeps ==
    ASSUME DiskInv, NEW k \in Kinds, EnqueueSync(k)
    PROVE  DiskInv'
<1> USE DEF queueVars
<1> DEFINE r == Record(absoluteOffset, k)
           recs == <<r>>
<1>1. /\ UNCHANGED <<workload, up, batch, writeCh, markers, writeFailure, pass, work, pending, reader, checkpoint,
                      reconciled, committed>>
      /\ WithinHandler /\ Does("direct") /\ ~writeFailure
      /\ absoluteOffset' = r.off + 1 /\ flushedOffset' = r.off + 1 /\ leo' = r.off + 1
      /\ hwm' = Max({hwm, r.off + 1}) /\ acked' = acked \cup {r}
  BY DEF EnqueueSync
<1>2. PICK roll \in Rolls(View, 1) : SetFiles(Written(IF roll THEN RotateSegment(View, r.off) ELSE View, recs, TRUE))
  BY DEF EnqueueSync
<1>3. roll \in BOOLEAN
  BY DEF Rolls
<1>4. up /\ pending = Idle /\ ~Truncating /\ ~Replicated /\ ~Does("queued")
  BY <1>1, IdleState, Modes DEF DiskInv
<1>5. batch = <<>> /\ writeCh = <<>> /\ absoluteOffset = flushedOffset /\ leo = flushedOffset /\ flushedOffset \in Nat
  BY <1>4, NoQueue
<1>6. recs \in Seq(Entries) /\ recs # <<>> /\ Len(recs) = 1 /\ Dense(recs, flushedOffset)
      /\ recs[1].off = r.off /\ recs[1] = r /\ r.off = flushedOffset /\ r \in Entries
  BY <1>5, OneRecord, RecordEntry
<1> HIDE DEF r, recs
<1>7. Limit = Nat
  BY <1>4 DEF Limit
<1>8. \A q \in acked' : q \in acked \/ (TRUE /\ q.off \in Limit /\ \E i \in 1 .. Len(recs) : q = recs[i])
  BY <1>1, <1>5, <1>6, <1>7
<1>9. SetFiles(Written(IF roll THEN RotateSegment(View, recs[1].off) ELSE View, recs, TRUE))
  BY <1>2, <1>6
<1>10. Wrote(Len(recs), TRUE)
  BY <1>1, <1>3, <1>6, <1>8, <1>9, WriteStep
<1>11. TailOk'
  <2>1. Dense(batch', flushedOffset') /\ Dense(writeCh', flushedOffset' + Len(batch')) /\ Len(batch') = 0 /\ Len(writeCh') = 0
    BY <1>1, <1>5, EmptyDense
  <2>2. absoluteOffset' = flushedOffset' + Len(batch') + Len(writeCh') /\ flushedOffset' = flushedOffset + Len(recs)
    BY <1>1, <1>5, <1>6, <2>1
  <2>3. QED
    BY <1>1, <1>4, <1>6, <1>10, <2>1, <2>2, TailAfter
<1>12. TypeOk'
  <2>1. hwm' \in Nat /\ flushedOffset' \in Nat /\ absoluteOffset' \in Nat /\ leo' \in Nat
    <3>1. hwm \in Nat /\ r.off + 1 \in Nat
      BY <1>5, <1>6 DEF DiskInv, TypeOk
    <3>2. QED
      BY <1>1, <3>1, PairExtrema
  <2>2. QED
    BY <1>1, <1>10, <2>1 DEF DiskInv, TypeOk, Wrote
<1>13. ModeOk' /\ WorkOk' /\ MarkOk'
  BY <1>1, <1>4, Ops DEF DiskInv, ModeOk, WorkOk, MarkOk, Replicated, Does, WithinHandler
<1>14. QED
  BY <1>10, <1>11, <1>12, <1>13 DEF DiskInv, Wrote

\* A write that fails at its fsync: one record behind the tail at most, and no further write.
LEMMA WriteFailsKeeps ==
    ASSUME DiskInv, NEW k \in Kinds, WriteFails(k)
    PROVE  DiskInv'
<1> USE DEF queueVars, markVars
<1> DEFINE r == Record(absoluteOffset, k)
           recs == <<r>>
<1>1. UNCHANGED <<workload, up, batch, writeCh, absoluteOffset, flushedOffset, markers, pass, work, pending,
                   reader, leo, hwm, checkpoint, reconciled, committed, acked>>
  BY DEF WriteFails
<1>2. PICK roll \in Rolls(View, 1) :
         SetFiles(Written(IF roll THEN RotateSegment(View, absoluteOffset) ELSE View, recs, FALSE))
  BY DEF WriteFails
<1>3. roll \in BOOLEAN /\ WithinHandler /\ ~writeFailure /\ Does("fault") /\ writeFailure' = TRUE
  BY DEF Rolls, WriteFails
<1>4. up /\ work = Idle /\ pending = Idle /\ ~Truncating /\ ~Does("queued")
  <2>1. Does("direct") \/ Replicated
    BY DEF WriteFails, Replicated
  <2>2. QED
    BY <1>3, <2>1, IdleState, Modes DEF DiskInv
<1>5. batch = <<>> /\ writeCh = <<>> /\ absoluteOffset = flushedOffset /\ leo = flushedOffset /\ flushedOffset \in Nat
  BY <1>4, NoQueue
<1>6. recs \in Seq(Entries) /\ recs # <<>> /\ Len(recs) = 1 /\ Dense(recs, flushedOffset)
      /\ recs[1].off = absoluteOffset
  BY <1>5, OneRecord
<1> HIDE DEF r, recs
<1>7. SetFiles(Written(IF roll THEN RotateSegment(View, recs[1].off) ELSE View, recs, FALSE))
  BY <1>2, <1>6
<1>8. Wrote(Len(recs), FALSE)
  BY <1>1, <1>3, <1>6, <1>7, WriteStep
<1>9. TailOk'
  <2>1. Dense(batch', flushedOffset') /\ Dense(writeCh', flushedOffset' + Len(batch')) /\ Len(batch') = 0 /\ Len(writeCh') = 0
    BY <1>1, <1>5, EmptyDense
  <2>2. /\ absoluteOffset' = flushedOffset' + Len(batch') + Len(writeCh') /\ leo' = absoluteOffset'
        /\ flushedOffset' = flushedOffset
    BY <1>1, <1>5, <2>1
  <2>3. Replicated => committed <= leo'
    BY <1>1, <1>4 DEF DiskInv, TailOk
  <2>4. QED
    BY <1>1, <1>3, <1>6, <1>8, <2>1, <2>2, <2>3, TailAfter
<1>10. TypeOk'
  BY <1>1, <1>3, <1>8 DEF DiskInv, TypeOk, Wrote
<1>11. ModeOk' /\ WorkOk' /\ MarkOk'
  BY <1>1, <1>3, <1>4, <1>5, Ops DEF DiskInv, ModeOk, WorkOk, MarkOk, Replicated, Does
<1>12. QED
  BY <1>8, <1>9, <1>10, <1>11 DEF DiskInv, Wrote

\* WriteBatch of records at the tail.
LEMMA BatchStep ==
    ASSUME DiskInv, WithinHandler, ~writeFailure,
           NEW recs \in Seq(Entries), recs # <<>>, Dense(recs, flushedOffset), NEW fsync \in BOOLEAN,
           WriteBatch(recs, fsync),
           UNCHANGED <<workload, markers, work, pending, reconciled, committed, acked>>,
           pass' = pass \/ pass' = NoPass, reader' = reader \/ reader' = {}
    PROVE  /\ Wrote(Len(recs), fsync) /\ flushedOffset' = flushedOffset + Len(recs)
           /\ absoluteOffset' = IF absoluteOffset <= flushedOffset' THEN flushedOffset' ELSE absoluteOffset
           /\ flushedOffset' \in Nat /\ absoluteOffset' \in Nat
<1>1. PICK roll \in Rolls(View, Len(recs)) :
         /\ SetFiles(Written(IF roll THEN RotateSegment(View, recs[1].off) ELSE View, recs, fsync))
         /\ absoluteOffset' = Max({absoluteOffset, Last(recs).off + 1})
         /\ flushedOffset' = FlushedTail(recs)
  BY DEF WriteBatch
<1>2. roll \in BOOLEAN
  BY DEF Rolls
<1>3. Wrote(Len(recs), fsync)
  BY <1>1, <1>2, WriteStep
<1>4. Len(recs) \in Nat \ {0} /\ flushedOffset \in Nat /\ absoluteOffset \in Nat
  BY DEF DiskInv, TypeOk
<1>5. Last(recs).off + 1 = flushedOffset + Len(recs)
  <2>1. recs[Len(recs)].off = flushedOffset + Len(recs) - 1
    BY <1>4 DEF Dense
  <2>2. QED
    BY <1>4, <2>1 DEF Last
<1>6. flushedOffset' = flushedOffset + Len(recs) /\ absoluteOffset' = Max({absoluteOffset, flushedOffset + Len(recs)})
  BY <1>1, <1>5 DEF FlushedTail
<1>7. QED
  BY <1>3, <1>4, <1>6, PairExtrema

\* EnqueueBatchLeader and ReplicaAppend.
LEMMA EnqueueBatchLeaderKeeps ==
    ASSUME DiskInv, NEW ks \in Seq(Kinds), ks # <<>>, EnqueueBatchLeader(ks)
    PROVE  DiskInv'
<1> USE DEF queueVars, history
<1> DEFINE recs == [i \in 1 .. Len(ks) |-> Record(leo + i - 1, ks[i])]
<1>1. /\ UNCHANGED <<workload, up, batch, writeCh, markers, writeFailure, pass, work, pending, reader, hwm,
                      checkpoint, reconciled, committed, acked>>
      /\ WithinHandler /\ Replicated /\ ~writeFailure /\ WriteBatch(recs, TRUE) /\ leo' = leo + Len(ks)
  BY DEF EnqueueBatchLeader, Replicated
<1>2. up /\ work = Idle /\ pending = Idle /\ ~Truncating /\ ~Does("queued")
  BY <1>1, IdleState, Modes DEF DiskInv
<1>3. batch = <<>> /\ writeCh = <<>> /\ absoluteOffset = flushedOffset /\ leo = flushedOffset /\ flushedOffset \in Nat
  BY <1>2, NoQueue
<1>4. Len(ks) \in Nat \ {0}
  OBVIOUS
<1>5. \A i \in 1 .. Len(ks) : Record(leo + i - 1, ks[i]) \in Entries /\ Record(leo + i - 1, ks[i]).off = flushedOffset + i - 1
  <2>1. SUFFICES ASSUME NEW i \in 1 .. Len(ks)
                 PROVE  Record(leo + i - 1, ks[i]) \in Entries /\ Record(leo + i - 1, ks[i]).off = flushedOffset + i - 1
    OBVIOUS
  <2>2. leo + i - 1 \in Nat /\ leo + i - 1 = flushedOffset + i - 1 /\ ks[i] \in Kinds
    BY <1>3
  <2>3. QED
    BY <2>2, RecordEntry
<1>6. recs \in Seq(Entries) /\ Len(recs) = Len(ks) /\ \A i \in 1 .. Len(ks) : recs[i] = Record(leo + i - 1, ks[i])
  BY <1>4, <1>5
<1> HIDE DEF recs
<1>7. recs # <<>> /\ Dense(recs, flushedOffset)
  BY <1>4, <1>5, <1>6 DEF Dense
<1>8. /\ Wrote(Len(recs), TRUE) /\ flushedOffset' = flushedOffset + Len(recs) /\ absoluteOffset' = flushedOffset'
      /\ flushedOffset' \in Nat
  <2>1. /\ Wrote(Len(recs), TRUE) /\ flushedOffset' = flushedOffset + Len(recs)
        /\ absoluteOffset' = IF absoluteOffset <= flushedOffset' THEN flushedOffset' ELSE absoluteOffset
        /\ flushedOffset' \in Nat
    BY <1>1, <1>6, <1>7, BatchStep
  <2>2. Len(recs) \in Nat
    BY <1>4, <1>6
  <2>3. absoluteOffset <= flushedOffset'
    BY <1>3, <2>1, <2>2
  <2>4. QED
    BY <2>1, <2>3
<1>9. TailOk'
  <2>1. Dense(batch', flushedOffset') /\ Dense(writeCh', flushedOffset' + Len(batch')) /\ Len(batch') = 0 /\ Len(writeCh') = 0
    BY <1>1, <1>3, EmptyDense
  <2>2. absoluteOffset' = flushedOffset' + Len(batch') + Len(writeCh') /\ leo' = absoluteOffset'
    BY <1>1, <1>3, <1>6, <1>8, <2>1
  <2>3. committed <= leo'
    BY <1>1, <1>2, <1>3, <1>4 DEF DiskInv, TailOk, TypeOk
  <2>4. QED
    BY <1>1, <1>4, <1>6, <1>8, <2>1, <2>2, <2>3, TailAfter
<1>10. TypeOk'
  BY <1>1, <1>3, <1>6, <1>8 DEF DiskInv, TypeOk, Wrote
<1>11. ModeOk' /\ WorkOk' /\ MarkOk'
  BY <1>1, <1>2, <1>3, Ops DEF DiskInv, ModeOk, WorkOk, MarkOk, Replicated, Does
<1>12. QED
  BY <1>8, <1>9, <1>10, <1>11 DEF DiskInv, Wrote

\* The tail after r of b + w queued records were written.
LEMMA QueueSum ==
    ASSUME NEW t \in Nat, NEW b \in Nat, NEW w \in Nat, NEW r \in Nat, NEW v \in Nat, r + v = b + w
    PROVE  /\ t + b + w = (t + r) + v /\ t + r <= t + b + w /\ t + b + w \in Nat
           /\ t + b + w <= t + r => t + b + w = t + r
OBVIOUS

\* The queue without its first n records; all of it goes when the handler closes.
QueueLeft(n) ==
    /\ batch' = <<>> /\ writeCh' \in Seq(Entries)
    /\ n + Len(writeCh') = Len(batch) + Len(writeCh) /\ Dense(writeCh', flushedOffset + n)
    /\ \/ up' = up
       \/ up' = FALSE /\ pass' = NoPass /\ reader' = {} /\ writeCh' = <<>>

\* The flush loop writes what is first in the queue.
LEMMA QueueStep ==
    ASSUME DiskInv, WithinHandler, Does("queued"), ~writeFailure,
           NEW recs \in Seq(Entries), recs # <<>>, Dense(recs, flushedOffset), NEW fsync \in BOOLEAN,
           WriteBatch(recs, fsync),
           UNCHANGED <<workload, writeFailure, markers, work, pending, reconciled, committed, acked, leo>>,
           hwm' = hwm, checkpoint' \in Nat,
           pass' = pass \/ pass' = NoPass, reader' = reader \/ reader' = {},
           QueueLeft(Len(recs))
    PROVE  DiskInv'
<1>1. up /\ work = Idle /\ pending = Idle /\ ~Truncating /\ ~Replicated /\ ~Replicated'
  BY IdleState, Modes DEF DiskInv, Replicated, Does
<1>2. /\ Wrote(Len(recs), fsync) /\ flushedOffset' = flushedOffset + Len(recs)
      /\ absoluteOffset' = IF absoluteOffset <= flushedOffset' THEN flushedOffset' ELSE absoluteOffset
      /\ flushedOffset' \in Nat /\ absoluteOffset' \in Nat
  BY BatchStep
<1>3. leo = absoluteOffset /\ absoluteOffset = flushedOffset + Len(batch) + Len(writeCh)
  BY <1>1 DEF DiskInv, TailOk
<1>4. flushedOffset \in Nat /\ batch \in Seq(Entries) /\ writeCh \in Seq(Entries)
  BY DEF DiskInv, TypeOk
<1>5. /\ absoluteOffset = flushedOffset' + Len(writeCh') /\ absoluteOffset' = absoluteOffset
      /\ Len(recs) \in Nat
  <2>1. Len(batch) \in Nat /\ Len(writeCh) \in Nat
    BY <1>4
  <2>2. writeCh' \in Seq(Entries) /\ Len(recs) + Len(writeCh') = Len(batch) + Len(writeCh)
    BY DEF QueueLeft
  <2>3. Len(recs) \in Nat /\ Len(writeCh') \in Nat
    BY <2>2
  <2>4. /\ flushedOffset + Len(batch) + Len(writeCh) = (flushedOffset + Len(recs)) + Len(writeCh')
        /\ flushedOffset + Len(batch) + Len(writeCh) <= flushedOffset + Len(recs)
              => flushedOffset + Len(batch) + Len(writeCh) = flushedOffset + Len(recs)
    BY <1>4, <2>1, <2>2, <2>3, QueueSum
  <2>5. QED
    BY <1>2, <1>3, <2>3, <2>4
<1>6. TailOk'
  <2>1. Len(batch') = 0 /\ Dense(batch', flushedOffset')
    BY EmptyDense DEF QueueLeft
  <2>2. writeCh' \in Seq(Entries) /\ Dense(writeCh', flushedOffset')
    BY <1>2 DEF QueueLeft
  <2>3. flushedOffset' + Len(batch') = flushedOffset'
    BY <1>2, <2>1
  <2>4. absoluteOffset' = flushedOffset' + Len(batch') + Len(writeCh')
    BY <1>5, <2>3
  <2>5. leo' = absoluteOffset' /\ Dense(writeCh', flushedOffset' + Len(batch'))
    BY <1>3, <1>5, <2>2, <2>3
  <2>6. QED
    BY <1>1, <1>2, <1>5, <2>1, <2>4, <2>5, TailAfter
<1>7. TypeOk'
  <2>1. batch' \in Seq(Entries) /\ writeCh' \in Seq(Entries)
    BY DEF QueueLeft
  <2>2. up' \in BOOLEAN
    BY DEF QueueLeft, DiskInv, TypeOk
  <2>3. DOMAIN pass' = {"drop", "todo"}
    BY DEF DiskInv, TypeOk, NoPass
  <2>4. QED
    BY <1>2, <2>1, <2>2, <2>3 DEF DiskInv, TypeOk, Wrote
<1>8. ModeOk' /\ WorkOk' /\ MarkOk'
  BY <1>1, Ops DEF QueueLeft, DiskInv, ModeOk, WorkOk, MarkOk, Replicated, Does
<1>9. QED
  BY <1>2, <1>6, <1>7, <1>8 DEF DiskInv, Wrote

\* flushLoop takes a record and may write the batch.
LEMMA FlushLoopTakeKeeps ==
    ASSUME DiskInv, FlushLoopTake
    PROVE  DiskInv'
<1> USE DEF markVars, history
<1> DEFINE b == Append(batch, Head(writeCh))
<1>1. /\ UNCHANGED <<workload, up, markers, writeFailure, pass, work, pending, reader, leo, hwm, checkpoint,
                      reconciled, committed, acked>>
      /\ WithinHandler /\ writeCh # <<>> /\ writeCh' = Tail(writeCh)
      /\ \/ batch' = <<>> /\ FlushBatch(b)
         \/ batch' = b /\ UNCHANGED <<absoluteOffset, flushedOffset, currentSegment, file, synced>>
  BY DEF FlushLoopTake
<1>2. up /\ work = Idle /\ pending = Idle /\ ~Truncating /\ Does("queued") /\ ~Replicated /\ ~writeFailure
  BY <1>1, IdleState, Modes DEF DiskInv, ModeOk
<1>3. /\ absoluteOffset \in Nat /\ flushedOffset \in Nat /\ batch \in Seq(Entries) /\ writeCh \in Seq(Entries)
      /\ leo = absoluteOffset /\ absoluteOffset = flushedOffset + Len(batch) + Len(writeCh)
      /\ Dense(batch, flushedOffset) /\ Dense(writeCh, flushedOffset + Len(batch)) /\ checkpoint \in Nat
  BY <1>2 DEF DiskInv, TypeOk, TailOk
<1>4. Len(batch) \in Nat /\ Len(writeCh) \in Nat /\ flushedOffset + Len(batch) \in Nat
  BY <1>3
<1>5. /\ Tail(writeCh) \in Seq(Entries) /\ Len(Tail(writeCh)) = Len(writeCh) - 1
      /\ Dense(Tail(writeCh), flushedOffset + Len(batch) + 1)
      /\ Head(writeCh) \in Entries /\ Head(writeCh).off = flushedOffset + Len(batch)
  BY <1>1, <1>3, <1>4, DenseTail
<1>6. b \in Seq(Entries) /\ Len(b) = Len(batch) + 1 /\ Dense(b, flushedOffset)
  BY <1>3, <1>5, DenseAppend
<1> HIDE DEF b
<1>7. b # <<>> /\ flushedOffset + Len(batch) + 1 = flushedOffset + Len(b)
  BY <1>3, <1>4, <1>6
<1>8. CASE batch' = <<>> /\ FlushBatch(b)
  <2>1. WriteBatch(b, FALSE)
    BY <1>2, <1>7, <1>8 DEF FlushBatch
  <2>2. writeCh' \in Seq(Entries) /\ Len(b) + Len(writeCh') = Len(batch) + Len(writeCh) /\ Dense(writeCh', flushedOffset + Len(b))
    BY <1>1, <1>4, <1>5, <1>6, <1>7
  <2>3. QED
    BY <1>1, <1>2, <1>3, <1>6, <1>7, <1>8, <2>1, <2>2, QueueStep DEF QueueLeft
<1>9. CASE batch' = b /\ UNCHANGED <<absoluteOffset, flushedOffset, currentSegment, file, synced>>
  <2>1. TypeOk'
    BY <1>1, <1>5, <1>6, <1>9 DEF DiskInv, TypeOk
  <2>2. ModeOk' /\ WorkOk' /\ MarkOk'
    BY <1>1, <1>2, <1>9 DEF DiskInv, ModeOk, WorkOk, MarkOk, Replicated, Does
  <2>3. FileInv' /\ Files' = Files /\ Syncs' = Syncs /\ Replicated' = Replicated /\ ~Truncating'
    BY <1>1, <1>2, <1>9, SameFiles DEF DiskInv, FileInv, Truncating
  <2>4. PendingOk' /\ PassOk' /\ ReaderOk'
    BY <1>1, <1>9, SamePending, SamePass, SameReader
  <2>5. absoluteOffset' = flushedOffset' + Len(batch') + Len(writeCh')
    <3>1. Len(batch') = Len(batch) + 1 /\ Len(writeCh') = Len(writeCh) - 1
      BY <1>1, <1>5, <1>6, <1>9
    <3>2. QED
      BY <1>3, <1>4, <1>9, <3>1
  <2>6. Dense(batch', flushedOffset') /\ Dense(writeCh', flushedOffset' + Len(batch'))
    BY <1>1, <1>5, <1>6, <1>7, <1>9
  <2>7. TailOk'
    BY <1>1, <1>2, <1>9, <2>3, <2>5, <2>6 DEF DiskInv, TailOk
  <2>8. QED
    BY <2>1, <2>2, <2>3, <2>4, <2>7 DEF DiskInv
<1>10. QED
  BY <1>1, <1>8, <1>9

\* flushLoop's linger ticker.
LEMMA FlushLoopLingerKeeps ==
    ASSUME DiskInv, FlushLoopLinger
    PROVE  DiskInv'
<1> USE DEF markVars, history
<1>1. /\ UNCHANGED <<workload, up, writeCh, markers, writeFailure, pass, work, pending, reader, leo, hwm, checkpoint,
                      reconciled, committed, acked>>
      /\ WithinHandler /\ batch # <<>> /\ batch' = <<>> /\ FlushBatch(batch)
  BY DEF FlushLoopLinger, LingerDue
<1>2. up /\ Does("queued") /\ ~writeFailure
  BY <1>1, IdleState DEF DiskInv, ModeOk
<1>3. /\ batch \in Seq(Entries) /\ writeCh \in Seq(Entries) /\ Dense(batch, flushedOffset)
      /\ Dense(writeCh, flushedOffset + Len(batch)) /\ checkpoint \in Nat
  BY <1>2 DEF DiskInv, TypeOk, TailOk
<1>4. WriteBatch(batch, FALSE)
  BY <1>1, <1>2 DEF FlushBatch
<1>5. QED
  BY <1>1, <1>2, <1>3, <1>4, QueueStep DEF QueueLeft

\* The whole queue.
LEMMA WholeQueue ==
    ASSUME DiskInv, up, batch \o writeCh # <<>>
    PROVE  /\ Does("queued") /\ ~writeFailure /\ batch \o writeCh \in Seq(Entries)
           /\ Dense(batch \o writeCh, flushedOffset) /\ Len(batch \o writeCh) = Len(batch) + Len(writeCh)
<1>1. /\ batch \in Seq(Entries) /\ writeCh \in Seq(Entries) /\ Dense(batch, flushedOffset)
      /\ Dense(writeCh, flushedOffset + Len(batch)) /\ flushedOffset \in Nat
  BY DEF DiskInv, TypeOk, TailOk
<1>2. batch # <<>> \/ writeCh # <<>>
  BY <1>1
<1>3. Does("queued") /\ ~writeFailure
  BY <1>2 DEF DiskInv, ModeOk
<1>4. QED
  BY <1>1, <1>3, DenseConcat

\* FlushDisk drains the queue.
LEMMA FlushDiskKeeps ==
    ASSUME DiskInv, FlushDisk
    PROVE  DiskInv'
<1> USE DEF history
<1> DEFINE q == batch \o writeCh
<1>1. /\ UNCHANGED <<workload, up, markers, writeFailure, pass, work, pending, reader, leo, hwm, reconciled,
                      committed, acked>>
      /\ WithinHandler /\ q # <<>> /\ batch' = <<>> /\ writeCh' = <<>> /\ checkpoint' = hwm
      /\ ~writeFailure => WriteBatch(q, TRUE)
  BY DEF FlushDisk
<1>2. up /\ hwm \in Nat
  BY <1>1, IdleState DEF DiskInv, TypeOk
<1>3. Does("queued") /\ ~writeFailure /\ q \in Seq(Entries) /\ Dense(q, flushedOffset) /\ Len(q) = Len(batch) + Len(writeCh)
  BY <1>1, <1>2, WholeQueue
<1> HIDE DEF q
<1>4. writeCh' \in Seq(Entries) /\ Len(writeCh') = 0 /\ Dense(writeCh', flushedOffset + Len(q))
  BY <1>1, EmptyDense
<1>5. Len(q) + Len(writeCh') = Len(batch) + Len(writeCh)
  BY <1>3, <1>4 DEF DiskInv, TypeOk
<1>6. QED
  BY <1>1, <1>2, <1>3, <1>4, <1>5, QueueStep DEF QueueLeft

\* fsync of the last file.
LEMMA LastSynced ==
    ASSUME NEW f, NEW y, NEW m, FilesOk(f, y, m), NEW c, IsLast(f, c), c \notin m,
           NEW z, Put(f, y, c, f[c], Len(f[c]), f, z)
    PROVE  FilesOk(f, z, m) /\ Carried(f, y, m, f, z, m) /\ z[c] = Len(f[c])
<1>1. c \in DOMAIN f /\ f[c] \in Seq(Entries) /\ Len(f[c]) \in Nat /\ y[c] <= Len(f[c])
  BY SegmentEntry DEF FilesOk, IsLast, Sized
<1>2. Dense(f[c], c)
  BY <1>1 DEF FilesOk, Ordered
<1>3. FilesOk(f, z, m) /\ Grows(f, y, m, f, z, m) /\ z[c] = Len(f[c])
  BY <1>1, <1>2, LastReplaced
<1>4. QED
  BY <1>3, GrowthCarries

\* fsync of the active file as an assignment.
LEMMA ActiveSynced ==
    ASSUME DiskInv, WithinHandler, synced' = [synced EXCEPT ![currentSegment] = Len(Active)]
    PROVE  Put(file, synced, currentSegment, file[currentSegment], Len(file[currentSegment]), file, synced')
<1>1. FilesOk(file, synced, markers) /\ currentSegment \in DOMAIN file
  BY IdleState, WhenIdle
<1>2. DOMAIN synced = DOMAIN file /\ synced = [b \in DOMAIN synced |-> synced[b]] /\ file = [b \in DOMAIN file |-> file[b]]
  BY <1>1 DEF FilesOk, Shape
<1>3. QED
  BY <1>1, <1>2 DEF Put, Active

\* What an fsync of the active file does to the invariant's parts.
LEMMA SyncStep ==
    ASSUME DiskInv, WithinHandler, UNCHANGED <<currentSegment, file>>,
           Put(file, synced, currentSegment, file[currentSegment], Len(file[currentSegment]), file, synced'),
           UNCHANGED <<workload, markers, work, pending, reconciled, committed, acked>>,
           pass' = pass \/ pass' = NoPass, reader' = reader \/ reader' = {}
    PROVE  /\ FileInv' /\ PassOk' /\ ReaderOk' /\ PendingOk' /\ ~Truncating'
           /\ Files' = file /\ Syncs' = synced' /\ synced' \in [DOMAIN file -> Nat]
           /\ synced[currentSegment] <= synced'[currentSegment] /\ synced'[currentSegment] \in Nat
<1> DEFINE c == currentSegment
<1>1. /\ up /\ pending = Idle /\ ~Truncating /\ Files = file /\ Syncs = synced /\ FilesOk(file, synced, markers)
      /\ IsLast(file, c) /\ c \in DOMAIN file /\ c \notin markers /\ c \in Nat
      /\ Len(file[c]) \in Nat /\ file[c] \in Seq(Entries) /\ Dense(file[c], c)
      /\ synced[c] \in Nat /\ synced[c] <= Len(file[c])
  BY IdleState, WhenIdle
<1>2. /\ FilesOk(file, synced', markers) /\ Carried(file, synced, markers, file, synced', markers)
      /\ synced'[c] = Len(file[c])
  BY <1>1, LastSynced
<1>3. FilesOk(file', synced', markers)
  BY <1>2
<1>4. Carried(file, synced, markers, file', synced', markers)
  BY <1>2
<1>5. Limit' = Limit /\ Replicated' = Replicated /\ Files' = file' /\ Syncs' = synced' /\ ~Truncating'
  BY <1>1 DEF Limit, Replicated, Does, Files, Syncs, Truncating
<1>6. FileInv'
  <2>1. Survive(file', synced', markers, acked, Limit)
    BY <1>1, <1>4 DEF DiskInv, FileInv, Carried
  <2>2. ASSUME Replicated, NEW e \in DOMAIN file', IsLast(file', e) PROVE committed <= e + synced'[e]
    <3>1. e = c
      BY <1>1, <2>2, LastIsUnique DEF FilesOk
    <3>2. committed <= c + synced[c] /\ committed \in Nat
      BY <1>1, <2>2 DEF DiskInv, FileInv, TypeOk
    <3>3. QED
      BY <1>1, <1>2, <3>1, <3>2
  <2>3. Replicated => Covers(file', markers, committed)
    BY <1>1 DEF DiskInv, FileInv, TypeOk
  <2>4. (Replicated => reconciled) => Whole(file', markers)
    BY <1>1 DEF DiskInv, FileInv
  <2>5. QED
    BY <1>3, <1>5, <2>1, <2>2, <2>3, <2>4 DEF FileInv
<1>7. PassOk'
  <2>1. CASE pass' = NoPass
    <3>1. pass'.todo = {}
      BY <2>1 DEF NoPass
    <3>2. QED
      BY <2>1, <3>1 DEF PassOk
  <2>2. CASE pass' = pass
    <3>1. \A L, r : Safe(file, synced, L, r) => Safe(file', synced', L, r)
      BY <1>4 DEF Carried, Safe
    <3>2. \A L, D, r : Dispensable(file, synced, L, D, r) => Dispensable(file', synced', L, D, r)
      BY <3>1 DEF Dispensable
    <3>3. QED
      BY <1>5, <2>2, <3>2 DEF DiskInv, PassOk
  <2>3. QED
    BY <2>1, <2>2
<1>8. ReaderOk' /\ PendingOk'
  BY <1>1, <1>5 DEF DiskInv, ReaderOk, PendingOk
<1>9. synced' \in [DOMAIN file -> Nat]
  BY <1>3 DEF FilesOk, Shape
<1>10. QED
  BY <1>1, <1>2, <1>5, <1>6, <1>7, <1>8, <1>9

\* syncLoop
LEMMA SyncLoopKeeps ==
    ASSUME DiskInv, SyncLoop
    PROVE  DiskInv'
<1> USE DEF queueVars, markVars, history
<1>1. /\ UNCHANGED <<workload, up, writeCh, batch, absoluteOffset, flushedOffset, currentSegment, file, markers,
                      writeFailure, pass, work, pending, reader, leo, hwm, checkpoint, reconciled, committed, acked>>
      /\ WithinHandler /\ synced' = [synced EXCEPT ![currentSegment] = Len(Active)]
  BY DEF SyncLoop
<1>2. /\ FileInv' /\ PassOk' /\ ReaderOk' /\ PendingOk' /\ ~Truncating'
      /\ Files' = file /\ Syncs' = synced' /\ synced' \in [DOMAIN file -> Nat]
      /\ synced[currentSegment] <= synced'[currentSegment] /\ synced'[currentSegment] \in Nat
  BY <1>1, ActiveSynced, SyncStep
<1>3. up /\ pending = Idle /\ ~Truncating /\ Files = file /\ Syncs = synced /\ synced[currentSegment] \in Nat /\ currentSegment \in Nat
  BY <1>1, IdleState, WhenIdle
<1>4. Replicated' = Replicated
  BY <1>1 DEF Replicated, Does
<1>5. TypeOk' /\ ModeOk' /\ WorkOk' /\ MarkOk'
  BY <1>1, <1>2 DEF DiskInv, TypeOk, ModeOk, WorkOk, MarkOk, Replicated, Does
<1>6. Replicated => flushedOffset <= currentSegment + synced'[currentSegment]
  <2>1. Replicated => flushedOffset <= currentSegment + synced[currentSegment]
    BY <1>3 DEF DiskInv, TailOk
  <2>2. flushedOffset \in Nat
    BY DEF DiskInv, TypeOk
  <2>3. QED
    BY <1>2, <1>3, <2>1, <2>2
<1>7. TailOk'
  BY <1>1, <1>2, <1>3, <1>4, <1>6 DEF DiskInv, TailOk
<1>8. QED
  BY <1>2, <1>5, <1>7 DEF DiskInv

\* drainAndShutdown
LEMMA CloseKeeps ==
    ASSUME DiskInv, Close
    PROVE  DiskInv'
<1> DEFINE q == batch \o writeCh
<1>1. /\ UNCHANGED <<workload, markers, writeFailure, work, pending, leo, hwm, reconciled, committed, acked>>
      /\ WithinHandler /\ up' = FALSE /\ batch' = <<>> /\ writeCh' = <<>> /\ checkpoint' = hwm
      /\ pass' = NoPass /\ reader' = {}
      /\ IF writeFailure \/ q = <<>>
         THEN /\ synced' = [synced EXCEPT ![currentSegment] = Len(Active)]
              /\ UNCHANGED <<absoluteOffset, flushedOffset, currentSegment, file>>
         ELSE WriteBatch(q, TRUE)
  BY DEF Close
<1>2. up /\ hwm \in Nat /\ work = Idle /\ pending = Idle
  BY <1>1, IdleState DEF DiskInv, TypeOk
<1>3. CASE writeFailure \/ q = <<>>
  <2>1. /\ FileInv' /\ PassOk' /\ ReaderOk' /\ PendingOk' /\ synced' \in [DOMAIN file -> Nat] /\ file' = file
        /\ currentSegment' = currentSegment /\ absoluteOffset' = absoluteOffset /\ flushedOffset' = flushedOffset
    BY <1>1, <1>3, ActiveSynced, SyncStep
  <2>2. TypeOk'
    <3>1. batch' \in Seq(Entries) /\ writeCh' \in Seq(Entries) /\ DOMAIN pass' = {"drop", "todo"}
      BY <1>1 DEF NoPass
    <3>2. QED
      BY <1>1, <1>2, <2>1, <3>1 DEF DiskInv, TypeOk
  <2>3. ModeOk' /\ WorkOk' /\ MarkOk' /\ TailOk'
    BY <1>1, <1>2, Ops DEF DiskInv, ModeOk, WorkOk, MarkOk, TailOk, Replicated, Does
  <2>4. QED
    BY <2>1, <2>2, <2>3 DEF DiskInv
<1>4. CASE ~(writeFailure \/ q = <<>>)
  <2>1. Does("queued") /\ ~writeFailure /\ q \in Seq(Entries) /\ Dense(q, flushedOffset) /\ Len(q) = Len(batch) + Len(writeCh)
    BY <1>2, <1>4, WholeQueue
  <2> HIDE DEF q
  <2>2. writeCh' \in Seq(Entries) /\ Len(writeCh') = 0 /\ Dense(writeCh', flushedOffset + Len(q))
    BY <1>1, EmptyDense
  <2>3. Len(q) + Len(writeCh') = Len(batch) + Len(writeCh)
    BY <2>1, <2>2 DEF DiskInv, TypeOk
  <2>4. QueueLeft(Len(q))
    BY <1>1, <2>2, <2>3 DEF QueueLeft
  <2>5. q # <<>> /\ WriteBatch(q, TRUE) /\ checkpoint' \in Nat
    BY <1>1, <1>2, <1>4
  <2>6. QED
    BY <1>1, <2>1, <2>4, <2>5, QueueStep
<1>5. QED
  BY <1>3, <1>4

\* flushLoop's segment ticker: without a queue and a failed write the assigned end is the tail.
LEMMA SegmentTickerKeeps ==
    ASSUME DiskInv, SegmentTicker
    PROVE  DiskInv'
<1> USE DEF queueVars, markVars, history
<1>1. /\ UNCHANGED <<workload, up, writeCh, batch, absoluteOffset, flushedOffset, markers, writeFailure, pass, work,
                      pending, reader, leo, hwm, checkpoint, reconciled, committed, acked>>
      /\ WithinHandler /\ Does("roll") /\ SetFiles(RotateSegment(View, absoluteOffset))
  BY DEF SegmentTicker
<1>2. up /\ work = Idle /\ pending = Idle /\ ~Truncating /\ ~writeFailure /\ ~Does("queued")
  BY <1>1, IdleState, Modes DEF DiskInv, ModeOk
<1>3. batch = <<>> /\ writeCh = <<>> /\ absoluteOffset = flushedOffset /\ leo = flushedOffset /\ flushedOffset \in Nat
  BY <1>2, NoQueue
<1>4. Files' = file' /\ Syncs' = synced' /\ ~Truncating' /\ PendingOk'
  BY <1>1, <1>2 DEF Files, Syncs, Truncating, PendingOk
<1>5. WriteDone(currentSegment, file, synced, markers, <<>>, FALSE,
                [current |-> currentSegment', file |-> file', synced |-> synced'])
  BY <1>1, <1>2, <1>3, RollWrites
<1>6. <<>> \in Seq(Entries) /\ Len(<<>>) = 0
  OBVIOUS
<1>7. Wrote(0, FALSE)
  BY <1>1, <1>2, <1>4, <1>5, <1>6, FilesStep
<1>8. TailOk'
  <2>1. currentSegment' <= flushedOffset' /\ currentSegment' + Len(Files'[currentSegment']) = flushedOffset'
    BY <1>1, <1>3, <1>7 DEF Wrote
  <2>2. Replicated' => flushedOffset' <= currentSegment' + Syncs'[currentSegment']
    BY <1>1, <1>7 DEF Wrote, Replicated, Does
  <2>3. Replicated' = Replicated /\ IsLast(Files', currentSegment')
    BY <1>1, <1>7 DEF Wrote, Replicated, Does
  <2>4. QED
    BY <1>1, <1>2, <2>1, <2>2, <2>3 DEF DiskInv, TailOk
<1>9. TypeOk'
  BY <1>1, <1>7 DEF DiskInv, TypeOk, Wrote
<1>10. ModeOk' /\ WorkOk' /\ MarkOk'
  BY <1>1, <1>2, Ops DEF DiskInv, ModeOk, WorkOk, MarkOk, Replicated, Does
<1>11. QED
  BY <1>7, <1>8, <1>9, <1>10 DEF DiskInv, Wrote

-----------------------------------------------------------------------------
(* The watermark.                                                          *)

\* More offsets are safe.
LEMMA SurviveWider ==
    ASSUME NEW f, NEW y, NEW m, NEW A, NEW L, NEW M, L \subseteq M
    PROVE  /\ Survive(f, y, m, A, L) => Survive(f, y, m, A, M)
           /\ \A D, r : Dispensable(f, y, L, D, r) => Dispensable(f, y, M, D, r)
<1>1. \A r : Safe(f, y, L, r) => Safe(f, y, M, r)
  BY DEF Safe
<1>2. \A r : Anchored(f, y, L, r) => Anchored(f, y, M, r)
  BY <1>1 DEF Anchored
<1>3. \A r : Replaced(f, y, m, L, r) => Replaced(f, y, m, M, r)
  BY <1>1 DEF Replaced
<1>4. \A r : Kept(f, y, m, L, r) => Kept(f, y, m, M, r)
  BY <1>2, <1>3 DEF Kept
<1>5. Survive(f, y, m, A, L) => Survive(f, y, m, A, M)
  BY <1>4 DEF Survive
<1>6. \A D, r : Dispensable(f, y, L, D, r) => Dispensable(f, y, M, D, r)
  BY <1>1 DEF Dispensable
<1>7. QED
  BY <1>5, <1>6

\* What is below the synced end of the log is stored, and nothing is missing there.
LEMMA BelowSynced ==
    ASSUME NEW f, NEW y, NEW m, FilesOk(f, y, m), Whole(f, m), NEW e, IsLast(f, e), NEW h \in Nat, h <= e + y[e]
    PROVE  /\ Covers(f, m, h)
           /\ \A b \in DOMAIN f : \A i \in 1 .. Len(f[b]) : f[b][i].off < h => Stored(f, y, f[b][i])
<1>1. /\ e \in DOMAIN f /\ e \in Nat /\ f[e] \in Seq(Entries) /\ Len(f[e]) \in Nat /\ y[e] \in Nat /\ y[e] <= Len(f[e])
      /\ e \notin m
  BY SegmentEntry, LastIsUnique DEF FilesOk, IsLast, Sized, Ended
<1>2. Dense(f[e], e)
  BY <1>1 DEF FilesOk, Ordered
<1>3. Covers(f, m, h)
  <2>1. SUFFICES ASSUME NEW b \in DOMAIN f, NEW o \in Nat, Holds(f, b, o), o < h
                 PROVE  b \in m \/ o < b + Len(f[b])
    BY DEF Covers
  <2>2. CASE b = e
    BY <1>1, <2>1, <2>2
  <2>3. CASE b # e
    <3>1. ~IsLast(f, b)
      BY <2>3, LastIsUnique DEF FilesOk
    <3>2. QED
      BY <2>1, <3>1 DEF Whole
  <2>4. QED
    BY <2>2, <2>3
<1>4. ASSUME NEW b \in DOMAIN f, NEW i \in 1 .. Len(f[b]), f[b][i].off < h PROVE Stored(f, y, f[b][i])
  <2>1. i \in 1 .. y[b]
    <3>1. CASE b = e
      <4>1. f[e][i].off = e + i - 1
        BY <1>2, <3>1 DEF Dense
      <4>2. QED
        BY <1>1, <1>4, <3>1, <4>1
    <3>2. CASE b # e
      <4>1. ~IsLast(f, b)
        BY <3>2, LastIsUnique DEF FilesOk
      <4>2. y[b] = Len(f[b])
        BY <4>1 DEF FilesOk, Sized
      <4>3. QED
        BY <4>2
    <3>3. QED
      BY <3>1, <3>2
  <2>2. QED
    BY <2>1 DEF Stored
<1>5. QED
  BY <1>3, <1>4

\* The watermark rises over records this replica has synced: they are stored, and none is missing.
LEMMA ApplyReplicaHWMKeeps ==
    ASSUME DiskInv, NEW h \in 1 .. MaxOffset, ApplyReplicaHWM(h)
    PROVE  DiskInv'
<1> USE DEF queueVars, fileVars
<1>1. /\ UNCHANGED <<workload, up, writeCh, batch, absoluteOffset, flushedOffset, currentSegment, file, synced,
                      markers, writeFailure, pass, work, pending, reader, leo, checkpoint, reconciled>>
      /\ WithinHandler /\ Replicated /\ reconciled /\ h \in (hwm + 1) .. leo /\ h >= committed
      /\ hwm' = h /\ committed' = h /\ acked' = acked \cup {r \in AllRecords : r.off < h}
  BY DEF ApplyReplicaHWM, Replicated
<1>2. up /\ work = Idle /\ pending = Idle /\ ~Truncating /\ ~Does("queued") /\ Replicated' /\ ~Truncating'
  BY <1>1, IdleState, Modes, Ops DEF DiskInv, Replicated, Does, Truncating
<1>3. leo = flushedOffset /\ flushedOffset \in Nat
  BY <1>2, NoQueue
<1>4. /\ Files = file /\ Syncs = synced /\ FilesOk(file, synced, markers)
      /\ IsLast(file, currentSegment) /\ currentSegment \in DOMAIN file /\ currentSegment \in Nat
      /\ synced[currentSegment] \in Nat
      /\ flushedOffset <= currentSegment + synced[currentSegment]
  BY <1>1, <1>2, WhenIdle DEF DiskInv, TailOk
<1>5. h \in Nat /\ h <= leo /\ h <= currentSegment + synced[currentSegment] /\ committed \in Nat /\ committed <= h
  <2>1. hwm \in Nat /\ committed \in Nat
    BY DEF DiskInv, TypeOk
  <2>2. h \in Nat /\ h <= leo /\ committed <= h
    BY <1>1, <1>3, <2>1
  <2>3. QED
    BY <1>3, <1>4, <2>1, <2>2
<1>6. Whole(file, markers) /\ Survive(file, synced, markers, acked, Limit)
  BY <1>1, <1>2, <1>4 DEF DiskInv, FileInv
<1>7. /\ Covers(file, markers, h)
      /\ \A b \in DOMAIN file : \A i \in 1 .. Len(file[b]) : file[b][i].off < h => Stored(file, synced, file[b][i])
  BY <1>4, <1>5, <1>6, BelowSynced
<1>8. Limit' = 0 .. h - 1 /\ Limit = 0 .. committed - 1 /\ Limit \subseteq Limit'
  BY <1>1, <1>2, <1>5 DEF Limit
<1>9. /\ Survive(file, synced, markers, acked, Limit')
      /\ \A D, r : Dispensable(file, synced, Limit, D, r) => Dispensable(file, synced, Limit', D, r)
  BY <1>6, <1>8, SurviveWider
<1>10. Survive(file, synced, markers, acked', Limit')
  <2>1. ASSUME NEW r \in acked', r \notin acked PROVE r \in Entries /\ r.off \in Limit' /\ Stored(file, synced, r)
    <3>1. r \in AllRecords /\ r.off < h
      BY <1>1, <2>1
    <3>2. PICK b \in DOMAIN file : r \in ToSet(file[b])
      BY <3>1 DEF AllRecords, Bases
    <3>3. PICK i \in 1 .. Len(file[b]) : r = file[b][i]
      BY <1>4, <3>2, SegmentEntry DEF ToSet, FilesOk
    <3>4. r \in Entries /\ r.off \in Nat
      BY <1>4, <3>3, SegmentEntry DEF FilesOk
    <3>5. QED
      BY <1>5, <1>7, <1>8, <3>1, <3>3, <3>4
  <2>2. QED
    BY <1>9, <2>1, SurviveMore
<1>11. FileInv'
  <2>1. Files' = file' /\ Syncs' = synced'
    BY <1>1, <1>2 DEF Files, Syncs
  <2>2. \A e \in DOMAIN file : IsLast(file, e) => h <= e + synced[e]
    BY <1>4, <1>5, LastIsUnique DEF FilesOk
  <2>3. QED
    BY <1>1, <1>4, <1>6, <1>7, <1>10, <2>1, <2>2 DEF FileInv
<1>12. TypeOk'
  BY <1>1, <1>5 DEF DiskInv, TypeOk
<1>13. ModeOk' /\ WorkOk' /\ PendingOk'
  BY <1>1, <1>2 DEF DiskInv, ModeOk, WorkOk, PendingOk, Replicated, Does
<1>14. MarkOk'
  <2>1. checkpoint \in Nat /\ checkpoint <= committed
    BY <1>1 DEF DiskInv, MarkOk, TypeOk
  <2>2. checkpoint <= h /\ h <= h
    BY <1>5, <2>1
  <2>3. QED
    BY <1>1, <2>2 DEF MarkOk
<1>15. TailOk'
  <2>1. Files' = Files /\ Syncs' = Syncs /\ committed' <= leo'
    BY <1>1, <1>2, <1>5 DEF Files, Syncs
  <2>2. QED
    BY <1>1, <1>2, <2>1 DEF DiskInv, TailOk
<1>16. PassOk'
  BY <1>1, <1>9 DEF DiskInv, PassOk
<1>17. ReaderOk'
  <2>1. \A b \in reader : b \in DOMAIN file /\ b \in Nat /\ b < committed
    BY <1>1, <1>4 DEF DiskInv, ReaderOk, FilesOk, Shape
  <2>2. QED
    BY <1>1, <1>5, <2>1 DEF ReaderOk
<1>18. QED
  BY <1>11, <1>12, <1>13, <1>14, <1>15, <1>16, <1>17 DEF DiskInv

-----------------------------------------------------------------------------
(* Retention and compaction.                                               *)

\* EnforceRetention removes the oldest closed segments.
LEMMA EnforceRetentionKeeps ==
    ASSUME DiskInv, NEW x \in 0 .. MaxOffset, EnforceRetention(x)
    PROVE  DiskInv'
<1> USE DEF queueVars, markVars, history
<1> DEFINE K == {b \in DOMAIN file : b > x}
<1>1. /\ UNCHANGED <<workload, up, writeCh, batch, absoluteOffset, flushedOffset, currentSegment, writeFailure, pass,
                      work, pending, reader, leo, hwm, checkpoint, reconciled, committed, acked>>
      /\ WithinHandler /\ pass = NoPass /\ reader = {} /\ x \in DOMAIN file /\ x < currentSegment
      /\ WithoutSegments({b \in Closed : b <= x})
  BY DEF EnforceRetention, NoReaders, Closed, Bases
<1>2. up /\ work = Idle /\ pending = Idle /\ ~Truncating /\ ~Truncating'
  BY <1>1, IdleState, Ops DEF Truncating
<1>3. /\ Files = file /\ Syncs = synced /\ FilesOk(file, synced, markers)
      /\ IsLast(file, currentSegment) /\ currentSegment \notin markers
      /\ DOMAIN file \in SUBSET Nat /\ markers \in SUBSET DOMAIN file /\ currentSegment \in Nat
  BY <1>2, WhenIdle DEF FilesOk, Shape
<1>4. Cut(file, synced, markers, K, file', synced', markers')
  <2>1. \A b \in DOMAIN file : b \in {d \in Closed : d <= x} <=> ~(b > x)
    BY <1>1, <1>3 DEF Closed, Bases
  <2>2. Bases \ {d \in Closed : d <= x} = K /\ markers \ {d \in Closed : d <= x} = markers \cap K
    BY <1>3, <2>1 DEF Bases
  <2>3. QED
    BY <1>1, <2>2 DEF WithoutSegments, Cut
<1>5. x \in Nat /\ Survive(file, synced, markers, acked, Limit)
  BY <1>1, <1>3 DEF DiskInv, FileInv
<1>6. /\ FilesOk(file', synced', markers') /\ IsLast(file', currentSegment)
      /\ file'[currentSegment] = file[currentSegment] /\ synced'[currentSegment] = synced[currentSegment]
      /\ Survive(file', synced', markers', acked, Limit)
      /\ Whole(file, markers) => Whole(file', markers')
      /\ \A q \in Nat : Covers(file, markers, q) => Covers(file', markers', q)
  <2> HIDE DEF K
  <2>1. Behind(file, x, K)
    BY DEF K, Behind
  <2>2. FilesOk(file, synced, markers) /\ IsLast(file, currentSegment) /\ currentSegment \notin markers /\ x < currentSegment
    BY <1>1, <1>3
  <2>3. QED
    BY <1>4, <1>5, <2>1, <2>2, RetentionKeeps
<1>7. Limit' = Limit /\ Replicated' = Replicated /\ Files' = file' /\ Syncs' = synced'
  BY <1>1, <1>2 DEF Limit, Replicated, Does, Files, Syncs
<1>8. FileInv'
  <2>1. Replicated => \A e \in DOMAIN file' : IsLast(file', e) => committed <= e + synced'[e]
    <3>1. \A e : IsLast(file', e) => e = currentSegment
      BY <1>6, LastIsUnique DEF FilesOk
    <3>2. Replicated => committed <= currentSegment + synced[currentSegment]
      BY <1>3 DEF DiskInv, FileInv, IsLast
    <3>3. QED
      BY <1>6, <3>1, <3>2
  <2>2. Replicated => Covers(file', markers', committed)
    BY <1>3, <1>6 DEF DiskInv, FileInv, TypeOk
  <2>3. (Replicated => up' /\ reconciled') => Whole(file', markers')
    BY <1>1, <1>2, <1>3, <1>6 DEF DiskInv, FileInv
  <2>4. QED
    BY <1>1, <1>6, <1>7, <2>1, <2>2, <2>3 DEF FileInv
<1>9. TypeOk'
  <2>1. /\ DOMAIN file' \in SUBSET Nat /\ file' \in [DOMAIN file' -> Seq(Entries)]
        /\ synced' \in [DOMAIN file' -> Nat]
    BY <1>6 DEF FilesOk, Shape
  <2>2. QED
    BY <1>1, <2>1 DEF DiskInv, TypeOk
<1>10. ModeOk' /\ WorkOk' /\ MarkOk' /\ PendingOk' /\ ReaderOk'
  BY <1>1, <1>2 DEF DiskInv, ModeOk, WorkOk, MarkOk, PendingOk, ReaderOk, Replicated, Does
<1>11. TailOk'
  BY <1>1, <1>2, <1>3, <1>6, <1>7 DEF DiskInv, TailOk
<1>12. PassOk'
  <2>1. pass'.todo = {} /\ pass' = NoPass
    BY <1>1 DEF NoPass
  <2>2. QED
    BY <2>1 DEF PassOk
<1>13. QED
  BY <1>8, <1>9, <1>10, <1>11, <1>12 DEF DiskInv

\* No offset is stored twice.
LEMMA OneOffset ==
    ASSUME NEW f, NEW y, NEW m, FilesOk(f, y, m), NEW b \in DOMAIN f, NEW i \in 1 .. Len(f[b]),
           NEW c \in DOMAIN f, NEW j \in 1 .. Len(f[c]), f[b][i].off = f[c][j].off
    PROVE  f[b][i] = f[c][j]
<1>1. Holds(f, b, f[b][i].off) /\ Holds(f, c, f[b][i].off)
  <2>1. Holds(f, b, f[b][i].off)
    BY StoredWhere
  <2>2. Holds(f, c, f[c][j].off)
    BY StoredWhere
  <2>3. QED
    BY <2>1, <2>2
<1>2. b = c
  BY <1>1, HoldsOne DEF FilesOk
<1>3. Rising(f[b]) /\ Len(f[b]) \in Nat /\ f[b][i].off \in Nat /\ f[b][j].off \in Nat
  BY <1>2, SegmentEntry DEF FilesOk, Ordered
<1>4. ~(i < j) /\ ~(j < i)
  BY <1>2, <1>3 DEF Rising
<1>5. QED
  BY <1>2, <1>3, <1>4

\* The latest of a set of records in closed segments.
LEMMA Latest ==
    ASSUME NEW Q, Q # {}, NEW x \in Nat, \A s \in Q : s.off \in Nat /\ s.off < x
    PROVE  \E s \in Q : \A q \in Q : ~(q.off > s.off)
<1> DEFINE T == {s.off : s \in Q}
<1>1. T \in SUBSET Nat /\ T # {} /\ \A o \in T : o <= x
  OBVIOUS
<1>2. PICK o \in T : \A p \in T : p <= o
  BY <1>1, GreatestNat
<1>3. PICK s \in Q : s.off = o
  BY <1>2
<1>4. \A q \in Q : q.off \in T
  OBVIOUS
<1> HIDE DEF T
<1>5. \A q \in Q : ~(q.off > s.off)
  <2>1. SUFFICES ASSUME NEW q \in Q PROVE ~(q.off > s.off)
    OBVIOUS
  <2>2. q.off \in Nat /\ o \in Nat /\ q.off <= o
    BY <1>1, <1>2, <1>4
  <2>3. QED
    BY <1>3, <2>2
<1>6. QED
  BY <1>5

\* EnforceCompaction plans a pass: what it drops has a later record of its key and of its producer.
LEMMA EnforceCompactionKeeps ==
    ASSUME DiskInv, EnforceCompaction
    PROVE  DiskInv'
<1> USE DEF queueVars, fileVars, markVars, history
<1> DEFINE D == {r.off : r \in Removable}
           U == {b \in Closed : ToSet(file[b]) \cap Removable # {}}
<1>1. /\ UNCHANGED <<workload, up, writeCh, batch, absoluteOffset, flushedOffset, currentSegment, file, synced,
                      markers, writeFailure, work, pending, reader, leo, hwm, checkpoint, reconciled, committed, acked>>
      /\ WithinHandler /\ Removable # {} /\ pass' = [drop |-> D, todo |-> U]
      /\ Replicated => leo = hwm
  BY DEF EnforceCompaction, Replicated
<1>2. up /\ work = Idle /\ pending = Idle /\ ~Truncating /\ ~Truncating'
  BY <1>1, IdleState, Ops DEF Truncating
<1>3. /\ FilesOk(file, synced, markers) /\ IsLast(file, currentSegment) /\ currentSegment \in Nat
      /\ currentSegment \in DOMAIN file /\ currentSegment <= flushedOffset /\ flushedOffset \in Nat
  BY <1>2, WhenIdle
<1>4. TypeOk' /\ ModeOk' /\ WorkOk' /\ MarkOk'
  <2>1. DOMAIN pass' = {"drop", "todo"}
    BY <1>1
  <2>2. QED
    BY <1>1, <1>2, <2>1 DEF DiskInv, TypeOk, ModeOk, WorkOk, MarkOk, Replicated, Does
<1>5. FileInv' /\ Limit' = Limit
  BY <1>1, <1>2, SameFiles DEF DiskInv, FileInv
<1>6. PendingOk' /\ TailOk' /\ ReaderOk'
  BY <1>1, <1>2, SamePending, SameTail, SameReader
<1>7. \* A record of a closed segment is stored where no truncation reaches.
      ASSUME NEW s \in ClosedRecords
      PROVE  /\ s \in Entries /\ s.off \in Nat /\ s.off < currentSegment /\ Safe(file, synced, Limit, s)
             /\ \E b \in Closed : \E i \in 1 .. Len(file[b]) : file[b][i] = s
  <2>1. PICK b \in Closed : s \in ToSet(file[b])
    BY <1>7 DEF ClosedRecords
  <2>2. b \in DOMAIN file /\ b # currentSegment /\ b \in Nat /\ file[b] \in Seq(Entries)
    BY <1>3, <2>1, SegmentEntry DEF Closed, Bases, FilesOk
  <2>3. PICK i \in 1 .. Len(file[b]) : file[b][i] = s
    BY <2>1, <2>2 DEF ToSet
  <2>4. s \in Entries /\ s.off \in Nat
    BY <1>3, <2>2, <2>3, SegmentEntry DEF FilesOk
  <2>5. b < currentSegment /\ ~IsLast(file, b)
    BY <1>3, <2>2, LastIsUnique DEF IsLast, FilesOk
  <2>6. s.off < currentSegment
    BY <1>3, <2>2, <2>3, <2>5 DEF FilesOk, Apart
  <2>7. synced[b] = Len(file[b])
    BY <1>3, <2>2, <2>5 DEF FilesOk, Sized
  <2>8. Stored(file, synced, s)
    BY <2>2, <2>3, <2>7 DEF Stored
  <2>9. s.off \in Limit
    <3>1. CASE ~Replicated
      BY <2>4, <3>1 DEF Limit
    <3>2. CASE Replicated
      <4>1. leo = flushedOffset /\ hwm <= committed /\ committed \in Nat /\ hwm \in Nat
        BY <1>2, <3>2, NoQueue, Modes DEF DiskInv, MarkOk, TypeOk
      <4>2. s.off < committed
        BY <1>1, <1>3, <2>4, <2>6, <3>2, <4>1
      <4>3. QED
        BY <2>4, <3>2, <4>1, <4>2 DEF Limit
    <3>3. QED
      BY <3>1, <3>2
  <2>10. QED
    BY <2>1, <2>3, <2>4, <2>6, <2>8, <2>9 DEF Safe
<1>8. \* Only the removable records have dropped offsets.
      ASSUME NEW s \in ClosedRecords, s.off \in D PROVE s \in Removable
  <2>1. PICK r \in Removable : r.off = s.off
    BY <1>8
  <2>2. r \in ClosedRecords
    BY <2>1 DEF Removable
  <2>3. PICK b \in Closed : \E i \in 1 .. Len(file[b]) : file[b][i] = s
    BY <1>7
  <2>4. PICK i \in 1 .. Len(file[b]) : file[b][i] = s
    BY <2>3
  <2>5. PICK c \in Closed : \E j \in 1 .. Len(file[c]) : file[c][j] = r
    BY <1>7, <2>2
  <2>6. PICK j \in 1 .. Len(file[c]) : file[c][j] = r
    BY <2>5
  <2>7. b \in DOMAIN file /\ c \in DOMAIN file
    BY DEF Closed, Bases
  <2>8. file[b][i].off = file[c][j].off
    BY <2>1, <2>4, <2>6
  <2>9. file[b][i] = file[c][j]
    BY <1>3, <2>7, <2>8, OneOffset
  <2>10. QED
    BY <2>4, <2>6, <2>9
<1>9. ASSUME NEW r \in Removable PROVE Dispensable(file, synced, Limit, D, r)
  <2>1. /\ r \in ClosedRecords /\ r.key # None /\ (\E s \in ClosedRecords : s.key = r.key /\ s.off > r.off)
        /\ r.prod = None \/ \E s \in ClosedRecords : s.prod = r.prod /\ s.off > r.off
    BY DEF Removable, ShouldRemove
  <2>2. \E s \in Entries : Safe(file, synced, Limit, s) /\ s.key = r.key /\ s.off > r.off /\ s.off \notin D
    <3> DEFINE Q == {s \in ClosedRecords : s.key = r.key /\ s.off > r.off}
    <3>1. Q # {} /\ \A s \in Q : s.off \in Nat /\ s.off < currentSegment
      BY <1>7, <2>1
    <3>2. PICK s \in Q : \A q \in Q : ~(q.off > s.off)
      BY <1>3, <3>1, Latest
    <3>3. s \in ClosedRecords /\ s.key = r.key /\ s.off > r.off /\ s \in Entries /\ Safe(file, synced, Limit, s)
          /\ s.off \in Nat /\ r.off \in Nat
      BY <1>7, <2>1, <3>2
    <3>4. \A q \in ClosedRecords : ~(q.key = s.key /\ q.off > s.off)
      <4>1. SUFFICES ASSUME NEW q \in ClosedRecords, q.key = s.key, q.off > s.off PROVE FALSE
        OBVIOUS
      <4>2. q.off \in Nat
        BY <1>7
      <4>3. q \in Q
        BY <3>3, <4>1, <4>2
      <4>4. QED
        BY <3>2, <4>1, <4>3
    <3>5. s \notin Removable
      BY <3>4 DEF Removable, ShouldRemove
    <3>6. s.off \notin D
      BY <1>8, <3>3, <3>5
    <3>7. QED
      BY <3>3, <3>6
  <2>3. ASSUME r.prod # None
        PROVE  \E s \in Entries : Safe(file, synced, Limit, s) /\ s.prod = r.prod /\ s.off > r.off /\ s.off \notin D
    <3> DEFINE Q == {s \in ClosedRecords : s.prod = r.prod /\ s.off > r.off}
    <3>1. Q # {} /\ \A s \in Q : s.off \in Nat /\ s.off < currentSegment
      BY <1>7, <2>1, <2>3
    <3>2. PICK s \in Q : \A q \in Q : ~(q.off > s.off)
      BY <1>3, <3>1, Latest
    <3>3. s \in ClosedRecords /\ s.prod = r.prod /\ s.off > r.off /\ s \in Entries /\ Safe(file, synced, Limit, s)
          /\ s.off \in Nat /\ r.off \in Nat
      BY <1>7, <2>1, <3>2
    <3>4. \A q \in ClosedRecords : ~(q.prod = s.prod /\ q.off > s.off)
      <4>1. SUFFICES ASSUME NEW q \in ClosedRecords, q.prod = s.prod, q.off > s.off PROVE FALSE
        OBVIOUS
      <4>2. q.off \in Nat
        BY <1>7
      <4>3. q \in Q
        BY <3>3, <4>1, <4>2
      <4>4. QED
        BY <3>2, <4>1, <4>3
    <3>5. s \notin Removable
      BY <2>3, <3>3, <3>4 DEF Removable, ShouldRemove
    <3>6. s.off \notin D
      BY <1>8, <3>3, <3>5
    <3>7. QED
      BY <3>3, <3>6
  <2>4. QED
    BY <2>1, <2>2, <2>3 DEF Dispensable
<1>10. PassOk'
  <2>1. U # {}
    <3>1. PICK r \in Removable : r \in ClosedRecords
      BY <1>1 DEF Removable
    <3>2. PICK b \in Closed : r \in ToSet(file[b])
      BY <3>1 DEF ClosedRecords
    <3>3. QED
      BY <3>1, <3>2
  <2>2. U \subseteq DOMAIN file \ {currentSegment}
    BY DEF Closed, Bases
  <2>3. ASSUME NEW b \in U, NEW i \in 1 .. Len(file[b]), file[b][i].off \in D
        PROVE  Dispensable(file, synced, Limit, D, file[b][i])
    <3>1. b \in Closed /\ b \in DOMAIN file /\ file[b] \in Seq(Entries)
      BY <1>3, <2>2, SegmentEntry DEF FilesOk
    <3>2. file[b][i] \in ToSet(file[b])
      BY <3>1 DEF ToSet
    <3>3. file[b][i] \in ClosedRecords
      BY <3>1, <3>2 DEF ClosedRecords
    <3>4. QED
      BY <1>8, <1>9, <2>3, <3>3
  <2> HIDE DEF D, U
  <2>4. pass'.drop = D /\ pass'.todo = U
    BY <1>1
  <2>5. QED
    BY <1>1, <1>5, <2>1, <2>2, <2>3, <2>4 DEF PassOk
<1>11. QED
  BY <1>4, <1>5, <1>6, <1>10 DEF DiskInv

\* compactClosedSegment rewrites one segment of the pass.
LEMMA CompactClosedSegmentKeeps ==
    ASSUME DiskInv, CompactClosedSegment
    PROVE  DiskInv'
<1> USE DEF queueVars, markVars, history
<1> DEFINE b == Min(pass.todo)
           D == pass.drop
           w == Without(file[b], D)
           rest == pass.todo \ {b}
<1>1. /\ UNCHANGED <<workload, up, writeCh, batch, absoluteOffset, flushedOffset, currentSegment, writeFailure, work,
                      pending, reader, leo, hwm, checkpoint, reconciled, committed, acked>>
      /\ WithinHandler /\ pass # NoPass /\ reader = {}
      /\ file' = [file EXCEPT ![b] = w] /\ synced' = [synced EXCEPT ![b] = Len(w)] /\ markers' = markers \cup {b}
      /\ pass' = IF rest = {} THEN NoPass ELSE [pass EXCEPT !.todo = rest]
  BY DEF CompactClosedSegment, NoReaders
<1>2. up /\ work = Idle /\ pending = Idle /\ ~Truncating /\ ~Truncating'
  BY <1>1, IdleState, Ops DEF Truncating
<1>3. /\ Files = file /\ Syncs = synced /\ FilesOk(file, synced, markers)
      /\ IsLast(file, currentSegment) /\ currentSegment \in DOMAIN file
      /\ DOMAIN file \in SUBSET Nat
  BY <1>2, WhenIdle DEF FilesOk, Shape
<1>4. pass.todo # {} /\ pass.todo \subseteq DOMAIN file \ {currentSegment}
  BY <1>1 DEF DiskInv, PassOk
<1>5. b \in pass.todo /\ b \in DOMAIN file /\ b # currentSegment
  <2>1. pass.todo \in SUBSET Nat
    BY <1>3, <1>4
  <2>2. PICK a \in pass.todo : \A d \in pass.todo : a <= d
    BY <1>4, <2>1, LeastNat
  <2>3. b = a
    BY <2>1, <2>2, MinIs
  <2>4. QED
    BY <1>4, <2>2, <2>3
<1> HIDE DEF b, D
<1>6. ~IsLast(file, b)
  BY <1>3, <1>5, LastIsUnique DEF FilesOk
<1>7. \A i \in 1 .. Len(file[b]) : file[b][i].off \in D => Dispensable(file, synced, Limit, D, file[b][i])
  BY <1>5 DEF DiskInv, PassOk, D
<1>8. Remains(file[b], D, Len(file[b]), w)
  <2>1. file[b] \in Seq(Entries) /\ Rising(file[b])
    BY <1>3, <1>5, SegmentEntry DEF FilesOk, Ordered
  <2>2. QED
    BY <2>1, WithoutIs
<1> HIDE DEF w
<1>9. Put(file, synced, b, w, Len(w), file', synced')
  <2>1. Put(file, synced, b, w, Len(w), [file EXCEPT ![b] = w], [synced EXCEPT ![b] = Len(w)])
    BY <1>3, <1>5, PutIs DEF FilesOk
  <2>2. QED
    BY <1>1, <2>1
<1>10. Survive(file, synced, markers, acked, Limit)
  BY <1>3 DEF DiskInv, FileInv
<1>11. /\ FilesOk(file', synced', markers') /\ Survive(file', synced', markers', acked, Limit)
       /\ DOMAIN file' = DOMAIN file
       /\ \A c \in DOMAIN file : c # b => file'[c] = file[c] /\ synced'[c] = synced[c]
       /\ \A r \in Entries : Safe(file, synced, Limit, r) /\ r.off \notin D => Safe(file', synced', Limit, r)
       /\ Whole(file, markers) => Whole(file', markers')
       /\ \A x \in Nat : Covers(file, markers, x) => Covers(file', markers', x)
  <2>1. Rewrites(file, synced, markers, Limit, b, D, w, markers')
    BY <1>1, <1>7, <1>8 DEF Rewrites
  <2>2. QED
    BY <1>3, <1>5, <1>6, <1>9, <1>10, <2>1, CompactionKeeps
<1>12. Limit' = Limit /\ Replicated' = Replicated /\ Files' = file' /\ Syncs' = synced'
  BY <1>1, <1>2 DEF Limit, Replicated, Does, Files, Syncs
<1>13. file'[currentSegment] = file[currentSegment] /\ synced'[currentSegment] = synced[currentSegment]
       /\ IsLast(file', currentSegment)
  BY <1>3, <1>5, <1>11 DEF IsLast
<1>14. FileInv'
  <2>1. Replicated => \A e \in DOMAIN file' : IsLast(file', e) => committed <= e + synced'[e]
    <3>1. \A e : IsLast(file', e) => e = currentSegment
      BY <1>11, <1>13, LastIsUnique DEF FilesOk
    <3>2. Replicated => committed <= currentSegment + synced[currentSegment]
      BY <1>3 DEF DiskInv, FileInv
    <3>3. QED
      BY <1>13, <3>1, <3>2
  <2>2. Replicated => Covers(file', markers', committed)
    BY <1>3, <1>11 DEF DiskInv, FileInv, TypeOk
  <2>3. (Replicated => up' /\ reconciled') => Whole(file', markers')
    BY <1>1, <1>2, <1>3, <1>11 DEF DiskInv, FileInv
  <2>4. acked' = acked /\ committed' = committed
    BY <1>1
  <2>5. QED
    BY <1>11, <1>12, <2>1, <2>2, <2>3, <2>4 DEF FileInv
<1>15. DOMAIN pass' = {"drop", "todo"} /\ (pass' = NoPass \/ (pass'.todo = rest /\ pass'.drop = D /\ rest # {}))
  <2>1. DOMAIN pass = {"drop", "todo"}
    BY DEF DiskInv, TypeOk
  <2>2. CASE rest = {}
    BY <1>1, <2>2 DEF NoPass
  <2>3. CASE rest # {}
    BY <1>1, <2>1, <2>3 DEF D
  <2>4. QED
    BY <2>2, <2>3
<1>16. PassOk'
  <2>1. CASE pass' = NoPass
    <3>1. pass'.todo = {}
      BY <2>1 DEF NoPass
    <3>2. QED
      BY <2>1, <3>1 DEF PassOk
  <2>2. CASE pass'.todo = rest /\ pass'.drop = D /\ rest # {}
    <3>1. ASSUME NEW c \in rest, NEW i \in 1 .. Len(file'[c]), file'[c][i].off \in D
          PROVE  Dispensable(file', synced', Limit, D, file'[c][i])
      <4>1. c \in pass.todo /\ file'[c] = file[c]
        BY <1>4, <1>11, <3>1
      <4>2. Dispensable(file, synced, Limit, D, file[c][i])
        BY <3>1, <4>1 DEF DiskInv, PassOk, D
      <4>3. QED
        BY <1>11, <4>1, <4>2 DEF Dispensable
    <3>2. rest \subseteq DOMAIN file' \ {currentSegment'}
      BY <1>1, <1>4, <1>11
    <3>3. QED
      BY <1>12, <2>2, <3>1, <3>2 DEF PassOk
  <2>3. QED
    BY <1>15, <2>1, <2>2
<1>17. TypeOk'
  <2>1. /\ DOMAIN file' \in SUBSET Nat /\ file' \in [DOMAIN file' -> Seq(Entries)]
        /\ synced' \in [DOMAIN file' -> Nat]
    BY <1>11 DEF FilesOk, Shape
  <2>2. QED
    BY <1>1, <1>15, <2>1 DEF DiskInv, TypeOk
<1>18. ModeOk' /\ WorkOk' /\ MarkOk' /\ PendingOk' /\ ReaderOk'
  BY <1>1, <1>2 DEF DiskInv, ModeOk, WorkOk, MarkOk, PendingOk, ReaderOk, Replicated, Does
<1>19. TailOk'
  <2>1. UNCHANGED <<up, writeCh, batch, absoluteOffset, flushedOffset, currentSegment, writeFailure, leo, committed>>
    BY <1>1
  <2>2. QED
    BY <1>2, <1>3, <1>12, <1>13, <2>1 DEF DiskInv, TailOk
<1>20. QED
  BY <1>14, <1>16, <1>17, <1>18, <1>19 DEF DiskInv

-----------------------------------------------------------------------------
(* A compacted range.                                                      *)

\* The records of a range: those of a dense run that the leader kept.
LEMMA RunRemains ==
    ASSUME NEW n \in Nat, NEW from \in Nat, NEW s \in [1 .. n -> Entries],
           \A i \in 1 .. n : s[i].off = from + i - 1, NEW D
    PROVE  /\ Without(s, D) \in Seq(Entries) /\ Rising(Without(s, D))
           /\ \A i \in 1 .. Len(Without(s, D)) : from <= Without(s, D)[i].off /\ Without(s, D)[i].off < from + n
<1> DEFINE w == Without(s, D)
<1>1. s \in Seq(Entries) /\ Len(s) = n
  OBVIOUS
<1>2. Rising(s)
  <2>1. SUFFICES ASSUME NEW i \in 1 .. n, NEW j \in 1 .. n, i < j PROVE s[i].off < s[j].off
    BY <1>1 DEF Rising
  <2>2. QED
    BY <2>1
<1>3. Remains(s, D, Len(s), w)
  BY <1>1, <1>2, WithoutIs
<1> HIDE DEF w
<1>4. ASSUME NEW i \in 1 .. Len(w) PROVE from <= w[i].off /\ w[i].off < from + n
  <2>1. PICK j \in 1 .. Len(s) : w[i] = s[j]
    BY <1>3 DEF Remains
  <2>2. w[i].off = from + j - 1 /\ j \in Nat /\ j >= 1 /\ j <= n
    BY <1>1, <2>1
  <2>3. QED
    BY <2>2
<1>5. w \in Seq(Entries) /\ Rising(w)
  BY <1>3 DEF Remains
<1>6. QED
  BY <1>4, <1>5 DEF w

\* The manifest of a range.
LEMMA RangeRecords ==
    ASSUME NEW from \in Nat, NEW to \in Nat, from < to, NEW k \in Kinds, NEW D
    PROVE  RangeOk([op |-> "range", from |-> from, to |-> to,
                    recs |-> Without([i \in 1 .. (to - from) |-> Record(from + i - 1, k)], D)])
<1> DEFINE n == to - from
           s == [i \in 1 .. n |-> Record(from + i - 1, k)]
           w == Without(s, D)
           p == [op |-> "range", from |-> from, to |-> to, recs |-> w]
<1>1. n \in Nat /\ from + n = to
  OBVIOUS
<1>2. \A i \in 1 .. n : from + i - 1 \in Nat
  BY <1>1
<1>3. \A i \in 1 .. n : Record(from + i - 1, k) \in Entries /\ Record(from + i - 1, k).off = from + i - 1
  BY <1>2, RecordEntry
<1> HIDE DEF n
<1>4. s \in [1 .. n -> Entries] /\ \A i \in 1 .. n : s[i].off = from + i - 1
  BY <1>3
<1> HIDE DEF s
<1>5. w \in Seq(Entries) /\ Rising(w) /\ \A i \in 1 .. Len(w) : from <= w[i].off /\ w[i].off < from + n
  BY <1>1, <1>4, RunRemains
<1> HIDE DEF w
<1>6. DOMAIN p = {"op", "from", "to", "recs"} /\ p.op = "range" /\ p.from = from /\ p.to = to /\ p.recs = w
  OBVIOUS
<1> HIDE DEF p
<1>7. RangeOk(p)
  BY <1>1, <1>5, <1>6 DEF RangeOk
<1>8. QED
  BY <1>7 DEF p, w, s, n

\* WriteCompactedReplicaRange up to the manifest: the roll is at the tail.
LEMMA StageCompactedRangeKeeps ==
    ASSUME DiskInv, NEW end, NEW keep, StageCompactedRange(end, keep)
    PROVE  DiskInv'
<1> USE DEF queueVars, markVars, history
<1>1. /\ UNCHANGED <<workload, up, writeCh, batch, absoluteOffset, flushedOffset, markers, writeFailure, pass,
                      reader, leo, hwm, checkpoint, reconciled, committed, acked>>
      /\ WithinHandler /\ Does("range") /\ reconciled /\ ~writeFailure /\ pass = NoPass /\ reader = {}
      /\ end \in (leo + 1) .. MaxOffset /\ SetFiles(RotateSegment(View, leo)) /\ work' = pending'
  BY DEF StageCompactedRange
<1>2. up /\ work = Idle /\ pending = Idle /\ ~Truncating /\ ~Does("queued") /\ Replicated
  BY <1>1, IdleState, Modes DEF DiskInv
<1>3. batch = <<>> /\ writeCh = <<>> /\ absoluteOffset = flushedOffset /\ leo = flushedOffset /\ flushedOffset \in Nat
  BY <1>2, NoQueue
<1>4. RangeOk(pending') /\ pending'.from = leo
  <2>1. PICK k \in Kinds :
           pending' = [op |-> "range", from |-> leo, to |-> end,
                       recs |-> Without([i \in 1..(end - leo) |-> Record(leo + i - 1, k)],
                                        (leo..(end - 1)) \ keep)]
    BY DEF StageCompactedRange
  <2>2. leo \in Nat /\ end \in Nat /\ leo < end
    BY <1>1, <1>3, DiskConstants
  <2>3. pending'.from = leo
    BY <2>1
  <2>4. RangeOk(pending')
    BY <2>1, <2>2, RangeRecords
  <2>5. QED
    BY <2>3, <2>4
<1>5. /\ RollDone(currentSegment, file, synced, markers, [current |-> currentSegment', file |-> file', synced |-> synced'])
      /\ WriteDone(currentSegment, file, synced, markers, <<>>, FALSE,
                   [current |-> currentSegment', file |-> file', synced |-> synced'])
  BY <1>1, <1>3, RollWrites
<1>6. currentSegment' = leo /\ file'[leo] = <<>> /\ synced'[leo] = 0 /\ IsLast(file', leo)
  <2>1. currentSegment \in Nat /\ Len(file[currentSegment]) \in Nat /\ currentSegment + Len(file[currentSegment]) = flushedOffset
    BY <1>1, <1>2, WhenIdle
  <2>2. /\ FilesOk(file', synced', markers) /\ IsLast(file', currentSegment') /\ currentSegment' \in Nat
        /\ currentSegment' + Len(file'[currentSegment']) = currentSegment + Len(file[currentSegment])
        /\ file'[currentSegment'] = <<>>
    BY <1>5 DEF RollDone
  <2>3. Len(file'[currentSegment']) = 0
    BY <2>2
  <2>4. currentSegment' = leo
    BY <1>3, <2>1, <2>2, <2>3
  <2>5. synced'[currentSegment'] \in Nat /\ synced'[currentSegment'] <= Len(file'[currentSegment'])
    BY <2>2, SegmentEntry DEF FilesOk, Sized, IsLast
  <2>6. QED
    BY <2>2, <2>3, <2>4, <2>5
<1>7. ~Truncating' /\ pending' # Idle
  BY <1>1, <1>4, Ops DEF Truncating, RangeOk
<1>8. Files' = file' /\ Syncs' = synced'
  <2>1. FilesOk(file', synced', markers)
    BY <1>5 DEF RollDone
  <2>2. /\ leo \in DOMAIN file' /\ DOMAIN synced' = DOMAIN file'
        /\ file' = [b \in DOMAIN file' |-> file'[b]] /\ synced' = [b \in DOMAIN synced' |-> synced'[b]]
    BY <1>6, <2>1 DEF FilesOk, Shape, IsLast
  <2>3. [file' EXCEPT ![leo] = <<>>] = file' /\ [synced' EXCEPT ![leo] = 0] = synced'
    BY <1>6, <2>2
  <2>4. QED
    BY <1>4, <1>7, <2>3 DEF Files, Syncs
<1>9. PendingOk'
  <2>1. committed <= leo /\ Replicated'
    BY <1>1, <1>2 DEF DiskInv, TailOk, Replicated, Does
  <2>2. Len(file'[leo]) = 0
    BY <1>6
  <2>3. QED
    BY <1>1, <1>4, <1>6, <2>1, <2>2 DEF PendingOk
<1>10. <<>> \in Seq(Entries) /\ Len(<<>>) = 0
  OBVIOUS
<1>11. Wrote(0, FALSE)
  BY <1>1, <1>2, <1>5, <1>7, <1>8, <1>9, <1>10, FilesStep
<1>12. TailOk'
  <2>1. currentSegment' <= flushedOffset' /\ currentSegment' + Len(Files'[currentSegment']) = flushedOffset'
    BY <1>1, <1>3, <1>11 DEF Wrote
  <2>2. Replicated' => flushedOffset' <= currentSegment' + Syncs'[currentSegment']
    BY <1>1, <1>11 DEF Wrote, Replicated, Does
  <2>3. Replicated' = Replicated /\ IsLast(Files', currentSegment')
    BY <1>1, <1>11 DEF Wrote, Replicated, Does
  <2>4. QED
    BY <1>1, <1>2, <2>1, <2>2, <2>3 DEF DiskInv, TailOk
<1>13. TypeOk'
  BY <1>1, <1>11 DEF DiskInv, TypeOk, Wrote
<1>14. ModeOk' /\ MarkOk'
  BY <1>1 DEF DiskInv, ModeOk, MarkOk, Replicated, Does
<1>15. WorkOk'
  <2>1. RangeOk(work') /\ work'.from = leo /\ Replicated'
    BY <1>1, <1>2, <1>4 DEF Replicated, Does
  <2>2. QED
    BY <1>1, <1>2, <1>6, <2>1 DEF WorkOk
<1>16. QED
  BY <1>11, <1>12, <1>13, <1>14, <1>15 DEF DiskInv, Wrote

\* The files while a range is pending: its segment is the last one and counts as empty.
LEMMA WithRange ==
    ASSUME DiskInv, pending # Idle
    PROVE  /\ RangeOk(pending) /\ Replicated /\ IsLast(file, pending.from) /\ committed <= pending.from
           /\ pending.from \in DOMAIN file /\ pending.from \in Nat /\ pending.to \in Nat /\ pending.from < pending.to
           /\ synced[pending.from] = Len(file[pending.from])
           /\ file[pending.from] \in {<<>>, pending.recs}
           /\ Put(file, synced, pending.from, <<>>, 0, Files, Syncs)
           /\ FilesOk(Files, Syncs, markers) /\ IsLast(Files, pending.from) /\ pending.from \notin markers
           /\ Files[pending.from] = <<>> /\ Syncs[pending.from] = 0 /\ DOMAIN Files = DOMAIN file
           /\ DOMAIN Syncs = DOMAIN file
           /\ \A b \in DOMAIN file : b # pending.from => Files[b] = file[b] /\ Syncs[b] = synced[b]
<1> DEFINE e == pending.from
<1>1. /\ RangeOk(pending) /\ Replicated /\ IsLast(file, e) /\ committed <= e
      /\ synced[e] = Len(file[e]) /\ file[e] \in {<<>>, pending.recs}
  BY DEF DiskInv, PendingOk
<1>2. e \in DOMAIN file /\ e \in Nat /\ pending.to \in Nat /\ e < pending.to
  BY <1>1 DEF RangeOk, IsLast
<1>3. /\ DOMAIN file \in SUBSET Nat /\ file \in [DOMAIN file -> Seq(Entries)] /\ synced \in [DOMAIN file -> Nat]
  BY DEF DiskInv, TypeOk
<1>4. Files = [file EXCEPT ![e] = <<>>] /\ Syncs = [synced EXCEPT ![e] = 0]
  BY DEF Files, Syncs
<1>5. /\ DOMAIN Files = DOMAIN file /\ DOMAIN Syncs = DOMAIN file /\ Files[e] = <<>> /\ Syncs[e] = 0
      /\ \A b \in DOMAIN file : b # e => Files[b] = file[b] /\ Syncs[b] = synced[b]
  BY <1>2, <1>3, <1>4
<1>6. FilesOk(Files, Syncs, markers)
  BY DEF DiskInv, FileInv
<1>7. Files = [b \in DOMAIN Files |-> Files[b]] /\ Syncs = [b \in DOMAIN Syncs |-> Syncs[b]]
  BY <1>5, <1>6 DEF FilesOk, Shape
<1>8. Put(file, synced, e, <<>>, 0, Files, Syncs)
  BY <1>5, <1>7 DEF Put
<1>9. IsLast(Files, e)
  BY <1>1, <1>5 DEF IsLast
<1>10. e \notin markers
  BY <1>6, <1>9, LastIsUnique DEF FilesOk, Ended
<1>11. QED
  BY <1>1, <1>2, <1>5, <1>6, <1>8, <1>9, <1>10

\* A range operation holds the locks.
LEMMA Installing ==
    ASSUME DiskInv, work.op = "range"
    PROVE  /\ up /\ work = pending /\ pending # Idle /\ pass = NoPass /\ ~Truncating /\ Replicated
           /\ currentSegment = pending.from /\ ~writeFailure /\ reconciled
           /\ batch = <<>> /\ writeCh = <<>>
<1>1. "range" # "idle" /\ "range" # "truncate" /\ "range" # "check"
  OBVIOUS
<1>2. work # Idle /\ ~Truncating /\ work # [op |-> "check"]
  BY <1>1, Ops DEF Truncating
<1>3. work = pending /\ currentSegment = pending.from /\ ~writeFailure /\ reconciled
  BY <1>1, <1>2 DEF DiskInv, WorkOk
<1>4. up /\ pass = NoPass /\ Replicated
  BY <1>2 DEF DiskInv, WorkOk
<1>5. batch = <<>> /\ writeCh = <<>>
  BY <1>4, Modes DEF DiskInv, ModeOk
<1>6. QED
  BY <1>2, <1>3, <1>4, <1>5

\* installCompactedRangeFile
LEMMA InstallCompactedRangeKeeps ==
    ASSUME DiskInv, InstallCompactedRange
    PROVE  DiskInv'
<1> USE DEF queueVars, markVars, history
<1> DEFINE e == pending.from
<1>1. /\ UNCHANGED <<workload, up, writeCh, batch, absoluteOffset, flushedOffset, currentSegment, markers, writeFailure,
                      pass, work, pending, reader, leo, hwm, checkpoint, reconciled, committed, acked>>
      /\ work.op = "range"
      /\ file' = [file EXCEPT ![work.from] = work.recs] /\ synced' = [synced EXCEPT ![work.from] = Len(work.recs)]
  BY DEF InstallCompactedRange
<1>2. up /\ work = pending /\ pending # Idle /\ pass = NoPass /\ ~Truncating /\ Replicated
  BY <1>1, Installing
<1>3. /\ RangeOk(pending) /\ IsLast(file, e) /\ committed <= e /\ e \in DOMAIN file /\ pending.recs \in Seq(Entries)
  BY <1>2, WithRange DEF RangeOk
<1>4. DOMAIN file \in SUBSET Nat /\ file \in [DOMAIN file -> Seq(Entries)] /\ synced \in [DOMAIN file -> Nat]
  BY DEF DiskInv, TypeOk
<1>5. /\ file' = [file EXCEPT ![e] = pending.recs] /\ synced' = [synced EXCEPT ![e] = Len(pending.recs)]
  BY <1>1, <1>2
<1>6. Len(pending.recs) \in Nat
  BY <1>3
<1>7. /\ DOMAIN file' = DOMAIN file /\ file' \in [DOMAIN file -> Seq(Entries)] /\ synced' \in [DOMAIN file -> Nat]
      /\ file'[e] = pending.recs /\ synced'[e] = Len(pending.recs)
  BY <1>3, <1>4, <1>5, <1>6
<1>8. Files' = Files /\ Syncs' = Syncs
  <2>1. [file' EXCEPT ![e] = <<>>] = [file EXCEPT ![e] = <<>>] /\ [synced' EXCEPT ![e] = 0] = [synced EXCEPT ![e] = 0]
    BY <1>3, <1>4, <1>5
  <2>2. QED
    BY <1>1, <1>2, <2>1 DEF Files, Syncs
<1>9. Limit' = Limit /\ Replicated' = Replicated /\ Truncating' = Truncating
  BY <1>1 DEF Limit, Replicated, Does, Truncating
<1>10. FileInv'
  BY <1>1, <1>8, <1>9 DEF DiskInv, FileInv
<1>11. TailOk'
  BY <1>1, <1>8, <1>9 DEF DiskInv, TailOk
<1>12. TypeOk'
  BY <1>1, <1>4, <1>7 DEF DiskInv, TypeOk
<1>13. PendingOk'
  <2>1. IsLast(file', e)
    BY <1>3, <1>7 DEF IsLast
  <2>2. QED
    BY <1>1, <1>2, <1>3, <1>7, <1>9, <2>1 DEF PendingOk
<1>14. ModeOk' /\ MarkOk' /\ ReaderOk'
  BY <1>1, <1>7 DEF DiskInv, ModeOk, MarkOk, ReaderOk, Replicated, Does
<1>15. WorkOk'
  <2>1. RangeOk(work') /\ currentSegment' = work'.from /\ ~writeFailure' /\ reconciled'
    BY <1>1, <1>2, <1>3, Installing
  <2>2. QED
    BY <1>1, <1>2, <1>9, <2>1 DEF WorkOk
<1>16. PassOk'
  <2>1. pass'.todo = {} /\ pass' = NoPass
    BY <1>1, <1>2 DEF NoPass
  <2>2. QED
    BY <2>1 DEF PassOk
<1>17. QED
  BY <1>10, <1>11, <1>12, <1>13, <1>14, <1>15, <1>16 DEF DiskInv

\* The files behind a completed range: a restart and the installation leave the same.
LEMMA RangeInstalled ==
    ASSUME DiskInv, pending # Idle, NEW g, NEW z, Ranged(Files, Syncs, pending.from, pending.to, pending.recs, g, z)
    PROVE  /\ FilesOk(g, z, markers \cup {pending.from}) /\ IsLast(g, pending.to)
           /\ pending.to \notin markers \cup {pending.from} /\ g[pending.to] = <<>> /\ z[pending.to] = 0
           /\ Carried(Files, Syncs, markers, g, z, markers \cup {pending.from})
           /\ Whole(Files, markers) => Whole(g, markers \cup {pending.from})
           /\ Covers(g, markers \cup {pending.from}, committed)
           /\ DOMAIN g = DOMAIN file \cup {pending.to}
<1> DEFINE e == pending.from
           to == pending.to
           s == pending.recs
<1>1. /\ FilesOk(Files, Syncs, markers) /\ IsLast(Files, e) /\ e \notin markers /\ Files[e] = <<>> /\ Syncs[e] = 0
      /\ committed <= e /\ Replicated /\ DOMAIN Files = DOMAIN file
  BY WithRange
<1>2. /\ to \in Nat /\ e < to /\ s \in Seq(Entries) /\ Rising(s)
      /\ \A i \in 1 .. Len(s) : e <= s[i].off /\ s[i].off < to
  BY WithRange DEF RangeOk
<1>3. Ranged(Files, Syncs, e, to, s, g, z)
  OBVIOUS
<1> HIDE DEF e, to, s
<1>4. /\ FilesOk(g, z, markers \cup {e}) /\ IsLast(g, to) /\ to \notin markers \cup {e} /\ g[to] = <<>> /\ z[to] = 0
      /\ Grows(Files, Syncs, markers, g, z, markers \cup {e}) /\ DOMAIN g = DOMAIN Files \cup {to}
      /\ Whole(Files, markers) => Whole(g, markers \cup {e})
      /\ \A x \in Nat : Covers(Files, markers, x) /\ x <= e => Covers(g, markers \cup {e}, x)
  BY <1>1, <1>2, <1>3, RangeKeeps
<1>5. Carried(Files, Syncs, markers, g, z, markers \cup {e})
  BY <1>1, <1>4, GrowthCarries
<1>6. Covers(g, markers \cup {e}, committed)
  <2>1. committed \in Nat /\ Covers(Files, markers, committed)
    BY <1>1 DEF DiskInv, TypeOk, FileInv
  <2>2. QED
    BY <1>1, <1>4, <2>1
<1>7. QED
  BY <1>1, <1>4, <1>5, <1>6 DEF e, to, s

\* completeCompactedRangeTransaction
LEMMA CompleteCompactedRangeKeeps ==
    ASSUME DiskInv, CompleteCompactedRange
    PROVE  DiskInv'
<1> USE DEF queueVars, markVars, history
<1> DEFINE e == pending.from
           to == pending.to
<1>1. /\ UNCHANGED <<workload, up, writeCh, batch, writeFailure, pass, reader, hwm, checkpoint, reconciled, committed, acked>>
      /\ work.op = "range" /\ file[work.from] = work.recs
      /\ file' = RangeFiles(file, work)
      /\ synced' = [b \in DOMAIN file' |-> IF b \in DOMAIN file THEN synced[b] ELSE 0]
      /\ markers' = markers \cup {work.from} /\ currentSegment' = work.to
      /\ absoluteOffset' = work.to /\ flushedOffset' = work.to /\ leo' = work.to
      /\ work' = Idle /\ pending' = Idle
  BY DEF CompleteCompactedRange, Bases
<1>2. /\ up /\ work = pending /\ pending # Idle /\ pass = NoPass /\ ~Truncating /\ Replicated /\ reconciled
      /\ batch = <<>> /\ writeCh = <<>>
  BY <1>1, Installing
<1>3. /\ committed <= e /\ e \in DOMAIN file /\ e \in Nat /\ to \in Nat /\ e < to /\ IsLast(file, e)
      /\ synced[e] = Len(file[e]) /\ DOMAIN Files = DOMAIN file
      /\ \A b \in DOMAIN file : b # e => Files[b] = file[b] /\ Syncs[b] = synced[b]
  BY <1>2, WithRange
<1>4. Ranged(Files, Syncs, e, to, pending.recs, file', synced')
  <2>1. file' = [b \in DOMAIN file \cup {e, to} |-> IF b = e THEN pending.recs ELSE IF b = to THEN <<>> ELSE file[b]]
    BY <1>1, <1>2 DEF RangeFiles
  <2>2. DOMAIN file' = DOMAIN file \cup {e, to} /\ to \notin DOMAIN file
    BY <1>3, <2>1, SomeSegment DEF IsLast
  <2>3. file' = [b \in DOMAIN Files \cup {e, to} |-> IF b = e THEN pending.recs ELSE IF b = to THEN <<>> ELSE Files[b]]
    BY <1>3, <2>1, <2>2
  <2>4. synced' = [b \in DOMAIN file' |-> IF b = e THEN Len(pending.recs) ELSE IF b \in DOMAIN Files THEN Syncs[b] ELSE 0]
    BY <1>1, <1>2, <1>3, <2>2
  <2>5. QED
    BY <2>3, <2>4 DEF Ranged
<1>5. markers' = markers \cup {e} /\ currentSegment' = to /\ absoluteOffset' = to /\ flushedOffset' = to /\ leo' = to
  BY <1>1, <1>2
<1>6. /\ FilesOk(file', synced', markers \cup {e}) /\ IsLast(file', to)
      /\ file'[to] = <<>> /\ synced'[to] = 0
      /\ Carried(Files, Syncs, markers, file', synced', markers \cup {e})
      /\ Whole(Files, markers) => Whole(file', markers \cup {e})
      /\ Covers(file', markers \cup {e}, committed)
      /\ DOMAIN file' = DOMAIN file \cup {to}
  BY <1>2, <1>4, RangeInstalled
<1>7. Limit' = Limit /\ Replicated' = Replicated /\ Files' = file' /\ Syncs' = synced' /\ ~Truncating'
  BY <1>1, Ops DEF Limit, Replicated, Does, Files, Syncs, Truncating, Idle
<1>8. FileInv'
  <2>1. Survive(file', synced', markers', acked, Limit)
    BY <1>5, <1>6 DEF DiskInv, FileInv, Carried
  <2>2. \A b \in DOMAIN file' : IsLast(file', b) => committed <= b + synced'[b]
    <3>1. \A b \in DOMAIN file' : IsLast(file', b) => b = to
      BY <1>6, LastIsUnique DEF FilesOk
    <3>2. committed <= to + 0 /\ committed \in Nat
      BY <1>3 DEF DiskInv, TypeOk
    <3>3. QED
      BY <1>6, <3>1, <3>2
  <2>3. Whole(file', markers')
    BY <1>2, <1>5, <1>6 DEF DiskInv, FileInv
  <2>4. committed' = committed /\ acked' = acked
    BY <1>1
  <2>5. QED
    BY <1>5, <1>6, <1>7, <2>1, <2>2, <2>3, <2>4 DEF FileInv
<1>9. TypeOk'
  <2>1. /\ DOMAIN file' \in SUBSET Nat /\ file' \in [DOMAIN file' -> Seq(Entries)]
        /\ synced' \in [DOMAIN file' -> Nat]
    BY <1>6 DEF FilesOk, Shape
  <2>2. QED
    BY <1>1, <1>3, <1>5, <2>1 DEF DiskInv, TypeOk
<1>10. ModeOk' /\ MarkOk' /\ ReaderOk' /\ PendingOk'
  BY <1>1, <1>6 DEF DiskInv, ModeOk, MarkOk, ReaderOk, PendingOk, Replicated, Does
<1>11. WorkOk'
  BY <1>1, <1>2 DEF WorkOk
<1>12. TailOk'
  <2>1. Len(batch') = 0 /\ Len(writeCh') = 0 /\ Dense(batch', to) /\ Dense(writeCh', to + Len(batch'))
    BY <1>1, <1>2, EmptyDense
  <2>2. to = to + Len(batch') + Len(writeCh') /\ to + Len(file'[to]) = to /\ to <= to + synced'[to] /\ committed <= to
    <3>1. Len(file'[to]) = 0 /\ committed \in Nat
      BY <1>6 DEF DiskInv, TypeOk
    <3>2. QED
      BY <1>3, <1>6, <2>1, <3>1
  <2>3. committed' = committed
    BY <1>1
  <2>4. QED
    BY <1>3, <1>5, <1>6, <1>7, <2>1, <2>2, <2>3 DEF TailOk
<1>13. PassOk'
  <2>1. pass'.todo = {} /\ pass' = NoPass
    BY <1>1, <1>2 DEF NoPass
  <2>2. QED
    BY <2>1 DEF PassOk
<1>14. QED
  BY <1>8, <1>9, <1>10, <1>11, <1>12, <1>13 DEF DiskInv

-----------------------------------------------------------------------------
(* Truncation.                                                             *)

\* A truncation holds the locks.
LEMMA Cutting ==
    ASSUME DiskInv, Truncating
    PROVE  /\ up /\ pending = Idle /\ pass = NoPass /\ Replicated /\ work # Idle
           /\ DOMAIN work = {"op", "to", "target"} /\ work.to = committed /\ committed \in Nat
           /\ Holds(file, work.target, committed) /\ work.target \notin markers
           /\ work.target \in DOMAIN file /\ work.target \in Nat /\ work.target <= committed
           /\ Files = file /\ Syncs = synced /\ FilesOk(file, synced, markers) /\ Limit = 0 .. committed - 1
           /\ Survive(file, synced, markers, acked, 0 .. committed - 1) /\ Covers(file, markers, committed)
           /\ \A e \in DOMAIN file : IsLast(file, e) => committed <= e + synced[e]
           /\ batch = <<>> /\ writeCh = <<>>
<1>1. "truncate" # "idle" /\ "range" # "truncate" /\ "truncate" # "check"
  OBVIOUS
<1>2. work # Idle /\ work # [op |-> "check"] /\ ~RangeOk(work)
  BY <1>1, Ops DEF Truncating, RangeOk
<1>3. /\ DOMAIN work = {"op", "to", "target"} /\ pending = Idle
      /\ work.to = committed /\ Holds(file, work.target, committed) /\ work.target \notin markers
  BY <1>2 DEF DiskInv, WorkOk
<1>4. up /\ pass = NoPass /\ Replicated
  BY <1>2 DEF DiskInv, WorkOk
<1>5. batch = <<>> /\ writeCh = <<>>
  BY <1>4, Modes DEF DiskInv, ModeOk
<1>6. Files = file /\ Syncs = synced
  BY <1>3 DEF Files, Syncs
<1>7. Limit = 0 .. committed - 1 /\ committed \in Nat /\ DOMAIN file \in SUBSET Nat
  BY <1>4 DEF Limit, DiskInv, TypeOk
<1>8. /\ FilesOk(file, synced, markers) /\ Survive(file, synced, markers, acked, 0 .. committed - 1)
      /\ Covers(file, markers, committed) /\ \A e \in DOMAIN file : IsLast(file, e) => committed <= e + synced[e]
  BY <1>4, <1>6, <1>7 DEF DiskInv, FileInv
<1>9. work.target \in DOMAIN file /\ work.target \in Nat /\ work.target <= committed
  BY <1>3, <1>7 DEF Holds
<1>10. QED
  BY <1>2, <1>3, <1>4, <1>5, <1>6, <1>7, <1>8, <1>9

\* TruncateTo removes the segments behind the target.
LEMMA TruncateRemoveKeeps ==
    ASSUME DiskInv, TruncateRemove
    PROVE  DiskInv'
<1> USE DEF queueVars, markVars, history
<1> DEFINE t == work.target
<1>1. /\ UNCHANGED <<workload, up, writeCh, batch, absoluteOffset, flushedOffset, currentSegment, writeFailure, pass,
                      work, pending, reader, leo, hwm, checkpoint, reconciled, committed, acked>>
      /\ Truncating /\ Truncating'
  BY DEF TruncateRemove, Truncating
<1>2. /\ up /\ pending = Idle /\ pass = NoPass /\ Replicated /\ work # Idle
      /\ DOMAIN work = {"op", "to", "target"} /\ work.to = committed /\ committed \in Nat
      /\ Holds(file, t, committed) /\ t \notin markers /\ t \in DOMAIN file /\ t \in Nat
      /\ FilesOk(file, synced, markers) /\ Limit = 0 .. committed - 1
      /\ Survive(file, synced, markers, acked, 0 .. committed - 1) /\ Covers(file, markers, committed)
      /\ \A e \in DOMAIN file : IsLast(file, e) => committed <= e + synced[e]
  BY <1>1, Cutting
<1>3. PICK x \in DOMAIN file : x > t /\ (\A c \in DOMAIN file : c > t => x <= c) /\ WithoutSegments({x})
  BY DEF TruncateRemove, Bases
<1> DEFINE K == DOMAIN file \ {x}
<1>4. AllBut(file, x, K)
  BY DEF AllBut
<1>5. Cut(file, synced, markers, K, file', synced', markers')
  <2>1. markers \ {x} = markers \cap K
    BY <1>2 DEF FilesOk, Shape
  <2>2. QED
    BY <1>3, <2>1 DEF WithoutSegments, Cut, Bases
<1> HIDE DEF K
<1>6. /\ FilesOk(file', synced', markers') /\ Survive(file', synced', markers', acked, 0 .. committed - 1)
      /\ Covers(file', markers', committed) /\ Holds(file', t, committed) /\ t \notin markers'
      /\ \A e \in DOMAIN file' : IsLast(file', e) => committed <= e + synced'[e]
  <2> HIDE DEF t
  <2>1. x > t /\ \A c \in DOMAIN file : c > t => x <= c
    BY <1>3
  <2>2. QED
    BY <1>2, <1>4, <1>5, <2>1, RemovalKeeps
<1>7. Limit' = Limit /\ Replicated' = Replicated /\ Files' = file' /\ Syncs' = synced' /\ acked' = acked
      /\ committed' = committed
  BY <1>1, <1>2 DEF Limit, Replicated, Does, Files, Syncs
<1>8. FileInv'
  BY <1>1, <1>2, <1>6, <1>7 DEF FileInv
<1>9. TypeOk'
  <2>1. /\ DOMAIN file' \in SUBSET Nat /\ file' \in [DOMAIN file' -> Seq(Entries)]
        /\ synced' \in [DOMAIN file' -> Nat]
    BY <1>6 DEF FilesOk, Shape
  <2>2. QED
    BY <1>1, <2>1 DEF DiskInv, TypeOk
<1>10. ModeOk' /\ MarkOk' /\ PendingOk'
  BY <1>1, <1>2 DEF DiskInv, ModeOk, MarkOk, PendingOk, Replicated, Does
<1>11. WorkOk'
  <2>1. DOMAIN work' = {"op", "to", "target"} /\ work'.op = "truncate" /\ work'.to = committed' /\ work'.target = t
    BY <1>1, <1>2 DEF Truncating
  <2>2. QED
    BY <1>1, <1>2, <1>6, <1>7, <2>1 DEF WorkOk
<1>12. TailOk'
  BY <1>1, <1>7 DEF DiskInv, TailOk
<1>13. ReaderOk'
  <2>1. DOMAIN file' = K
    BY <1>5 DEF Cut
  <2>2. x > committed /\ x \in Nat
    BY <1>2, <1>3, SomeSegment DEF Holds
  <2>3. \A b \in reader : b \in DOMAIN file /\ b < committed /\ b \in Nat
    BY <1>2, SomeSegment DEF DiskInv, ReaderOk
  <2>4. \A b \in reader : b \in K
    BY <1>2, <2>2, <2>3 DEF K
  <2>5. QED
    BY <1>1, <1>7, <2>1, <2>3, <2>4 DEF ReaderOk
<1>14. PassOk'
  <2>1. pass'.todo = {} /\ pass' = NoPass
    BY <1>1, <1>2 DEF NoPass
  <2>2. QED
    BY <2>1 DEF PassOk
<1>15. QED
  BY <1>8, <1>9, <1>10, <1>11, <1>12, <1>13, <1>14 DEF DiskInv

\* Where a contiguous segment is cut.
LEMMA CutPosition ==
    ASSUME NEW s \in Seq(Entries), NEW b \in Nat, Dense(s, b), NEW x \in Nat, b <= x, x <= b + Len(s)
    PROVE  FindTruncatePosition(s, x) = x - b
<1> DEFINE P(n) == (\A i \in 1 .. n : s[i].off < x) /\ (n < Len(s) => s[n + 1].off >= x)
<1>1. Len(s) \in Nat /\ x - b \in 0 .. Len(s)
  OBVIOUS
<1>2. \A i \in 1 .. Len(s) : s[i].off = b + i - 1
  BY DEF Dense
<1>3. P(x - b)
  <2>1. ASSUME NEW i \in 1 .. x - b PROVE s[i].off < x
    <3>1. i \in 1 .. Len(s) /\ b + i - 1 < x
      BY <1>1
    <3>2. QED
      BY <1>2, <3>1
  <2>2. ASSUME x - b < Len(s) PROVE s[x - b + 1].off >= x
    <3>1. x - b + 1 \in 1 .. Len(s) /\ b + (x - b + 1) - 1 = x
      BY <1>1, <2>2
    <3>2. QED
      BY <1>2, <3>1
  <2>3. QED
    BY <2>1, <2>2
<1>4. ASSUME NEW n \in 0 .. Len(s), P(n) PROVE n = x - b
  <2>1. ASSUME n < x - b PROVE FALSE
    <3>1. n < Len(s) /\ n + 1 \in 1 .. Len(s) /\ b + (n + 1) - 1 < x
      BY <1>1, <2>1
    <3>2. s[n + 1].off = b + (n + 1) - 1 /\ s[n + 1].off >= x
      BY <1>2, <1>4, <3>1
    <3>3. QED
      BY <3>1, <3>2
  <2>2. ASSUME n > x - b PROVE FALSE
    <3>1. x - b + 1 \in 1 .. n /\ x - b + 1 \in 1 .. Len(s) /\ b + (x - b + 1) - 1 = x
      BY <1>1, <2>2
    <3>2. s[x - b + 1].off = x /\ s[x - b + 1].off < x
      BY <1>2, <1>4, <3>1
    <3>3. QED
      BY <3>2
  <2>3. QED
    BY <1>1, <2>1, <2>2
<1> HIDE DEF P
<1>5. (CHOOSE n \in 0 .. Len(s) : P(n)) = x - b
  BY <1>1, <1>3, <1>4
<1>6. QED
  BY <1>5 DEF FindTruncatePosition, P

\* What is complete up to its last segment.
LEMMA CoversWhole ==
    ASSUME NEW f, NEW y, NEW m, FilesOk(f, y, m), NEW e, IsLast(f, e), NEW x \in Nat, e <= x, Covers(f, m, x)
    PROVE  Whole(f, m)
<1>1. DOMAIN f \in SUBSET Nat /\ e \in DOMAIN f
  BY DEF FilesOk, Shape, IsLast
<1>2. SUFFICES ASSUME NEW b \in DOMAIN f, NEW o \in Nat, Holds(f, b, o), ~IsLast(f, b)
               PROVE  b \in m \/ o < b + Len(f[b])
  BY DEF Whole
<1>3. o < e
  BY <1>1, <1>2 DEF Holds, IsLast
<1>4. o < x
  BY <1>1, <1>3
<1>5. QED
  BY <1>2, <1>4 DEF Covers

\* The target's segment is cut at the watermark.
LEMMA CutKeeps ==
    ASSUME NEW f, NEW y, NEW m, NEW A, NEW lim \in Nat, FilesOk(f, y, m), Survive(f, y, m, A, 0 .. lim - 1),
           NEW t, IsLast(f, t), t \notin m, lim <= t + y[t], Covers(f, m, lim), NEW n \in Nat, t + n = lim,
           NEW g, NEW z, Put(f, y, t, SubSeq(f[t], 1, n), n, g, z)
    PROVE  /\ FilesOk(g, z, m) /\ IsLast(g, t) /\ Survive(g, z, m, A, 0 .. lim - 1) /\ Covers(g, m, lim)
           /\ Whole(g, m) /\ t + Len(g[t]) = lim /\ t + z[t] = lim /\ DOMAIN g = DOMAIN f
<1> DEFINE s == SubSeq(f[t], 1, n)
<1>1. /\ t \in DOMAIN f /\ t \in Nat /\ f[t] \in Seq(Entries) /\ Len(f[t]) \in Nat /\ y[t] \in Nat
      /\ y[t] <= Len(f[t]) /\ Dense(f[t], t)
  BY SegmentEntry DEF FilesOk, IsLast, Sized, Ordered
<1>2. n <= y[t] /\ n <= Len(f[t]) /\ t <= lim
  BY <1>1
<1>3. Put(f, y, t, s, n, g, z)
  OBVIOUS
<1>4. s \in Seq(Entries) /\ Len(s) = n /\ Dense(s, t) /\ \A i \in 1 .. n : s[i] = f[t][i]
  BY <1>1, <1>2, DensePrefix
<1> HIDE DEF s
<1>5. n <= Len(s)
  BY <1>2, <1>4
<1>6. /\ FilesOk(g, z, m) /\ IsLast(g, t) /\ g[t] = s /\ z[t] = n /\ DOMAIN g = DOMAIN f
      /\ \A x \in Nat : Covers(f, m, x) /\ (x <= t + Len(s) \/ Len(f[t]) <= Len(s)) => Covers(g, m, x)
  BY <1>2, <1>3, <1>4, <1>5, LastReplaced
<1>7. Covers(g, m, lim)
  BY <1>2, <1>4, <1>6
<1>8. Whole(g, m)
  BY <1>2, <1>6, <1>7, CoversWhole
<1>9. Survive(g, z, m, A, 0 .. lim - 1)
  <2>1. ASSUME NEW r \in Entries, Safe(f, y, 0 .. lim - 1, r) PROVE Safe(g, z, 0 .. lim - 1, r)
    <3>1. PICK b \in DOMAIN f : \E i \in 1 .. y[b] : f[b][i] = r
      BY <2>1 DEF Safe, Stored
    <3>2. PICK i \in 1 .. y[b] : f[b][i] = r
      BY <3>1
    <3>3. CASE b # t
      <4>1. g[b] = f[b] /\ z[b] = y[b]
        BY <1>3, <3>3 DEF Put
      <4>2. QED
        BY <1>6, <2>1, <3>2, <4>1 DEF Safe, Stored
    <3>4. CASE b = t
      <4>1. i \in 1 .. Len(f[t])
        BY <1>1, <3>2, <3>4
      <4>2. r.off = t + i - 1
        BY <1>1, <3>2, <3>4, <4>1 DEF Dense
      <4>3. i \in 1 .. n
        <5>1. r.off \in 0 .. lim - 1
          BY <2>1 DEF Safe
        <5>2. QED
          BY <1>1, <4>1, <4>2, <5>1
      <4>4. g[t][i] = r
        BY <1>4, <1>6, <3>2, <3>4, <4>3
      <4>5. QED
        BY <1>1, <1>6, <2>1, <4>3, <4>4 DEF Safe, Stored
    <3>5. QED
      BY <3>3, <3>4
  <2>2. \A r \in Entries : Gone(f, r) => Gone(g, r)
    BY <1>6 DEF Gone
  <2>3. \A b \in m : \A r, s1 \in Entries :
           Holds(f, b, r.off) /\ Safe(f, y, 0 .. lim - 1, s1) /\ r.off < s1.off => b \in m /\ Holds(g, b, r.off)
    BY <1>6 DEF Holds
  <2>4. QED
    BY <2>1, <2>2, <2>3, SurviveKept
<1>10. QED
  BY <1>2, <1>4, <1>6, <1>7, <1>8, <1>9

\* TruncateTo's last step.
LEMMA TruncateFinishKeeps ==
    ASSUME DiskInv, TruncateFinish
    PROVE  DiskInv'
<1> USE DEF queueVars, markVars, history
<1> DEFINE t == work.target
           n == committed - t
           s == SubSeq(file[t], 1, n)
<1>1. /\ UNCHANGED <<workload, up, writeCh, batch, markers, writeFailure, pass, pending, reader, checkpoint,
                      committed, acked>>
      /\ Truncating /\ (\A b \in DOMAIN file : b <= t)
      /\ file' = [file EXCEPT ![t] = SubSeq(@, 1, FindTruncatePosition(file[t], work.to))]
      /\ synced' = [synced EXCEPT ![t] = FindTruncatePosition(file[t], work.to)]
      /\ currentSegment' = t /\ absoluteOffset' = work.to /\ flushedOffset' = work.to
      /\ leo' = work.to /\ hwm' = work.to /\ reconciled' = TRUE /\ work' = Idle
  BY DEF TruncateFinish, Truncating, Bases
<1>2. /\ up /\ pending = Idle /\ pass = NoPass /\ Replicated /\ work.to = committed /\ committed \in Nat
      /\ t \notin markers /\ t \in DOMAIN file /\ t \in Nat /\ t <= committed
      /\ FilesOk(file, synced, markers) /\ Limit = 0 .. committed - 1
      /\ Survive(file, synced, markers, acked, 0 .. committed - 1) /\ Covers(file, markers, committed)
      /\ \A e \in DOMAIN file : IsLast(file, e) => committed <= e + synced[e]
      /\ batch = <<>> /\ writeCh = <<>>
  BY <1>1, Cutting
<1>3. IsLast(file, t)
  BY <1>1, <1>2 DEF IsLast
<1>4. committed <= t + synced[t]
  BY <1>2, <1>3
<1>5. FindTruncatePosition(file[t], work.to) = n
  <2>1. /\ file[t] \in Seq(Entries) /\ Len(file[t]) \in Nat /\ synced[t] \in Nat /\ synced[t] <= Len(file[t])
        /\ Dense(file[t], t)
    BY <1>2, SegmentEntry DEF FilesOk, Sized, Ordered
  <2>2. committed <= t + Len(file[t])
    BY <1>2, <1>4, <2>1
  <2>3. QED
    BY <1>2, <2>1, <2>2, CutPosition
<1>6. Put(file, synced, t, s, n, file', synced')
  <2>1. Put(file, synced, t, s, n, [file EXCEPT ![t] = s], [synced EXCEPT ![t] = n])
    BY <1>2, PutIs DEF FilesOk
  <2>2. file' = [file EXCEPT ![t] = s] /\ synced' = [synced EXCEPT ![t] = n]
    BY <1>1, <1>5
  <2>3. QED
    BY <2>1, <2>2
<1>7. /\ FilesOk(file', synced', markers) /\ IsLast(file', t)
      /\ Survive(file', synced', markers, acked, 0 .. committed - 1) /\ Covers(file', markers, committed)
      /\ Whole(file', markers) /\ t + Len(file'[t]) = committed /\ t + synced'[t] = committed /\ DOMAIN file' = DOMAIN file
  <2>1. n \in Nat /\ t + n = committed
    BY <1>2
  <2>2. Put(file, synced, t, SubSeq(file[t], 1, n), n, file', synced')
    BY <1>6
  <2> HIDE DEF t, n
  <2>3. QED
    BY <1>2, <1>3, <1>4, <2>1, <2>2, CutKeeps
<1>8. /\ Limit' = Limit /\ Replicated' = Replicated /\ Files' = file' /\ Syncs' = synced' /\ ~Truncating'
      /\ committed' = committed /\ acked' = acked /\ markers' = markers
  BY <1>1, <1>2, Ops DEF Limit, Replicated, Does, Files, Syncs, Truncating, Idle
<1>9. FileInv'
  <2>1. \A e \in DOMAIN file' : IsLast(file', e) => committed <= e + synced'[e]
    <3>1. \A e \in DOMAIN file' : IsLast(file', e) => e = t
      BY <1>7, LastIsUnique DEF FilesOk
    <3>2. QED
      BY <1>2, <1>7, <3>1
  <2>2. QED
    BY <1>2, <1>7, <1>8, <2>1 DEF FileInv
<1>10. TypeOk'
  <2>1. /\ DOMAIN file' \in SUBSET Nat /\ file' \in [DOMAIN file' -> Seq(Entries)]
        /\ synced' \in [DOMAIN file' -> Nat]
    BY <1>7 DEF FilesOk, Shape
  <2>2. QED
    BY <1>1, <1>2, <2>1 DEF DiskInv, TypeOk
<1>11. ModeOk' /\ MarkOk' /\ PendingOk' /\ ReaderOk' /\ WorkOk'
  BY <1>1, <1>2, <1>7, Ops DEF DiskInv, ModeOk, MarkOk, PendingOk, ReaderOk, WorkOk, Replicated, Does
<1>12. TailOk'
  <2>1. Len(batch') = 0 /\ Len(writeCh') = 0 /\ Dense(batch', committed) /\ Dense(writeCh', committed + Len(batch'))
    BY <1>1, <1>2, EmptyDense
  <2>2. committed = committed + Len(batch') + Len(writeCh') /\ committed <= committed
    BY <1>2, <2>1
  <2>3. leo' = committed /\ absoluteOffset' = committed /\ flushedOffset' = committed /\ currentSegment' = t
    BY <1>1, <1>2
  <2>4. QED
    BY <1>2, <1>7, <1>8, <2>1, <2>2, <2>3 DEF TailOk
<1>13. PassOk'
  <2>1. pass'.todo = {} /\ pass' = NoPass
    BY <1>1, <1>2 DEF NoPass
  <2>2. QED
    BY <2>1 DEF PassOk
<1>14. QED
  BY <1>9, <1>10, <1>11, <1>12, <1>13 DEF DiskInv

-----------------------------------------------------------------------------
(* Crash and recovery.                                                     *)

\* What is left of the last segment grows from what was synced of it.
LEMMA CrashedFiles ==
    ASSUME NEW f, NEW y, NEW m, FilesOk(f, y, m), NEW e, IsLast(f, e), e \notin m,
           NEW n \in y[e] .. Len(f[e]), NEW g, Put(f, y, e, SubSeq(f[e], 1, n), y[e], g, y)
    PROVE  /\ FilesOk(g, y, m) /\ IsLast(g, e) /\ Carried(f, y, m, g, y, m) /\ DOMAIN g = DOMAIN f
           /\ Whole(f, m) => Whole(g, m)
           /\ \A x \in Nat : Covers(f, m, x) /\ x <= e + y[e] => Covers(g, m, x)
<1> DEFINE s == SubSeq(f[e], 1, n)
<1>1. /\ e \in DOMAIN f /\ e \in Nat /\ f[e] \in Seq(Entries) /\ Len(f[e]) \in Nat /\ y[e] \in Nat
      /\ y[e] <= Len(f[e]) /\ Dense(f[e], e)
  BY SegmentEntry DEF FilesOk, IsLast, Sized, Ordered
<1>2. n \in Nat /\ y[e] <= n /\ n <= Len(f[e])
  BY <1>1
<1>3. s \in Seq(Entries) /\ Len(s) = n /\ Dense(s, e) /\ \A i \in 1 .. n : s[i] = f[e][i]
  BY <1>1, <1>2, DensePrefix
<1>4. Put(f, y, e, s, y[e], g, y)
  OBVIOUS
<1> HIDE DEF s
<1>5. y[e] <= Len(s) /\ y[e] <= y[e] /\ \A i \in 1 .. y[e] : s[i] = f[e][i]
  BY <1>1, <1>2, <1>3
<1>6. /\ FilesOk(g, y, m) /\ IsLast(g, e) /\ DOMAIN g = DOMAIN f
      /\ Whole(f, m) => Whole(g, m)
      /\ \A x \in Nat : Covers(f, m, x) /\ (x <= e + Len(s) \/ Len(f[e]) <= Len(s)) => Covers(g, m, x)
      /\ Grows(f, y, m, g, y, m)
  BY <1>1, <1>3, <1>4, <1>5, LastReplaced
<1>7. Carried(f, y, m, g, y, m)
  BY <1>6, GrowthCarries
<1>8. ASSUME NEW x \in Nat, Covers(f, m, x), x <= e + y[e] PROVE Covers(g, m, x)
  <2>1. x <= e + Len(s)
    BY <1>1, <1>2, <1>3, <1>8
  <2>2. QED
    BY <1>6, <1>8, <2>1
<1>9. QED
  BY <1>6, <1>7, <1>8

\* A crash keeps what was synced.
LEMMA CrashKeeps ==
    ASSUME DiskInv, Crash
    PROVE  DiskInv'
<1> USE DEF queueVars, markVars, history
<1>1. /\ UNCHANGED <<workload, absoluteOffset, flushedOffset, currentSegment, synced, markers, writeFailure, pending,
                      leo, hwm, checkpoint, reconciled, committed, acked>>
      /\ up /\ up' = FALSE /\ writeCh' = <<>> /\ batch' = <<>> /\ pass' = NoPass /\ work' = Idle /\ reader' = {}
  BY DEF Crash
<1>2. FilesOk(Files, Syncs, markers) /\ DOMAIN Files = DOMAIN file /\ DOMAIN file \in SUBSET Nat
  BY SomeSegment DEF DiskInv, FileInv
<1>3. PICK e \in DOMAIN Files : IsLast(Files, e) /\ e \notin markers
  BY <1>2 DEF FilesOk, Ended
<1>4. Max(Bases) = e /\ IsLast(file, e) /\ e \in DOMAIN file
  <2>1. e \in DOMAIN file /\ \A b \in DOMAIN file : b <= e
    BY <1>2, <1>3 DEF IsLast
  <2>2. Max(DOMAIN file) = e
    BY <1>2, <2>1, MaxIs
  <2>3. QED
    BY <2>1, <2>2 DEF Bases, IsLast
<1>5. PICK n \in synced[e] .. Len(file[e]) : file' = [file EXCEPT ![e] = SubSeq(file[e], 1, n)]
  BY <1>4 DEF Crash
<1>6. DOMAIN file \in SUBSET Nat /\ file \in [DOMAIN file -> Seq(Entries)] /\ synced \in [DOMAIN file -> Nat]
  BY DEF DiskInv, TypeOk
<1>7. FileInv' /\ PendingOk' /\ file' \in [DOMAIN file' -> Seq(Entries)] /\ DOMAIN file' = DOMAIN file
  <2>1. CASE pending # Idle
    <3>1. pending.from = e /\ synced[e] = Len(file[e])
      <4>1. IsLast(file, pending.from) /\ synced[pending.from] = Len(file[pending.from])
        BY <2>1, WithRange
      <4>2. pending.from = e
        BY <1>4, <1>6, <4>1 DEF IsLast
      <4>3. QED
        BY <4>1, <4>2
    <3>2. file[e] \in Seq(Entries) /\ Len(file[e]) \in Nat
      BY <1>4, <1>6
    <3>3. n = Len(file[e]) /\ SubSeq(file[e], 1, n) = file[e]
      BY <3>1, <3>2
    <3>4. file' = file
      BY <1>4, <1>5, <1>6, <3>3
    <3>5. Replicated /\ ~up' /\ (Replicated => up' /\ reconciled' /\ ~Truncating') = FALSE
      BY <1>1, <2>1, WithRange
    <3>6. FileInv'
      BY <1>1, <3>4, <3>5, SameFiles
    <3>7. QED
      BY <1>1, <1>6, <3>4, <3>6, SamePending
  <2>2. CASE pending = Idle
    <3>1. Files = file /\ Syncs = synced /\ Files' = file' /\ Syncs' = synced' /\ Limit' = Limit /\ Replicated' = Replicated
      BY <1>1, <2>2 DEF Files, Syncs, Limit, Replicated, Does
    <3>2. FilesOk(file, synced, markers)
      BY <1>2, <3>1
    <3>3. Put(file, synced, e, SubSeq(file[e], 1, n), synced[e], file', synced)
      <4>1. Put(file, synced, e, SubSeq(file[e], 1, n), synced[e],
                [file EXCEPT ![e] = SubSeq(file[e], 1, n)], [synced EXCEPT ![e] = synced[e]])
        BY <1>4, <3>2, PutIs DEF FilesOk
      <4>2. [synced EXCEPT ![e] = synced[e]] = synced
        BY <1>4, <1>6
      <4>3. QED
        BY <1>5, <4>1, <4>2
    <3>4. /\ FilesOk(file', synced, markers) /\ IsLast(file', e) /\ Carried(file, synced, markers, file', synced, markers)
          /\ DOMAIN file' = DOMAIN file
          /\ Whole(file, markers) => Whole(file', markers)
          /\ \A x \in Nat : Covers(file, markers, x) /\ x <= e + synced[e] => Covers(file', markers, x)
      BY <1>3, <1>4, <3>2, <3>3, CrashedFiles
    <3>5. Survive(file', synced, markers, acked, Limit)
      BY <3>1, <3>4 DEF DiskInv, FileInv, Carried
    <3>6. Replicated => committed <= e + synced[e] /\ Covers(file', markers, committed)
      BY <1>4, <3>1, <3>4 DEF DiskInv, FileInv, TypeOk
    <3>7. Replicated => \A b \in DOMAIN file' : IsLast(file', b) => committed <= b + synced[b]
      BY <3>4, <3>6, LastIsUnique DEF FilesOk
    <3>8. ~Replicated => Whole(file', markers)
      BY <3>1, <3>4 DEF DiskInv, FileInv
    <3>9. ~up' /\ synced' = synced /\ markers' = markers /\ acked' = acked /\ committed' = committed
      BY <1>1
    <3>10. FileInv'
      BY <3>1, <3>4, <3>5, <3>6, <3>7, <3>8, <3>9 DEF FileInv
    <3>11. PendingOk'
      BY <1>1, <2>2 DEF PendingOk
    <3>12. QED
      BY <3>4, <3>10, <3>11 DEF FilesOk, Shape
  <2>3. QED
    BY <2>1, <2>2
<1>8. TypeOk'
  <2>1. batch' \in Seq(Entries) /\ writeCh' \in Seq(Entries) /\ DOMAIN pass' = {"drop", "todo"}
    <3>1. batch' = <<>> /\ writeCh' = <<>> /\ pass' = NoPass
      BY <1>1
    <3>2. QED
      BY <3>1 DEF NoPass
  <2>2. QED
    BY <1>1, <1>6, <1>7, <2>1 DEF DiskInv, TypeOk
<1>9. ModeOk' /\ MarkOk' /\ ReaderOk' /\ WorkOk' /\ TailOk'
  BY <1>1 DEF DiskInv, ModeOk, MarkOk, ReaderOk, WorkOk, TailOk, Replicated, Does
<1>10. PassOk'
  <2>1. pass'.todo = {} /\ pass' = NoPass
    BY <1>1 DEF NoPass
  <2>2. QED
    BY <2>1 DEF PassOk
<1>11. QED
  BY <1>7, <1>8, <1>9, <1>10 DEF DiskInv

\* What a restart finds on disk: the files, with a pending range completed.
Recoverable(y) ==
    /\ FilesOk(RecoveredFiles, y, RecoveredMarkers)
    /\ Carried(Files, Syncs, markers, RecoveredFiles, y, RecoveredMarkers)
    /\ Whole(Files, markers) => Whole(RecoveredFiles, RecoveredMarkers)
    /\ Replicated => Covers(RecoveredFiles, RecoveredMarkers, committed)
    /\ Replicated => \A e : IsLast(RecoveredFiles, e) => committed <= e + y[e]

\* Every state can be recovered from.
LEMMA RecoveredOk ==
    ASSUME DiskInv
    PROVE  \E y : Recoverable(y)
<1>1. CASE pending = Idle
  <2>1. RecoveredFiles = file /\ RecoveredMarkers = markers /\ Files = file /\ Syncs = synced
    BY <1>1 DEF RecoveredFiles, RecoveredMarkers, Files, Syncs
  <2>2. FilesOk(file, synced, markers) /\ Carried(file, synced, markers, file, synced, markers)
    BY <2>1 DEF DiskInv, FileInv, Carried
  <2>3. Replicated => Covers(file, markers, committed) /\ \A e : IsLast(file, e) => committed <= e + synced[e]
    BY <2>1 DEF DiskInv, FileInv, IsLast
  <2>4. Recoverable(synced)
    BY <2>1, <2>2, <2>3 DEF Recoverable
  <2>5. QED
    BY <2>4
<1>2. CASE pending # Idle
  <2> DEFINE e == pending.from
             to == pending.to
             g == RangeFiles(file, pending)
             z == [b \in DOMAIN g |-> IF b = e THEN Len(pending.recs) ELSE IF b \in DOMAIN Files THEN Syncs[b] ELSE 0]
  <2>1. RecoveredFiles = g /\ RecoveredMarkers = markers \cup {e}
    BY <1>2 DEF RecoveredFiles, RecoveredMarkers
  <2>2. DOMAIN Files = DOMAIN file /\ committed <= e /\ e < to /\ e \in Nat /\ to \in Nat /\ \A b \in DOMAIN file : b # e => Files[b] = file[b]
    BY <1>2, WithRange
  <2>3. Ranged(Files, Syncs, e, to, pending.recs, g, z)
    <3>1. g = [b \in DOMAIN Files \cup {e, to} |-> IF b = e THEN pending.recs ELSE IF b = to THEN <<>> ELSE Files[b]]
      BY <2>2 DEF RangeFiles
    <3>2. QED
      BY <3>1 DEF Ranged
  <2> HIDE DEF g, z
  <2>4. /\ FilesOk(g, z, markers \cup {e}) /\ IsLast(g, to) /\ z[to] = 0
        /\ Carried(Files, Syncs, markers, g, z, markers \cup {e})
        /\ Whole(Files, markers) => Whole(g, markers \cup {e})
        /\ Covers(g, markers \cup {e}, committed)
    BY <1>2, <2>3, RangeInstalled
  <2>5. ASSUME NEW b, IsLast(g, b) PROVE committed <= b + z[b]
    <3>1. b = to
      BY <2>4, <2>5, LastIsUnique DEF FilesOk
    <3>2. committed \in Nat
      BY DEF DiskInv, TypeOk
    <3>3. QED
      BY <2>2, <2>4, <3>1, <3>2
  <2>6. Recoverable(z)
    BY <2>1, <2>4, <2>5 DEF Recoverable
  <2>7. QED
    BY <2>6
<1>3. QED
  BY <1>1, <1>2

\* The last of the recovered segments.
LEMMA RecoveredLast ==
    ASSUME NEW y, FilesOk(RecoveredFiles, y, RecoveredMarkers)
    PROVE  /\ IsLast(RecoveredFiles, Max(DOMAIN RecoveredFiles))
           /\ Max(DOMAIN RecoveredFiles) \in DOMAIN RecoveredFiles /\ Max(DOMAIN RecoveredFiles) \in Nat
           /\ Max(DOMAIN RecoveredFiles) \notin RecoveredMarkers
<1>1. DOMAIN RecoveredFiles \in SUBSET Nat
  BY DEF FilesOk, Shape
<1>2. PICK e \in DOMAIN RecoveredFiles : IsLast(RecoveredFiles, e) /\ e \notin RecoveredMarkers
  BY DEF FilesOk, Ended
<1>3. \A b \in DOMAIN RecoveredFiles : b <= e
  BY <1>2 DEF IsLast
<1>4. Max(DOMAIN RecoveredFiles) = e
  BY <1>1, <1>2, <1>3, MaxIs
<1>5. QED
  BY <1>1, <1>2, <1>4

\* newDiskHandler and NewPartition: recovery from the files.
LEMMA NewDiskHandlerKeeps ==
    ASSUME DiskInv, NewDiskHandler
    PROVE  DiskInv'
<1> USE DEF queueVars, history
<1> DEFINE f == RecoveredFiles
           m == RecoveredMarkers
           e == Max(DOMAIN RecoveredFiles)
<1>1. /\ UNCHANGED <<workload, writeCh, batch, pass, work, reader, checkpoint, committed, acked>>
      /\ ~up /\ file' = f /\ synced' = [b \in DOMAIN f |-> Len(f[b])] /\ currentSegment' = e
      /\ markers' = m /\ pending' = Idle /\ absoluteOffset' = RecoveredTail /\ flushedOffset' = RecoveredTail
      /\ leo' = RecoveredTail /\ hwm' = Min({checkpoint, RecoveredTail})
      /\ up' = TRUE /\ writeFailure' = FALSE /\ reconciled' = FALSE
  BY DEF NewDiskHandler
<1>2. work = Idle /\ reader = {} /\ pass = NoPass /\ batch = <<>> /\ writeCh = <<>>
  BY <1>1 DEF DiskInv, WorkOk, ModeOk
<1>3. PICK y : Recoverable(y)
  BY RecoveredOk
<1>4. /\ FilesOk(f, y, m) /\ Carried(Files, Syncs, markers, f, y, m) /\ (Whole(Files, markers) => Whole(f, m))
      /\ Replicated => Covers(f, m, committed) /\ \A b : IsLast(f, b) => committed <= b + y[b]
  BY <1>3 DEF Recoverable
<1>5. IsLast(f, e) /\ e \in DOMAIN f /\ e \in Nat /\ e \notin m
  BY <1>4, RecoveredLast
<1>6. RecoveredTail = e + Len(f[e])
  BY DEF RecoveredTail
<1> HIDE DEF f, m, e
<1>7. /\ FilesOk(f, synced', m) /\ Grows(f, y, m, f, synced', m)
  BY <1>1, <1>4, AllSynced
<1>8. Carried(f, y, m, f, synced', m)
  BY <1>4, <1>7, GrowthCarries
<1>9. Len(f[e]) \in Nat /\ y[e] \in Nat /\ y[e] <= Len(f[e]) /\ synced'[e] = Len(f[e])
  <2>1. Len(f[e]) \in Nat /\ y[e] \in Nat /\ y[e] <= Len(f[e])
    BY <1>4, <1>5, SegmentEntry DEF FilesOk, Sized
  <2>2. synced'[e] = Len(f[e])
    BY <1>1, <1>5
  <2>3. QED
    BY <2>1, <2>2
<1>10. committed \in Nat /\ checkpoint \in Nat /\ RecoveredTail \in Nat /\ (Replicated => committed <= RecoveredTail)
  <2>1. committed \in Nat /\ checkpoint \in Nat
    BY DEF DiskInv, TypeOk
  <2>2. Replicated => committed <= e + y[e]
    BY <1>4, <1>5
  <2>3. QED
    BY <1>5, <1>6, <1>9, <2>1, <2>2
<1>11. Limit' = Limit /\ Replicated' = Replicated /\ Files' = file' /\ Syncs' = synced' /\ ~Truncating'
  BY <1>1, <1>2, Ops DEF Limit, Replicated, Does, Files, Syncs, Truncating, Idle
<1>12. FileInv'
  <2>1. Survive(f, synced', m, acked, Limit)
    <3>1. Survive(Files, Syncs, markers, acked, Limit)
      BY DEF DiskInv, FileInv
    <3>2. Survive(f, y, m, acked, Limit)
      BY <1>4, <3>1 DEF Carried
    <3>3. QED
      BY <1>8, <3>2 DEF Carried
  <2>2. Replicated => \A b \in DOMAIN f : IsLast(f, b) => committed <= b + synced'[b]
    <3>1. \A b \in DOMAIN f : IsLast(f, b) => b = e
      BY <1>4, <1>5, LastIsUnique DEF FilesOk
    <3>2. QED
      BY <1>6, <1>9, <1>10, <3>1
  <2>3. ~Replicated => Whole(f, m)
    BY <1>4 DEF DiskInv, FileInv
  <2>4. file' = f /\ markers' = m /\ acked' = acked /\ committed' = committed /\ ~reconciled'
    BY <1>1
  <2>5. QED
    BY <1>4, <1>7, <1>11, <2>1, <2>2, <2>3, <2>4 DEF FileInv
<1>13. hwm' \in Nat /\ hwm' <= checkpoint
  <2>1. Min({checkpoint, RecoveredTail}) = IF checkpoint <= RecoveredTail THEN checkpoint ELSE RecoveredTail
    BY <1>10, PairExtrema
  <2>2. hwm' = IF checkpoint <= RecoveredTail THEN checkpoint ELSE RecoveredTail
    BY <1>1, <2>1
  <2>3. QED
    BY <1>10, <2>2
<1>14. TypeOk'
  <2>1. /\ DOMAIN file' \in SUBSET Nat /\ file' \in [DOMAIN file' -> Seq(Entries)]
        /\ synced' \in [DOMAIN file' -> Nat]
    BY <1>1, <1>7 DEF FilesOk, Shape
  <2>2. QED
    BY <1>1, <1>5, <1>10, <1>13, <2>1 DEF DiskInv, TypeOk
<1>15. ModeOk' /\ PendingOk' /\ ReaderOk' /\ WorkOk'
  BY <1>1, <1>2 DEF DiskInv, ModeOk, PendingOk, ReaderOk, WorkOk, Replicated, Does
<1>16. MarkOk'
  <2>1. Replicated => checkpoint <= committed
    BY DEF DiskInv, MarkOk
  <2>2. Replicated => hwm' <= committed
    BY <1>10, <1>13, <2>1
  <2>3. QED
    BY <1>1, <1>11, <2>1, <2>2 DEF MarkOk
<1>17. TailOk'
  <2>1. Len(batch') = 0 /\ Len(writeCh') = 0 /\ Dense(batch', RecoveredTail)
        /\ Dense(writeCh', RecoveredTail + Len(batch'))
    BY <1>1, <1>2, EmptyDense
  <2>2. /\ RecoveredTail = RecoveredTail + Len(batch') + Len(writeCh') /\ e <= RecoveredTail
        /\ RecoveredTail <= e + synced'[e]
    BY <1>5, <1>6, <1>9, <1>10, <2>1
  <2>3. /\ leo' = RecoveredTail /\ absoluteOffset' = RecoveredTail /\ flushedOffset' = RecoveredTail
        /\ currentSegment' = e /\ committed' = committed /\ file' = f
    BY <1>1
  <2>4. QED
    BY <1>5, <1>6, <1>10, <1>11, <2>1, <2>2, <2>3 DEF TailOk
<1>18. PassOk'
  <2>1. pass'.todo = {} /\ pass' = NoPass
    BY <1>1, <1>2 DEF NoPass
  <2>2. QED
    BY <2>1 DEF PassOk
<1>19. QED
  BY <1>12, <1>14, <1>15, <1>16, <1>17, <1>18 DEF DiskInv

-----------------------------------------------------------------------------
(* The invariant holds.                                                    *)

\* An empty partition.
LEMMA InitHolds ==
    ASSUME Init
    PROVE  DiskInv
<1>1. /\ workload \in Workloads /\ up = TRUE /\ writeCh = <<>> /\ batch = <<>>
      /\ absoluteOffset = 0 /\ flushedOffset = 0 /\ currentSegment = 0
      /\ file = [b \in {0} |-> <<>>] /\ synced = [b \in {0} |-> 0] /\ markers = {}
      /\ writeFailure = FALSE /\ pass = NoPass /\ work = Idle /\ pending = Idle /\ reader = {}
      /\ leo = 0 /\ hwm = 0 /\ checkpoint = 0 /\ reconciled = TRUE /\ committed = 0 /\ acked = {}
  BY DEF Init
<1>2. /\ DOMAIN file = {0} /\ file[0] = <<>> /\ synced[0] = 0 /\ Len(file[0]) = 0 /\ DOMAIN synced = {0}
      /\ file \in [{0} -> Seq(Entries)] /\ synced \in [{0} -> Nat]
  <2>1. <<>> \in Seq(Entries) /\ Len(<<>>) = 0
    OBVIOUS
  <2>2. QED
    BY <1>1, <2>1
<1>3. Files = file /\ Syncs = synced /\ ~Truncating
  BY <1>1, Ops DEF Files, Syncs, Truncating, Idle
<1>4. TypeOk
  <2>1. batch \in Seq(Entries) /\ writeCh \in Seq(Entries) /\ DOMAIN pass = {"drop", "todo"}
    <3>1. batch = <<>> /\ writeCh = <<>> /\ pass = NoPass
      BY <1>1
    <3>2. QED
      BY <3>1 DEF NoPass
  <2>2. QED
    BY <1>1, <1>2, <2>1 DEF TypeOk
<1>5. IsLast(file, 0)
  BY <1>2 DEF IsLast
<1>6. FilesOk(file, synced, markers)
  <2>1. Shape(file, synced, markers)
    BY <1>1, <1>2 DEF Shape
  <2>2. Sized(file, synced)
    BY <1>2 DEF Sized
  <2>3. Ordered(file, markers) /\ Apart(file)
    BY <1>2 DEF Ordered, Apart, Rising, Dense
  <2>4. Ended(file, markers)
    BY <1>1, <1>2, <1>5 DEF Ended
  <2>5. QED
    BY <2>1, <2>2, <2>3, <2>4 DEF FilesOk
<1>7. Survive(file, synced, markers, acked, Limit)
  BY <1>1 DEF Survive
<1>8. Whole(file, markers) /\ Covers(file, markers, committed)
  BY <1>1, <1>2, <1>5 DEF Whole, Covers
<1>9. FileInv
  <2>1. \A e \in DOMAIN file : committed <= e + synced[e]
    BY <1>1, <1>2
  <2>2. QED
    BY <1>3, <1>6, <1>7, <1>8, <2>1 DEF FileInv
<1>10. ModeOk /\ PendingOk /\ WorkOk /\ MarkOk /\ ReaderOk
  BY <1>1 DEF ModeOk, PendingOk, WorkOk, MarkOk, ReaderOk
<1>11. TailOk
  <2>1. Len(batch) = 0 /\ Len(writeCh) = 0 /\ Dense(batch, 0) /\ Dense(writeCh, 0 + Len(batch))
    BY <1>1, EmptyDense
  <2>2. QED
    BY <1>1, <1>2, <1>3, <1>5, <2>1 DEF TailOk
<1>12. PassOk
  <2>1. pass.todo = {} /\ pass = NoPass
    BY <1>1 DEF NoPass
  <2>2. QED
    BY <2>1 DEF PassOk
<1>13. QED
  BY <1>4, <1>9, <1>10, <1>11, <1>12 DEF DiskInv

\* A stuttering step.
LEMMA StutterKeeps ==
    ASSUME DiskInv, UNCHANGED vars
    PROVE  DiskInv'
<1> USE DEF fileVars, queueVars, markVars, history
<1>1. UNCHANGED <<workload, up, writeCh, batch, absoluteOffset, flushedOffset, currentSegment, file, synced,
                   markers, writeFailure, pass, work, pending, reader, leo, hwm, checkpoint, reconciled, committed,
                   acked>>
  BY DEF vars
<1>2. TypeOk' /\ ModeOk' /\ WorkOk' /\ MarkOk'
  BY <1>1 DEF DiskInv, TypeOk, ModeOk, WorkOk, MarkOk, Replicated, Does
<1>3. FileInv'
  BY <1>1, SameFiles DEF DiskInv, FileInv, Truncating
<1>4. PendingOk' /\ TailOk' /\ PassOk' /\ ReaderOk'
  BY <1>1, SamePending, SameTail, SamePass, SameReader DEF Truncating
<1>5. QED
  BY <1>2, <1>3, <1>4 DEF DiskInv

\* Every step of every caller, loop and policy, and a crash and a restart between any two.
LEMMA StepKeeps ==
    ASSUME DiskInv, [Next]_vars
    PROVE  DiskInv'
<1>1. ASSUME NEW k \in Kinds, Enqueue(k) \/ EnqueueSync(k) \/ WriteFails(k) PROVE DiskInv'
  BY <1>1, EnqueueKeeps, EnqueueSyncKeeps, WriteFailsKeeps
<1>2. ASSUME NEW k \in Kinds, EnqueueBatchLeader(<<k>>) PROVE DiskInv'
  <2>1. <<k>> \in Seq(Kinds) /\ <<k>> # <<>>
    OBVIOUS
  <2>2. QED
    BY <1>2, <2>1, EnqueueBatchLeaderKeeps
<1>3. ASSUME NEW k \in Kinds, NEW l \in Kinds, EnqueueBatchLeader(<<k, l>>) PROVE DiskInv'
  <2>1. <<k, l>> \in Seq(Kinds) /\ <<k, l>> # <<>>
    OBVIOUS
  <2>2. QED
    BY <1>3, <2>1, EnqueueBatchLeaderKeeps
<1>4. ASSUME NEW h \in 1 .. MaxOffset, ApplyReplicaHWM(h) PROVE DiskInv'
  BY <1>4, ApplyReplicaHWMKeeps
<1>5. ASSUME FlushLoopTake \/ FlushLoopLinger \/ FlushDisk \/ SyncLoop \/ SegmentTicker \/ PersistHWMCheckpoint
      PROVE  DiskInv'
  BY <1>5, FlushLoopTakeKeeps, FlushLoopLingerKeeps, FlushDiskKeeps, SyncLoopKeeps, SegmentTickerKeeps, PersistKeeps
<1>6. ASSUME NEW o \in 0 .. MaxOffset, ReadBegin(o) PROVE DiskInv'
  BY <1>6, ReadBeginKeeps
<1>7. ASSUME NEW n \in 0 .. MaxOffset, EnforceRetention(n) PROVE DiskInv'
  BY <1>7, EnforceRetentionKeeps
<1>8. ASSUME ReadEnd \/ EnforceCompaction \/ CompactClosedSegment \/ CompactionDeferred PROVE DiskInv'
  BY <1>8, ReadEndKeeps, EnforceCompactionKeeps, CompactClosedSegmentKeeps, CompactionDeferredKeeps
<1>9. ASSUME NEW end \in 1 .. MaxOffset, NEW keep \in SUBSET (0 .. MaxOffset), StageCompactedRange(end, keep)
      PROVE  DiskInv'
  BY <1>9, StageCompactedRangeKeeps
<1>10. ASSUME InstallCompactedRange \/ CompleteCompactedRange \/ ReconcileAligned PROVE DiskInv'
  BY <1>10, InstallCompactedRangeKeeps, CompleteCompactedRangeKeeps, ReconcileAlignedKeeps
<1>11. ASSUME TruncateCheck \/ TruncateRefused \/ TruncateBegin \/ TruncateRemove \/ TruncateFinish PROVE DiskInv'
  BY <1>11, TruncateCheckKeeps, TruncateRefusedKeeps, TruncateBeginKeeps, TruncateRemoveKeeps, TruncateFinishKeeps
<1>12. ASSUME Close \/ Crash \/ NewDiskHandler PROVE DiskInv'
  BY <1>12, CloseKeeps, CrashKeeps, NewDiskHandlerKeeps
<1>13. ASSUME UNCHANGED vars PROVE DiskInv'
  BY <1>13, StutterKeeps
<1>14. QED
  BY <1>1, <1>2, <1>3, <1>4, <1>5, <1>6, <1>7, <1>8, <1>9, <1>10, <1>11, <1>12, <1>13 DEF Next

\* The inductive invariant of the disk log: the files are well formed, complete as far as readers
\* and the cluster watermark rely on them, and hold what was acknowledged, in every state of
\* DiskHandler, in the middle of a range installation or truncation and after any crash.
THEOREM DiskInvariant == Spec => []DiskInv
<1>1. Init => DiskInv
  BY InitHolds
<1>2. DiskInv /\ [Next]_vars => DiskInv'
  BY StepKeeps
<1>3. QED
  BY <1>1, <1>2, PTL DEF Spec

-----------------------------------------------------------------------------
(* What it means for restarts, clients and readers.                        *)

\* Every segment is readable, and a restart finds the active one contiguous.
LEMMA InvReadable ==
    ASSUME DiskInv
    PROVE  SegmentsReadable
<1> DEFINE f == RecoveredFiles
           m == RecoveredMarkers
<1>1. PICK y : Recoverable(y)
  BY RecoveredOk
<1>2. FilesOk(f, y, m)
  BY <1>1 DEF Recoverable
<1>3. Max(DOMAIN f) \notin m
  BY <1>2, RecoveredLast
<1> HIDE DEF f, m
<1>4. \A b \in DOMAIN f : WellFormed(f, m, b)
  BY <1>2 DEF FilesOk, Ordered, Rising, Dense, WellFormed, ScanSegmentTail
<1>5. \A b, c \in DOMAIN f : b < c => \A i \in 1..Len(f[b]) : f[b][i].off < c
  BY <1>2 DEF FilesOk, Apart
<1>6. QED
  BY <1>3, <1>4, <1>5 DEF SegmentsReadable, f, m

\* A segment that is not the one of a pending range.
LEMMA OutsideRange ==
    ASSUME DiskInv, NEW b \in DOMAIN file, Files[b] # <<>> \/ Syncs[b] # 0
    PROVE  Files[b] = file[b] /\ Syncs[b] = synced[b]
<1>1. CASE pending = Idle
  BY <1>1 DEF Files, Syncs
<1>2. CASE pending # Idle
  BY <1>2, WithRange
<1>3. QED
  BY <1>1, <1>2

\* What is stored is durable: a reader finds it in its segment.
LEMMA StoredDurable ==
    ASSUME DiskInv, NEW r, Stored(Files, Syncs, r)
    PROVE  Durable(r) /\ r \in AllRecords
<1>1. FilesOk(Files, Syncs, markers) /\ DOMAIN Files = DOMAIN file /\ DOMAIN file \in SUBSET Nat
  BY SomeSegment DEF DiskInv, FileInv
<1>2. PICK b \in DOMAIN Files : Holds(Files, b, r.off) /\ \E i \in 1 .. Syncs[b] : Files[b][i] = r
  BY <1>1, StoredIn
<1>3. PICK i \in 1 .. Syncs[b] : Files[b][i] = r
  BY <1>2
<1>4. Syncs[b] \in Nat /\ Syncs[b] # 0 /\ Syncs[b] <= Len(Files[b]) /\ Len(Files[b]) \in Nat
  BY <1>1, <1>2, <1>3, SegmentEntry DEF FilesOk, Sized
<1>5. Files[b] = file[b] /\ Syncs[b] = synced[b] /\ b \in DOMAIN file
  BY <1>1, <1>4, OutsideRange
<1>6. SegmentFor(r.off) = b
  <2>1. Holds(file, b, r.off)
    BY <1>1, <1>2 DEF Holds
  <2>2. QED
    BY <1>1, <2>1, LookupIs
<1>7. Durable(r)
  BY <1>3, <1>5, <1>6 DEF Durable
<1>8. r \in AllRecords
  <2>1. file[b] \in Seq(Entries) /\ i \in 1 .. Len(file[b]) /\ file[b][i] = r
    BY <1>3, <1>4, <1>5 DEF DiskInv, TypeOk
  <2>2. i \in DOMAIN file[b]
    BY <2>1
  <2>3. r \in ToSet(file[b])
    BY <2>1, <2>2 DEF ToSet
  <2>4. QED
    BY <1>5, <2>3 DEF AllRecords, Bases
<1>9. QED
  BY <1>7, <1>8

\* What became of an acknowledged record, read off the files.
LEMMA AckedKept ==
    ASSUME DiskInv, NEW r \in acked
    PROVE  /\ r \in Entries
           /\ r.off < EarliestOffset \/ (Kept(Files, Syncs, markers, Limit, r) /\ Anchored(Files, Syncs, Limit, r)
                                            /\ ~Gone(Files, r))
<1>1. r \in Entries /\ Kept(Files, Syncs, markers, Limit, r)
  BY DEF DiskInv, FileInv, Survive
<1>2. CASE Gone(Files, r)
  <2>1. EarliestOffset \in DOMAIN file
    BY SomeSegment, FirstIs
  <2>2. r.off < EarliestOffset
    BY <1>2, <2>1, SomeSegment DEF Gone
  <2>3. QED
    BY <1>1, <2>2
<1>3. CASE ~Gone(Files, r)
  BY <1>1, <1>3 DEF Kept
<1>4. QED
  BY <1>2, <1>3

\* Acknowledged records survive.
LEMMA InvAckedSurvive ==
    ASSUME DiskInv
    PROVE  AckedSurvive
<1>1. SUFFICES ASSUME NEW r \in acked, ~(r.off < EarliestOffset)
               PROVE  \/ Durable(r)
                      \/ /\ r.key # None /\ SegmentFor(r.off) \in markers
                         /\ \E s \in AllRecords : s.key = r.key /\ s.off > r.off
  BY DEF AckedSurvive
<1>2. Stored(Files, Syncs, r) \/ Replaced(Files, Syncs, markers, Limit, r)
  BY <1>1, AckedKept DEF Kept
<1>3. CASE Stored(Files, Syncs, r)
  BY <1>3, StoredDurable
<1>4. CASE Replaced(Files, Syncs, markers, Limit, r)
  <2>1. PICK b \in markers : Holds(Files, b, r.off)
    BY <1>4 DEF Replaced
  <2>2. Holds(file, b, r.off) /\ DOMAIN file \in SUBSET Nat
    BY <2>1, SomeSegment DEF Holds
  <2>3. SegmentFor(r.off) = b
    BY <2>2, LookupIs
  <2>4. PICK s \in Entries : Safe(Files, Syncs, Limit, s) /\ s.key = r.key /\ s.off > r.off
    BY <1>4 DEF Replaced
  <2>5. s \in AllRecords
    BY <2>4, StoredDurable DEF Safe
  <2>6. QED
    BY <1>4, <2>1, <2>3, <2>4, <2>5 DEF Replaced
<1>5. QED
  BY <1>2, <1>3, <1>4

\* Producers keep their anchors.
LEMMA InvProducerAnchored ==
    ASSUME DiskInv
    PROVE  ProducerAnchored
<1>1. SUFFICES ASSUME NEW r \in acked, r.prod # None, r.off >= EarliestOffset
               PROVE  \E s \in AllRecords : s.prod = r.prod /\ s.off >= r.off /\ Durable(s)
  BY DEF ProducerAnchored
<1>2. EarliestOffset \in Nat
  BY SomeSegment, FirstIs
<1>3. r.off \in Nat
  BY AckedKept DEF Entries
<1>4. Anchored(Files, Syncs, Limit, r)
  BY <1>1, <1>2, <1>3, AckedKept
<1>5. PICK s \in Entries : Safe(Files, Syncs, Limit, s) /\ s.prod = r.prod /\ s.off >= r.off
  BY <1>1, <1>4 DEF Anchored
<1>6. s \in AllRecords /\ Durable(s)
  BY <1>5, StoredDurable DEF Safe
<1>7. QED
  BY <1>5, <1>6

\* Reads meet no hole.
LEMMA InvServed ==
    ASSUME DiskInv
    PROVE  ServedOffsetsPresent
<1>1. /\ DOMAIN file \in SUBSET Nat /\ DOMAIN file # {} /\ DOMAIN Files = DOMAIN file
      /\ EarliestOffset \in DOMAIN file /\ EarliestOffset \in Nat
      /\ hwm \in Nat /\ flushedOffset \in Nat /\ committed \in Nat
  BY SomeSegment, FirstIs DEF DiskInv, TypeOk
<1>2. Min({hwm, flushedOffset}) = IF hwm <= flushedOffset THEN hwm ELSE flushedOffset
  BY <1>1, PairExtrema
<1>3. SUFFICES ASSUME up, NEW o \in EarliestOffset .. (Min({hwm, flushedOffset}) - 1), NEW b, b = SegmentFor(o)
               PROVE  b \in markers \/ \E i \in 1 .. Len(file[b]) : file[b][i].off = o
  BY DEF ServedOffsetsPresent
<1>4. o \in Nat /\ EarliestOffset <= o /\ o < hwm /\ o < flushedOffset
  BY <1>1, <1>2, <1>3
<1>5. b \in DOMAIN file /\ Holds(file, b, o) /\ Holds(Files, b, o) /\ b \in Nat /\ b <= o
  <2>1. PICK c \in DOMAIN file : Holds(file, c, o)
    BY <1>1, <1>4, LookupFinds
  <2>2. b = c
    BY <1>1, <1>3, <2>1, LookupIs
  <2>3. QED
    BY <1>1, <2>1, <2>2 DEF Holds
<1>6. FilesOk(Files, Syncs, markers) /\ Len(Files[b]) \in Nat /\ (b \in markers \/ Dense(Files[b], b))
  BY <1>1, <1>5, SegmentEntry DEF DiskInv, FileInv, FilesOk, Ordered
<1>7. b \in markers \/ o < b + Len(Files[b])
  <2>1. CASE Replicated
    <3>1. o < committed
      BY <1>1, <1>4, <2>1 DEF DiskInv, MarkOk
    <3>2. Covers(Files, markers, committed)
      BY <2>1 DEF DiskInv, FileInv
    <3>3. QED
      BY <1>1, <1>4, <1>5, <3>1, <3>2 DEF Covers
  <2>2. CASE ~Replicated
    <3>1. pending = Idle /\ ~Truncating
      BY <2>2, Ops DEF DiskInv, PendingOk, WorkOk, Truncating
    <3>2. /\ Files = file /\ IsLast(file, currentSegment)
          /\ flushedOffset <= currentSegment + Len(file[currentSegment])
          /\ currentSegment \in Nat /\ Len(file[currentSegment]) \in Nat
      BY <1>3, <3>1, WhenIdle
    <3>3. CASE IsLast(file, b)
      <4>1. b = currentSegment
        BY <1>1, <1>5, <3>2, <3>3 DEF IsLast
      <4>2. QED
        BY <1>1, <1>4, <3>2, <4>1
    <3>4. CASE ~IsLast(file, b)
      <4>1. Whole(file, markers)
        BY <2>2, <3>2 DEF DiskInv, FileInv
      <4>2. QED
        BY <1>4, <1>5, <3>2, <3>4, <4>1 DEF Whole
    <3>5. QED
      BY <3>3, <3>4
  <2>3. QED
    BY <2>1, <2>2
<1>8. CASE b \in markers
  BY <1>8
<1>9. CASE b \notin markers
  <2>1. o < b + Len(Files[b]) /\ Dense(Files[b], b)
    BY <1>6, <1>7, <1>9
  <2>2. o - b + 1 \in 1 .. Len(Files[b])
    BY <1>4, <1>5, <1>6, <2>1
  <2>3. Files[b][o - b + 1].off = b + (o - b + 1) - 1
    BY <2>1, <2>2 DEF Dense
  <2>4. b + (o - b + 1) - 1 = o
    BY <1>4, <1>5
  <2>5. Files[b] = file[b]
    <3>1. Len(Files[b]) # 0
      BY <1>6, <2>2
    <3>2. Files[b] # <<>>
      BY <3>1
    <3>3. QED
      BY <1>5, <3>2, OutsideRange
  <2>6. QED
    BY <2>2, <2>3, <2>4, <2>5
<1>10. QED
  BY <1>8, <1>9

\* A segment's base offset is the offset of its first record, no offset is in two segments and the
\* active segment is contiguous, whatever order queue, direct writes, tickers, a failed write, a
\* range installation, a truncation and a crash have come in: every read and every restart of
\* DiskHandler accepts the files.
THEOREM AlwaysReadable == Spec => []SegmentsReadable
<1>1. DiskInv => SegmentsReadable
  BY InvReadable
<1>2. QED
  BY <1>1, DiskInvariant, PTL

\* A record acknowledged as durable is on disk past any crash, in the segment a reader looks it up
\* in, until retention removes the segment or compaction replaces it by a later record of its key.
THEOREM AckedAlwaysSurvive == Spec => []AckedSurvive
<1>1. DiskInv => AckedSurvive
  BY InvAckedSurvive
<1>2. QED
  BY <1>1, DiskInvariant, PTL

\* Compaction leaves RecoverProducerStateFromLog a durable record of every producer that is no older
\* than its last acknowledged one.
THEOREM ProducersAlwaysAnchored == Spec => []ProducerAnchored
<1>1. DiskInv => ProducerAnchored
  BY InvProducerAnchored
<1>2. QED
  BY <1>1, DiskInvariant, PTL

\* No read below the watermark and the flushed tail skips a hole silently, in the middle of a
\* truncation and after a crash there included.
THEOREM ServedAlwaysPresent == Spec => []ServedOffsetsPresent
<1>1. DiskInv => ServedOffsetsPresent
  BY InvServed
<1>2. QED
  BY <1>1, DiskInvariant, PTL

-----------------------------------------------------------------------------
(* Maintenance beside readers.                                             *)

\* A segment is a prefix of itself.
LEMMA PrefixSelf ==
    ASSUME NEW s \in Seq(Entries)
    PROVE  IsPrefix(s, s)
<1>1. Len(s) \in Nat
  OBVIOUS
<1>2. Len(s) <= Len(s)
  BY <1>1
<1>3. QED
  BY <1>2 DEF IsPrefix

\* A segment is a prefix of what is appended to it.
LEMMA PrefixAppended ==
    ASSUME NEW s \in Seq(Entries), NEW recs \in Seq(Entries)
    PROVE  IsPrefix(s, s \o recs)
<1> DEFINE u == s \o recs
<1>1. Joined(u, s, recs)
  BY JoinedIs
<1> HIDE DEF u
<1>2. Len(s) \in Nat /\ Len(recs) \in Nat
  OBVIOUS
<1>3. u \in Seq(Entries) /\ Len(u) = Len(s) + Len(recs) /\ \A i \in 1 .. Len(s) : u[i] = s[i]
  BY <1>1 DEF Joined
<1>4. Len(s) <= Len(u) /\ Len(u) \in Nat
  BY <1>2, <1>3
<1>5. /\ SubSeq(u, 1, Len(s)) \in Seq(Entries) /\ Len(SubSeq(u, 1, Len(s))) = Len(s)
      /\ \A i \in 1 .. Len(s) : SubSeq(u, 1, Len(s))[i] = u[i]
  BY <1>2, <1>3, <1>4
<1>6. /\ SubSeq(s, 1, Len(s)) \in Seq(Entries) /\ Len(SubSeq(s, 1, Len(s))) = Len(s)
      /\ \A i \in 1 .. Len(s) : SubSeq(s, 1, Len(s))[i] = s[i]
  BY <1>2
<1>7. SubSeq(s, 1, Len(s)) = SubSeq(u, 1, Len(s))
  <2> DEFINE x == SubSeq(s, 1, Len(s))
             z == SubSeq(u, 1, Len(s))
  <2> HIDE DEF x, z
  <2>1. x \in Seq(Entries) /\ z \in Seq(Entries) /\ Len(x) = Len(z) /\ \A i \in 1 .. Len(x) : x[i] = z[i]
    BY <1>3, <1>5, <1>6 DEF x, z
  <2>2. x = z
    <3>1. DOMAIN x = 1 .. Len(x) /\ DOMAIN z = 1 .. Len(z)
      BY <2>1
    <3>2. x = [i \in DOMAIN x |-> x[i]] /\ z = [i \in DOMAIN z |-> z[i]]
      BY <2>1
    <3>3. QED
      BY <2>1, <3>1, <3>2
  <2>3. QED
    BY <2>2 DEF x, z
<1>8. QED
  BY <1>4, <1>7 DEF IsPrefix, u

\* What a reader relies on in a step: its segments stay, at most longer.
Undisturbed == \A b \in reader : b \in DOMAIN file' /\ IsPrefix(file[b], file'[b])

\* A step that leaves the files alone.
LEMMA FilesAlone ==
    ASSUME DiskInv, file' = file
    PROVE  Undisturbed
<1>1. SUFFICES ASSUME NEW b \in reader PROVE b \in DOMAIN file' /\ IsPrefix(file[b], file'[b])
  BY DEF Undisturbed
<1>2. b \in DOMAIN file /\ file[b] \in Seq(Entries)
  BY DEF DiskInv, ReaderOk, TypeOk
<1>3. QED
  BY <1>2, PrefixSelf

\* A roll and a write, in any state.
LEMMA WriteUndisturbing ==
    ASSUME DiskInv, NEW roll \in BOOLEAN, NEW next, NEW recs \in Seq(Entries), NEW fsync,
           SetFiles(Written(IF roll THEN RotateSegment(View, next) ELSE View, recs, fsync))
    PROVE  Undisturbed
<1> DEFINE u == IF roll THEN RotateSegment(View, next) ELSE View
<1>1. file \in [DOMAIN file -> Seq(Entries)]
  BY DEF DiskInv, TypeOk
<1>2. \A b \in DOMAIN file : b \in DOMAIN u.file /\ u.file[b] = file[b]
  BY <1>1 DEF RotateSegment, View
<1>3. file' = [u.file EXCEPT ![u.current] = u.file[u.current] \o recs]
  BY DEF SetFiles, Written
<1> HIDE DEF u
<1>4. SUFFICES ASSUME NEW b \in reader PROVE b \in DOMAIN file' /\ IsPrefix(file[b], file'[b])
  BY DEF Undisturbed
<1>5. b \in DOMAIN file /\ file[b] \in Seq(Entries)
  BY <1>1 DEF DiskInv, ReaderOk
<1>6. b \in DOMAIN u.file /\ u.file[b] = file[b]
  BY <1>2, <1>5
<1>7. b \in DOMAIN file' /\ (file'[b] = file[b] \/ file'[b] = file[b] \o recs)
  BY <1>3, <1>6
<1>8. QED
  BY <1>5, <1>7, PrefixSelf, PrefixAppended

\* A roll.
LEMMA RollUndisturbing ==
    ASSUME DiskInv, NEW next, SetFiles(RotateSegment(View, next))
    PROVE  Undisturbed
<1>1. file \in [DOMAIN file -> Seq(Entries)]
  BY DEF DiskInv, TypeOk
<1>2. \A b \in DOMAIN file : b \in DOMAIN file' /\ file'[b] = file[b]
  BY <1>1 DEF RotateSegment, View, SetFiles
<1>3. SUFFICES ASSUME NEW b \in reader PROVE b \in DOMAIN file' /\ IsPrefix(file[b], file'[b])
  BY DEF Undisturbed
<1>4. b \in DOMAIN file /\ file[b] \in Seq(Entries)
  BY <1>1 DEF DiskInv, ReaderOk
<1>5. QED
  BY <1>2, <1>4, PrefixSelf

\* A batch.
LEMMA BatchUndisturbing ==
    ASSUME DiskInv, NEW recs \in Seq(Entries), NEW fsync, WriteBatch(recs, fsync)
    PROVE  Undisturbed
<1>1. PICK roll \in Rolls(View, Len(recs)) :
          SetFiles(Written(IF roll THEN RotateSegment(View, recs[1].off) ELSE View, recs, fsync))
  BY DEF WriteBatch
<1>2. roll \in BOOLEAN
  BY DEF Rolls
<1>3. QED
  BY <1>1, <1>2, WriteUndisturbing

\* The steps that write.
LEMMA WritesUndisturbing ==
    ASSUME DiskInv, NEW k \in Kinds, NEW ks \in Seq(Kinds),
           EnqueueSync(k) \/ WriteFails(k) \/ EnqueueBatchLeader(ks) \/ FlushLoopTake \/ FlushLoopLinger \/ FlushDisk
    PROVE  Undisturbed
<1>1. absoluteOffset \in Nat /\ leo \in Nat /\ batch \in Seq(Entries) /\ writeCh \in Seq(Entries)
  BY DEF DiskInv, TypeOk
<1>2. <<Record(absoluteOffset, k)>> \in Seq(Entries)
  BY <1>1, OneRecord
<1>3. CASE EnqueueSync(k) \/ WriteFails(k)
  <2>1. \E fsync, next : \E roll \in Rolls(View, 1) :
           SetFiles(Written(IF roll THEN RotateSegment(View, next) ELSE View, <<Record(absoluteOffset, k)>>, fsync))
    BY <1>3 DEF EnqueueSync, WriteFails
  <2>2. PICK fsync, next : \E roll \in Rolls(View, 1) :
           SetFiles(Written(IF roll THEN RotateSegment(View, next) ELSE View, <<Record(absoluteOffset, k)>>, fsync))
    BY <2>1
  <2>3. PICK roll \in Rolls(View, 1) :
           SetFiles(Written(IF roll THEN RotateSegment(View, next) ELSE View, <<Record(absoluteOffset, k)>>, fsync))
    BY <2>2
  <2>4. roll \in BOOLEAN
    BY DEF Rolls
  <2>5. QED
    BY <1>2, <2>3, <2>4, WriteUndisturbing
<1>4. CASE EnqueueBatchLeader(ks)
  <2> DEFINE recs == [i \in 1 .. Len(ks) |-> Record(leo + i - 1, ks[i])]
  <2>1. WriteBatch(recs, TRUE)
    BY <1>4 DEF EnqueueBatchLeader
  <2>2. Len(ks) \in Nat
    OBVIOUS
  <2>3. \A i \in 1 .. Len(ks) : leo + i - 1 \in Nat /\ ks[i] \in Kinds
    BY <1>1, <2>2
  <2>4. \A i \in 1 .. Len(ks) : Record(leo + i - 1, ks[i]) \in Entries
    BY <2>3, RecordEntry
  <2>5. recs \in Seq(Entries)
    BY <2>2, <2>4
  <2> HIDE DEF recs
  <2>6. QED
    BY <2>1, <2>5, BatchUndisturbing
<1>5. CASE FlushLoopTake
  <2> DEFINE b == Append(batch, Head(writeCh))
  <2>1. b \in Seq(Entries)
    BY <1>1, <1>5 DEF FlushLoopTake
  <2>2. file' = file \/ WriteBatch(b, FALSE)
    BY <1>5 DEF FlushLoopTake, FlushBatch
  <2> HIDE DEF b
  <2>3. QED
    BY <2>1, <2>2, FilesAlone, BatchUndisturbing
<1>6. CASE FlushLoopLinger
  <2>1. file' = file \/ WriteBatch(batch, FALSE)
    BY <1>6 DEF FlushLoopLinger, FlushBatch
  <2>2. QED
    BY <1>1, <2>1, FilesAlone, BatchUndisturbing
<1>7. CASE FlushDisk
  <2>1. batch \o writeCh \in Seq(Entries)
    BY <1>1
  <2>2. file' = file \/ WriteBatch(batch \o writeCh, TRUE)
    BY <1>7 DEF FlushDisk
  <2>3. QED
    BY <2>1, <2>2, FilesAlone, BatchUndisturbing
<1>8. QED
  BY <1>3, <1>4, <1>5, <1>6, <1>7

\* No step but a truncation or a range installation, which take other locks, disturbs a reader.
LEMMA ReaderStep ==
    ASSUME DiskInv, Next, reader # {}, reader' = reader, work = Idle
    PROVE  Undisturbed
<1> USE DEF fileVars
<1>1. work.op = "idle"
  BY Ops
<1>2. up
  BY DEF DiskInv, WorkOk
<1>3. "idle" # "range" /\ "idle" # "truncate"
  OBVIOUS
<1>4. ASSUME NEW k \in Kinds, Enqueue(k) \/ EnqueueSync(k) \/ WriteFails(k) PROVE Undisturbed
  <2>1. CASE Enqueue(k)
    BY <2>1, FilesAlone DEF Enqueue
  <2>2. CASE EnqueueSync(k) \/ WriteFails(k)
    <3>1. <<k>> \in Seq(Kinds)
      OBVIOUS
    <3>2. QED
      BY <2>2, <3>1, WritesUndisturbing
  <2>3. QED
    BY <1>4, <2>1, <2>2
<1>5. ASSUME NEW k \in Kinds, EnqueueBatchLeader(<<k>>) PROVE Undisturbed
  <2>1. <<k>> \in Seq(Kinds)
    OBVIOUS
  <2>2. QED
    BY <1>5, <2>1, WritesUndisturbing
<1>6. ASSUME NEW k \in Kinds, NEW l \in Kinds, EnqueueBatchLeader(<<k, l>>) PROVE Undisturbed
  <2>1. <<k, l>> \in Seq(Kinds)
    OBVIOUS
  <2>2. QED
    BY <1>6, <2>1, WritesUndisturbing
<1>7. ASSUME NEW h \in 1 .. MaxOffset, ApplyReplicaHWM(h) PROVE Undisturbed
  BY <1>7, FilesAlone DEF ApplyReplicaHWM
<1>8. ASSUME FlushLoopTake \/ FlushLoopLinger \/ FlushDisk PROVE Undisturbed
  <2>1. PICK k \in Kinds : TRUE
    BY DiskConstants
  <2>2. <<k>> \in Seq(Kinds)
    OBVIOUS
  <2>3. QED
    BY <1>8, <2>1, <2>2, WritesUndisturbing
<1>9. ASSUME SyncLoop \/ PersistHWMCheckpoint \/ ReadEnd \/ EnforceCompaction \/ CompactionDeferred PROVE Undisturbed
  BY <1>9, FilesAlone DEF SyncLoop, PersistHWMCheckpoint, ReadEnd, EnforceCompaction, CompactionDeferred
<1>10. ASSUME SegmentTicker PROVE Undisturbed
  BY <1>10, RollUndisturbing DEF SegmentTicker
<1>11. ASSUME NEW o \in 0 .. MaxOffset, ReadBegin(o) PROVE Undisturbed
  BY <1>11, FilesAlone DEF ReadBegin
<1>12. ASSUME NEW n \in 0 .. MaxOffset, EnforceRetention(n) PROVE FALSE
  BY <1>12 DEF EnforceRetention, NoReaders
<1>13. ASSUME CompactClosedSegment PROVE FALSE
  BY <1>13 DEF CompactClosedSegment, NoReaders
<1>14. ASSUME NEW end \in 1 .. MaxOffset, NEW keep \in SUBSET (0 .. MaxOffset), StageCompactedRange(end, keep) PROVE FALSE
  BY <1>14 DEF StageCompactedRange
<1>15. ASSUME InstallCompactedRange \/ CompleteCompactedRange \/ TruncateRemove \/ TruncateFinish PROVE FALSE
  BY <1>1, <1>3, <1>15 DEF InstallCompactedRange, CompleteCompactedRange, TruncateRemove, TruncateFinish
<1>16. ASSUME ReconcileAligned \/ TruncateCheck \/ TruncateRefused \/ TruncateBegin PROVE Undisturbed
  BY <1>16, FilesAlone DEF ReconcileAligned, TruncateCheck, TruncateRefused, TruncateBegin
<1>17. ASSUME Close \/ Crash \/ NewDiskHandler PROVE FALSE
  BY <1>2, <1>17 DEF Close, Crash, NewDiskHandler
<1>18. QED
  BY <1>4, <1>5, <1>6, <1>7, <1>8, <1>9, <1>10, <1>11, <1>12, <1>13, <1>14, <1>15, <1>16, <1>17 DEF Next

\* Retention and compaction never replace or remove the segment a read is using, although a pass
\* takes its locks anew for every segment and OpenForRead may come in between.
THEOREM ReadersUndisturbed == Spec => ReadersHoldOffMaintenance
<1>1. DiskInv /\ [Next]_vars =>
        [ (reader # {} /\ reader' = reader /\ work = Idle) =>
              \A b \in reader : b \in DOMAIN file' /\ IsPrefix(file[b], file'[b]) ]_vars
  BY ReaderStep DEF Undisturbed
<1>2. QED
  BY <1>1, DiskInvariant, PTL DEF Spec, ReadersHoldOffMaintenance
=============================================================================
