----------------------------- MODULE BrokerProofs -----------------------------
(***************************************************************************)
(* Theorems about the standalone broker with its idempotent producer and   *)
(* its event streams, for every number of partitions, writers and events,  *)
(* every batch and buffer size and every combination of faults.            *)
(***************************************************************************)
EXTENDS Broker, FiniteSetTheorems, WellFoundedInduction, TLAPS

-----------------------------------------------------------------------------
(* Induction and recursive functions.                                      *)

\* A set of naturals that is not empty has a least element.
LEMMA LeastNat ==
    ASSUME NEW T \in SUBSET Nat, T # {}
    PROVE  \E x \in T : \A y \in T : x <= y
<1>1. PICK x \in T : \A y \in T : ~(<<y, x>> \in OpToRel(<, Nat))
  BY NatLessThanWellFounded, WFMin
<1>2. \A y \in T : ~(y < x)
  BY <1>1 DEF OpToRel
<1>3. QED
  BY <1>2

\* Induction up to a bound, over the set of the numbers a claim holds for.
LEMMA UpTo ==
    ASSUME NEW k \in Nat, NEW S, 0 \in S, \A n \in 0 .. k - 1 : n \in S => n + 1 \in S
    PROVE  0 .. k \subseteq S
<1> DEFINE T == {n \in Nat : n <= k /\ n \notin S}
<1>1. SUFFICES ASSUME T # {} PROVE FALSE
  OBVIOUS
<1>2. PICK n \in T : \A m \in T : n <= m
  BY <1>1, LeastNat
<1>3. n # 0 /\ n - 1 \in 0 .. k - 1 /\ n - 1 \in S
  BY <1>2
<1>4. QED
  BY <1>2, <1>3

\* EnqueueAll takes the messages in turn.
LEMMA EnqueueRun ==
    ASSUME NEW p, NEW msgs, Len(msgs) \in Nat
    PROVE  \E st : /\ st[0] = [recs |-> log[p], known |-> producers[p], bad |-> FALSE]
                   /\ \A n \in 1 .. Len(msgs) : st[n] = Enqueue(st[n - 1], msgs[n])
                   /\ EnqueueAll(p, msgs) = st[Len(msgs)]
<1> DEFINE a == [recs |-> log[p], known |-> producers[p], bad |-> FALSE]
           Upto(k, f) == f = [n \in 0 .. k |-> IF n = 0 THEN a ELSE Enqueue(f[n - 1], msgs[n])]
           T == {k \in Nat : ~\E f : Upto(k, f)}
<1> HIDE DEF a
<1>1. \E f : Upto(0, f)
  <2>1. Upto(0, [n \in 0 .. 0 |-> a])
    OBVIOUS
  <2>2. QED
    BY <2>1
<1>2. ASSUME NEW k \in Nat, NEW f, Upto(k, f) PROVE \E g : Upto(k + 1, g)
  <2> DEFINE g == [n \in 0 .. k + 1 |-> IF n = k + 1 THEN Enqueue(f[k], msgs[k + 1]) ELSE f[n]]
  <2>1. \A n \in 0 .. k + 1 : g[n] = IF n = 0 THEN a ELSE Enqueue(g[n - 1], msgs[n])
    BY <1>2
  <2>2. Upto(k + 1, g)
    BY <2>1
  <2>3. QED
    BY <2>2
<1> HIDE DEF Upto
<1>3. T = {}
  <2>1. SUFFICES ASSUME T # {} PROVE FALSE
    OBVIOUS
  <2>2. PICK k \in T : \A j \in T : k <= j
    BY <2>1, LeastNat
  <2>3. k # 0
    BY <1>1, <2>2
  <2>4. k - 1 \in Nat /\ k - 1 \notin T
    BY <2>2, <2>3
  <2>5. \E g : Upto((k - 1) + 1, g)
    BY <1>2, <2>4
  <2>6. QED
    BY <2>2, <2>4, <2>5
<1>4. \E f : Upto(Len(msgs), f)
  BY <1>3
<1> DEFINE st == CHOOSE f : Upto(Len(msgs), f)
<1>5. Upto(Len(msgs), st)
  BY <1>4
<1>6. EnqueueAll(p, msgs) = st[Len(msgs)]
  BY DEF EnqueueAll, Upto, a
<1>7. st[0] = a /\ \A n \in 1 .. Len(msgs) : st[n] = Enqueue(st[n - 1], msgs[n])
  <2> HIDE DEF st
  <2>1. \A n \in 0 .. Len(msgs) : st[n] = IF n = 0 THEN a ELSE Enqueue(st[n - 1], msgs[n])
    BY <1>5 DEF Upto
  <2>2. QED
    BY <2>1
<1>8. QED
  BY <1>6, <1>7 DEF a

\* RecoverProducers takes the records in turn.
LEMMA RecoverRun ==
    ASSUME NEW recs, Len(recs) \in Nat
    PROVE  \E st : /\ st[0] = << >>
                   /\ \A n \in 1 .. Len(recs) : st[n] = Known(st[n - 1], recs[n])
                   /\ RecoverProducers(recs) = st[Len(recs)]
<1> DEFINE a == << >>
           Upto(k, f) == f = [n \in 0 .. k |-> IF n = 0 THEN a ELSE Known(f[n - 1], recs[n])]
           T == {k \in Nat : ~\E f : Upto(k, f)}
<1> HIDE DEF a
<1>1. \E f : Upto(0, f)
  <2>1. Upto(0, [n \in 0 .. 0 |-> a])
    OBVIOUS
  <2>2. QED
    BY <2>1
<1>2. ASSUME NEW k \in Nat, NEW f, Upto(k, f) PROVE \E g : Upto(k + 1, g)
  <2> DEFINE g == [n \in 0 .. k + 1 |-> IF n = k + 1 THEN Known(f[k], recs[k + 1]) ELSE f[n]]
  <2>1. \A n \in 0 .. k + 1 : g[n] = IF n = 0 THEN a ELSE Known(g[n - 1], recs[n])
    BY <1>2
  <2>2. Upto(k + 1, g)
    BY <2>1
  <2>3. QED
    BY <2>2
<1> HIDE DEF Upto
<1>3. T = {}
  <2>1. SUFFICES ASSUME T # {} PROVE FALSE
    OBVIOUS
  <2>2. PICK k \in T : \A j \in T : k <= j
    BY <2>1, LeastNat
  <2>3. k # 0
    BY <1>1, <2>2
  <2>4. k - 1 \in Nat /\ k - 1 \notin T
    BY <2>2, <2>3
  <2>5. \E g : Upto((k - 1) + 1, g)
    BY <1>2, <2>4
  <2>6. QED
    BY <2>2, <2>4, <2>5
<1>4. \E f : Upto(Len(recs), f)
  BY <1>3
<1> DEFINE st == CHOOSE f : Upto(Len(recs), f)
<1>5. Upto(Len(recs), st)
  BY <1>4
<1>6. RecoverProducers(recs) = st[Len(recs)]
  BY DEF RecoverProducers, Upto, a
<1>7. st[0] = a /\ \A n \in 1 .. Len(recs) : st[n] = Known(st[n - 1], recs[n])
  <2> HIDE DEF st
  <2>1. \A n \in 0 .. Len(recs) : st[n] = IF n = 0 THEN a ELSE Known(st[n - 1], recs[n])
    BY <1>5 DEF Upto
  <2>2. QED
    BY <2>1
<1>8. QED
  BY <1>6, <1>7 DEF a

\* Run takes the steps in turn.
LEMMA StepRun ==
    ASSUME NEW s, NEW steps, Len(steps) \in Nat
    PROVE  \E st : /\ st[0] = s
                   /\ \A n \in 1 .. Len(steps) : st[n] = Step(st[n - 1], steps[n])
                   /\ Run(s, steps) = st[Len(steps)]
<1> DEFINE a == s
           Upto(k, f) == f = [n \in 0 .. k |-> IF n = 0 THEN a ELSE Step(f[n - 1], steps[n])]
           T == {k \in Nat : ~\E f : Upto(k, f)}
<1> HIDE DEF a
<1>1. \E f : Upto(0, f)
  <2>1. Upto(0, [n \in 0 .. 0 |-> a])
    OBVIOUS
  <2>2. QED
    BY <2>1
<1>2. ASSUME NEW k \in Nat, NEW f, Upto(k, f) PROVE \E g : Upto(k + 1, g)
  <2> DEFINE g == [n \in 0 .. k + 1 |-> IF n = k + 1 THEN Step(f[k], steps[k + 1]) ELSE f[n]]
  <2>1. \A n \in 0 .. k + 1 : g[n] = IF n = 0 THEN a ELSE Step(g[n - 1], steps[n])
    BY <1>2
  <2>2. Upto(k + 1, g)
    BY <2>1
  <2>3. QED
    BY <2>2
<1> HIDE DEF Upto
<1>3. T = {}
  <2>1. SUFFICES ASSUME T # {} PROVE FALSE
    OBVIOUS
  <2>2. PICK k \in T : \A j \in T : k <= j
    BY <2>1, LeastNat
  <2>3. k # 0
    BY <1>1, <2>2
  <2>4. k - 1 \in Nat /\ k - 1 \notin T
    BY <2>2, <2>3
  <2>5. \E g : Upto((k - 1) + 1, g)
    BY <1>2, <2>4
  <2>6. QED
    BY <2>2, <2>4, <2>5
<1>4. \E f : Upto(Len(steps), f)
  BY <1>3
<1> DEFINE st == CHOOSE f : Upto(Len(steps), f)
<1>5. Upto(Len(steps), st)
  BY <1>4
<1>6. Run(s, steps) = st[Len(steps)]
  BY DEF Run, Upto, a
<1>7. st[0] = a /\ \A n \in 1 .. Len(steps) : st[n] = Step(st[n - 1], steps[n])
  <2> HIDE DEF st
  <2>1. \A n \in 0 .. Len(steps) : st[n] = IF n = 0 THEN a ELSE Step(st[n - 1], steps[n])
    BY <1>5 DEF Upto
  <2>2. QED
    BY <2>1
<1>8. QED
  BY <1>6, <1>7 DEF a

-----------------------------------------------------------------------------
(* The producer's lanes.  A lane hands out consecutive sequence numbers, so *)
(* that the batch in flight and the buffer behind it are the numbers from   *)
(* the first that is neither acknowledged nor dropped to the last handed    *)
(* out.                                                                     *)

LaneRecs ==
    [buf : Seq(Nat), batch : Seq(Nat), next : Nat, tries : Nat,
     at : {"idle", "write", "broker", "ack", "refused"},
     conn : BOOLEAN, behind : BOOLEAN, drain : BOOLEAN, upto : Nat, drained : Nat, acked : SUBSET Nat,
     dropped : SUBSET Nat]

\* What is done with, and what has been sent or is about to be.
Disposed(l) == l.acked \cup l.dropped
Base(l) == l.next - Len(l.batch) - Len(l.buf)
Sent(l) == l.next - Len(l.buf)

Consistent(b, buf, batch, next, acked, drained, upto) ==
    /\ b \in Nat /\ next = b + Len(batch) + Len(buf) /\ acked = 1 .. b
    /\ \A i \in 1 .. Len(batch) : batch[i] = b + i
    /\ \A i \in 1 .. Len(buf) : buf[i] = b + Len(batch) + i
    /\ drained <= b /\ upto <= next

LaneInv(l) ==
    /\ l \in LaneRecs
    /\ Consistent(Base(l), l.buf, l.batch, l.next, Disposed(l), l.drained, l.upto)
    /\ l.at = "idle" => l.batch = << >>

\* Sorting gives consecutive numbers back in ascending order.
LEMMA Consecutive ==
    ASSUME NEW n \in Nat, NEW b \in Nat, NEW t \in [1 .. n -> b + 1 .. b + n],
           Range(t) = b + 1 .. b + n, \A i, j \in 1 .. n : i < j => t[i] < t[j]
    PROVE  t = [i \in 1 .. n |-> b + i]
<1> DEFINE T == {i \in Nat : i \in 1 .. n /\ t[i] # b + i}
<1>1. SUFFICES ASSUME T # {} PROVE FALSE
  <2>1. SUFFICES ASSUME T = {} PROVE \A i \in 1 .. n : t[i] = b + i
    BY <1>1
  <2>2. QED
    BY <2>1
<1>2. PICK i \in T : \A j \in T : i <= j
  BY <1>1, LeastNat
<1>3. i \in 1 .. n /\ t[i] # b + i /\ \A j \in 1 .. i - 1 : t[j] = b + j
  BY <1>2
<1>4. PICK k \in 1 .. n : t[k] = b + i
  <2>1. b + i \in Range(t)
    BY <1>3
  <2>2. QED
    BY <2>1 DEF Range
<1>5. k > i
  BY <1>3, <1>4
<1>6. t[i] < b + i /\ t[i] \in b + 1 .. b + n
  BY <1>3, <1>4, <1>5
<1>7. t[i] - b \in 1 .. i - 1 /\ t[t[i] - b] = t[i]
  BY <1>3, <1>6
<1>8. QED
  BY <1>3, <1>7

\* Sorting a permutation of consecutive numbers.
LEMMA SortsConsecutive ==
    ASSUME NEW s, NEW n \in Nat, NEW b \in Nat, DOMAIN s = 1 .. n, Range(s) = b + 1 .. b + n
    PROVE  InOrder(s) = [i \in 1 .. n |-> b + i]
<1> DEFINE t == [i \in 1 .. n |-> b + i]
           Ok(u) == Range(u) = b + 1 .. b + n /\ \A i, j \in 1 .. n : i < j => u[i] < u[j]
<1>1. Range(t) = b + 1 .. b + n
  <2>1. \A i \in DOMAIN t : t[i] \in b + 1 .. b + n
    OBVIOUS
  <2>2. ASSUME NEW x \in b + 1 .. b + n PROVE \E i \in DOMAIN t : t[i] = x
    <3>1. x - b \in DOMAIN t /\ t[x - b] = x
      OBVIOUS
    <3>2. QED
      BY <3>1
  <2>3. QED
    BY <2>1, <2>2 DEF Range
<1>2. t \in [1 .. n -> b + 1 .. b + n] /\ Ok(t)
  BY <1>1
<1>3. InOrder(s) = CHOOSE u \in [1 .. n -> b + 1 .. b + n] : Ok(u)
  BY DEF InOrder
<1> DEFINE v == CHOOSE u \in [1 .. n -> b + 1 .. b + n] : Ok(u)
<1>4. v \in [1 .. n -> b + 1 .. b + n] /\ Ok(v)
  <2> HIDE DEF Ok, t
  <2>1. QED
    BY <1>2
<1> HIDE DEF v
<1>5. v = t
  BY <1>4, Consecutive
<1>6. QED
  BY <1>3, <1>5 DEF v

\* handleSendFailure puts the batch back in front of the buffer.
LEMMA BackInOrder ==
    ASSUME NEW buf \in Seq(Nat), NEW batch \in Seq(Nat), NEW b \in Nat,
           \A i \in 1 .. Len(batch) : batch[i] = b + i,
           \A i \in 1 .. Len(buf) : buf[i] = b + Len(batch) + i
    PROVE  InOrder(buf \o batch) = [i \in 1 .. Len(batch) + Len(buf) |-> b + i]
<1> DEFINE s == buf \o batch
<1>1. PICK k \in Nat, m \in Nat : k = Len(buf) /\ m = Len(batch)
  OBVIOUS
<1>2. DOMAIN s = 1 .. k + m
  BY <1>1
<1>3. \A i \in 1 .. k : s[i] = b + m + i
  BY <1>1
<1>4. ASSUME NEW i \in 1 .. m PROVE s[k + i] = b + i
  <2>1. k + i \in 1 .. Len(buf) + Len(batch) /\ ~(k + i <= Len(buf)) /\ (k + i) - Len(buf) = i
    BY <1>1
  <2>2. s[k + i] = batch[(k + i) - Len(buf)]
    BY <2>1
  <2>3. QED
    BY <1>1, <2>1, <2>2
<1> HIDE DEF s
<1>5. \A i \in 1 .. k + m : s[i] \in b + 1 .. b + (m + k)
  <2>1. SUFFICES ASSUME NEW i \in 1 .. k + m PROVE s[i] \in b + 1 .. b + (m + k)
    OBVIOUS
  <2>2. CASE i <= k
    <3>1. s[i] = b + m + i
      BY <1>3, <2>2
    <3>2. QED
      BY <2>2, <3>1
  <2>3. CASE ~(i <= k)
    <3>1. i - k \in 1 .. m /\ k + (i - k) = i
      BY <2>3
    <3>2. s[k + (i - k)] = b + (i - k)
      BY <1>4, <3>1
    <3>3. QED
      BY <3>1, <3>2
  <2>4. QED
    BY <2>2, <2>3
<1>6. ASSUME NEW x \in b + 1 .. b + (m + k) PROVE \E i \in 1 .. k + m : s[i] = x
  <2>1. CASE x <= b + m
    <3>1. x - b \in 1 .. m /\ k + (x - b) \in 1 .. k + m
      BY <2>1
    <3>2. s[k + (x - b)] = b + (x - b)
      BY <1>4, <3>1
    <3>3. b + (x - b) = x
      OBVIOUS
    <3>4. QED
      BY <3>1, <3>2, <3>3
  <2>2. CASE ~(x <= b + m)
    <3>1. x - b - m \in 1 .. k /\ x - b - m \in 1 .. k + m
      BY <2>2
    <3>2. s[x - b - m] = x
      BY <1>3, <3>1
    <3>3. QED
      BY <3>1, <3>2
  <2>3. QED
    BY <2>1, <2>2
<1>7. Range(s) = b + 1 .. b + (m + k)
  BY <1>2, <1>5, <1>6 DEF Range
<1>8. m + k \in Nat /\ 1 .. k + m = 1 .. m + k
  OBVIOUS
<1>9. InOrder(s) = [i \in 1 .. m + k |-> b + i]
  BY <1>2, <1>7, <1>8, SortsConsecutive
<1>10. QED
  BY <1>1, <1>9 DEF s

\* Send appends the next number.
LEMMA OneMore ==
    ASSUME NEW b, NEW buf \in Seq(Nat), NEW batch \in Seq(Nat), NEW next \in Nat, NEW acked,
           NEW drained \in Nat, NEW upto \in Nat, Consistent(b, buf, batch, next, acked, drained, upto)
    PROVE  /\ Append(buf, next + 1) \in Seq(Nat) /\ Len(Append(buf, next + 1)) = Len(buf) + 1
           /\ Consistent(b, Append(buf, next + 1), batch, next + 1, acked, drained, upto)
<1> DEFINE s == Append(buf, next + 1)
<1>1. PICK k \in Nat, m \in Nat : k = Len(buf) /\ m = Len(batch)
  OBVIOUS
<1>2. s \in Seq(Nat) /\ Len(s) = k + 1
  BY <1>1
<1>3. (\A i \in 1 .. k : s[i] = buf[i]) /\ s[k + 1] = next + 1
  BY <1>1
<1> HIDE DEF s
<1>4. b \in Nat /\ next = b + m + k /\ \A i \in 1 .. k : buf[i] = b + m + i
  BY <1>1 DEF Consistent
<1>5. ASSUME NEW i \in 1 .. k + 1 PROVE s[i] = b + m + i
  <2>1. CASE i = k + 1
    BY <1>3, <1>4, <2>1
  <2>2. CASE i # k + 1
    <3>1. i \in 1 .. k
      BY <2>2
    <3>2. QED
      BY <1>3, <1>4, <3>1
  <2>3. QED
    BY <2>1, <2>2
<1>6. QED
  BY <1>1, <1>2, <1>4, <1>5 DEF Consistent, s

\* extract and extractAny take the batch from the front of the buffer.
LEMMA FrontTaken ==
    ASSUME NEW b, NEW buf \in Seq(Nat), NEW batch \in Seq(Nat), NEW next \in Nat, NEW acked,
           NEW drained \in Nat, NEW upto \in Nat, Consistent(b, buf, batch, next, acked, drained, upto),
           batch = << >>, NEW k \in 0 .. Len(buf)
    PROVE  LET front == SubSeq(buf, 1, k)
               back  == SubSeq(buf, k + 1, Len(buf))
           IN  /\ front \in Seq(Nat) /\ back \in Seq(Nat) /\ Len(front) = k /\ Len(back) = Len(buf) - k
               /\ Consistent(b, back, front, next, acked, drained, upto)
<1> DEFINE front == SubSeq(buf, 1, k)
           back == SubSeq(buf, k + 1, Len(buf))
<1>1. PICK n \in Nat : n = Len(buf)
  OBVIOUS
<1>2. front \in Seq(Nat) /\ back \in Seq(Nat) /\ Len(front) = k /\ Len(back) = n - k
  BY <1>1
<1>3. \A i \in 1 .. k : front[i] = buf[i]
  BY <1>1
<1>4. \A i \in 1 .. n - k : back[i] = buf[k + i]
  BY <1>1
<1> HIDE DEF front, back
<1>5. b \in Nat /\ next = b + n /\ \A i \in 1 .. n : buf[i] = b + i
  BY <1>1 DEF Consistent
<1>6. \A i \in 1 .. k : front[i] = b + i
  BY <1>1, <1>3, <1>5
<1>7. \A i \in 1 .. n - k : back[i] = b + k + i
  BY <1>1, <1>4, <1>5
<1>8. next = b + Len(front) + Len(back)
  BY <1>1, <1>2, <1>5
<1>9. Consistent(b, back, front, next, acked, drained, upto)
  BY <1>2, <1>6, <1>7, <1>8 DEF Consistent
<1>10. QED
  BY <1>1, <1>2, <1>9 DEF front, back

\* handleSendFailure keeps what is to be sent.
LEMMA PutBack ==
    ASSUME NEW b, NEW buf \in Seq(Nat), NEW batch \in Seq(Nat), NEW next \in Nat, NEW acked,
           NEW drained \in Nat, NEW upto \in Nat, Consistent(b, buf, batch, next, acked, drained, upto)
    PROVE  /\ InOrder(buf \o batch) \in Seq(Nat)
           /\ Len(InOrder(buf \o batch)) = Len(buf) + Len(batch)
           /\ Consistent(b, InOrder(buf \o batch), << >>, next, acked, drained, upto)
<1> DEFINE s == InOrder(buf \o batch)
<1>1. PICK k \in Nat, m \in Nat : k = Len(buf) /\ m = Len(batch)
  OBVIOUS
<1>2. b \in Nat /\ next = b + m + k
  BY <1>1 DEF Consistent
<1>3. s = [i \in 1 .. m + k |-> b + i]
  BY <1>1, BackInOrder DEF Consistent
<1> HIDE DEF s
<1>4. s \in Seq(Nat) /\ Len(s) = m + k
  BY <1>2, <1>3
<1>5. \A i \in 1 .. m + k : s[i] = b + i
  BY <1>3
<1>6. << >> \in Seq(Nat) /\ Len(<< >>) = 0 /\ next = b + 0 + Len(s)
  BY <1>2, <1>4
<1>7. \A i \in 1 .. Len(s) : s[i] = b + 0 + i
  BY <1>2, <1>4, <1>5
<1>8. Consistent(b, s, << >>, next, acked, drained, upto)
  BY <1>6, <1>7 DEF Consistent
<1>9. QED
  BY <1>1, <1>4, <1>8 DEF s

\* An acknowledged batch is what comes next.
LEMMA BatchAcked ==
    ASSUME NEW b, NEW buf \in Seq(Nat), NEW batch \in Seq(Nat), NEW next \in Nat, NEW acked,
           NEW drained \in Nat, NEW upto \in Nat, Consistent(b, buf, batch, next, acked, drained, upto)
    PROVE  Consistent(b + Len(batch), buf, << >>, next, acked \cup Range(batch), drained, upto)
<1>1. PICK k \in Nat, m \in Nat : k = Len(buf) /\ m = Len(batch)
  OBVIOUS
<1>2. /\ b \in Nat /\ next = b + m + k /\ acked = 1 .. b /\ drained <= b /\ upto <= next
      /\ \A i \in 1 .. m : batch[i] = b + i
      /\ \A i \in 1 .. k : buf[i] = b + m + i
  BY <1>1 DEF Consistent
<1>3. Range(batch) = b + 1 .. b + m
  <2>1. DOMAIN batch = 1 .. m
    BY <1>1
  <2>2. \A i \in 1 .. m : batch[i] \in b + 1 .. b + m
    BY <1>2
  <2>3. ASSUME NEW x \in b + 1 .. b + m PROVE \E i \in 1 .. m : batch[i] = x
    <3>1. x - b \in 1 .. m /\ b + (x - b) = x
      BY <1>2
    <3>2. QED
      BY <1>2, <3>1
  <2>4. QED
    BY <2>1, <2>2, <2>3 DEF Range
<1>4. acked \cup Range(batch) = 1 .. b + m
  BY <1>2, <1>3
<1>5. Len(<< >>) = 0 /\ b + m \in Nat /\ next = (b + m) + 0 + k /\ drained <= b + m
  BY <1>2
<1>6. \A i \in 1 .. k : buf[i] = (b + m) + 0 + i
  BY <1>2
<1>7. QED
  BY <1>1, <1>2, <1>4, <1>5, <1>6 DEF Consistent

\* A lane stays consistent, acknowledges nothing but the batch whose answer it has, comes to no
\* answer by itself, and drops only what was refused, by a broker that lacks a partition.
Lacking == up = "up" /\ \E p \in Partitions : ~HasPartition(p)
LaneKept(l, m) ==
    /\ LaneInv(m)
    /\ m.acked = l.acked \/ (l.at = "ack" /\ l.conn /\ m.acked = l.acked \cup Range(l.batch))
    /\ (m.at = "ack" /\ m.conn) => (l.at = "ack" /\ l.conn /\ m.batch = l.batch)
    /\ m.dropped = l.dropped \/ l.at = "refused"
    /\ m.at = "refused" => l.at = "refused" \/ Lacking

\* The numbers of a lane, without the record.
LEMMA LaneFacts ==
    ASSUME NEW l, LaneInv(l)
    PROVE  /\ l.buf \in Seq(Nat) /\ l.batch \in Seq(Nat) /\ l.next \in Nat /\ l.tries \in Nat
           /\ l.conn \in BOOLEAN /\ l.behind \in BOOLEAN /\ l.drain \in BOOLEAN /\ l.upto \in Nat
           /\ l.drained \in Nat /\ l.at \in {"idle", "write", "broker", "ack", "refused"}
           /\ Base(l) \in Nat /\ Len(l.buf) \in Nat /\ Len(l.batch) \in Nat
           /\ Sent(l) = Base(l) + Len(l.batch) /\ l.acked \in SUBSET Nat /\ l.dropped \in SUBSET Nat
<1>1. /\ l.buf \in Seq(Nat) /\ l.batch \in Seq(Nat) /\ l.next \in Nat /\ l.tries \in Nat
      /\ l.conn \in BOOLEAN /\ l.behind \in BOOLEAN /\ l.drain \in BOOLEAN /\ l.upto \in Nat
      /\ l.drained \in Nat /\ l.at \in {"idle", "write", "broker", "ack", "refused"}
      /\ l.acked \in SUBSET Nat /\ l.dropped \in SUBSET Nat
  BY DEF LaneInv, LaneRecs
<1>2. Base(l) \in Nat
  BY DEF LaneInv, Consistent
<1>3. PICK k \in Nat, m \in Nat : k = Len(l.buf) /\ m = Len(l.batch)
  BY <1>1
<1>4. Sent(l) = Base(l) + Len(l.batch)
  BY <1>1, <1>3 DEF Sent, Base
<1>5. QED
  BY <1>1, <1>2, <1>3, <1>4

\* A record with consistent fields is a consistent lane.
LEMMA LaneFrom ==
    ASSUME NEW m \in LaneRecs, NEW b, Consistent(b, m.buf, m.batch, m.next, Disposed(m), m.drained, m.upto),
           m.at = "idle" => m.batch = << >>
    PROVE  LaneInv(m) /\ Base(m) = b /\ Sent(m) = b + Len(m.batch)
<1>1. PICK k \in Nat, j \in Nat : k = Len(m.buf) /\ j = Len(m.batch)
  BY DEF LaneRecs
<1>2. b \in Nat /\ m.next = b + j + k
  BY <1>1 DEF Consistent
<1>3. Base(m) = b
  <2>1. Base(m) = m.next - j - k
    BY <1>1 DEF Base
  <2>2. QED
    BY <1>2, <2>1
<1>4. Sent(m) = b + j
  <2>1. Sent(m) = m.next - k
    BY <1>1 DEF Sent
  <2>2. QED
    BY <1>2, <2>1
<1>5. QED
  BY <1>1, <1>3, <1>4 DEF LaneInv

\* Fields of a lane that say nothing about its messages may change.
LEMMA LaneBookkeeping ==
    ASSUME NEW l, LaneInv(l), NEW m \in LaneRecs, m.buf = l.buf, m.batch = l.batch, m.next = l.next,
           m.acked = l.acked /\ m.dropped = l.dropped, m.drained = l.drained, m.upto \in {l.upto, l.next},
           m.at = "idle" => l.at = "idle"
    PROVE  LaneInv(m) /\ Base(m) = Base(l) /\ Sent(m) = Sent(l)
<1>1. Base(m) = Base(l) /\ Sent(m) = Sent(l)
  BY DEF Base, Sent
<1>2. Consistent(Base(l), l.buf, l.batch, l.next, Disposed(l), l.drained, m.upto)
  BY LaneFacts DEF LaneInv, Consistent
<1>3. Disposed(m) = Disposed(l)
  BY DEF Disposed
<1>4. QED
  BY <1>1, <1>2, <1>3 DEF LaneInv

\* Send accepts a message.
LEMMA SendKeeps ==
    ASSUME NEW l, LaneInv(l)
    PROVE  LaneKept(l, [l EXCEPT !.next = @ + 1, !.buf = Append(@, l.next + 1)])
<1> DEFINE x == Append(l.buf, l.next + 1)
           y == l.next + 1
           m == [l EXCEPT !.next = y, !.buf = x]
<1>1. x \in Seq(Nat) /\ Consistent(Base(l), x, l.batch, y, Disposed(l), l.drained, l.upto)
  BY LaneFacts, OneMore DEF LaneInv
<1>2. [l EXCEPT !.next = @ + 1, !.buf = Append(@, l.next + 1)] = m
  OBVIOUS
<1>3. l \in LaneRecs /\ y \in Nat /\ (l.at = "idle" => l.batch = << >>)
  BY LaneFacts DEF LaneInv
<1> HIDE DEF x, y
<1>4. m \in LaneRecs
  BY <1>1, <1>3 DEF LaneRecs
<1>5. /\ m.buf = x /\ m.next = y
      /\ m.batch = l.batch /\ m.acked = l.acked /\ m.dropped = l.dropped /\ m.drained = l.drained /\ m.upto = l.upto
      /\ m.at = l.at /\ m.conn = l.conn
  BY <1>3 DEF LaneRecs
<1> HIDE DEF m
<1>6. Disposed(m) = Disposed(l)
  BY <1>5 DEF Disposed
<1>7. LaneInv(m)
  BY <1>1, <1>3, <1>4, <1>5, <1>6, LaneFrom
<1>8. QED
  BY <1>2, <1>5, <1>7 DEF LaneKept

\* partitionSender takes a batch.
LEMMA TakeKeeps ==
    ASSUME NEW l, LaneInv(l), l.at = "idle", NEW k \in 0 .. Len(l.buf)
    PROVE  LaneKept(l, [l EXCEPT !.batch = SubSeq(l.buf, 1, k), !.at = "write", !.tries = 0,
                                 !.buf = SubSeq(l.buf, k + 1, Len(l.buf))])
<1> DEFINE x == SubSeq(l.buf, 1, k)
           y == SubSeq(l.buf, k + 1, Len(l.buf))
           m == [l EXCEPT !.batch = x, !.at = "write", !.tries = 0, !.buf = y]
<1>1. /\ x \in Seq(Nat) /\ y \in Seq(Nat)
      /\ Consistent(Base(l), y, x, l.next, Disposed(l), l.drained, l.upto)
  BY LaneFacts, FrontTaken DEF LaneInv
<1>2. l \in LaneRecs
  BY DEF LaneInv
<1> HIDE DEF x, y
<1>3. m \in LaneRecs
  BY <1>1, <1>2 DEF LaneRecs
<1>4. /\ m.buf = y /\ m.batch = x /\ m.next = l.next /\ m.acked = l.acked /\ m.dropped = l.dropped
      /\ m.drained = l.drained /\ m.upto = l.upto /\ m.at = "write"
  BY <1>2 DEF LaneRecs
<1> HIDE DEF m
<1>5. LaneInv(m) /\ Base(m) = Base(l)
  BY <1>1, <1>3, <1>4, LaneFrom DEF Disposed
<1>6. LaneKept(l, m)
  BY <1>4, <1>5 DEF LaneKept
<1>7. QED
  BY <1>6 DEF m, x, y

\* Flush and Close ask for a drain of what has been handed out.
LEMMA DrainKeeps ==
    ASSUME NEW l, LaneInv(l)
    PROVE  /\ LaneKept(l, [l EXCEPT !.drain = TRUE, !.upto = l.next])
           /\ (l.at = "idle" /\ l.buf = << >>) => LaneKept(l, [l EXCEPT !.drain = FALSE, !.drained = l.upto])
<1>1. l \in LaneRecs /\ l.next \in Nat /\ l.upto \in Nat /\ (l.at = "idle" => l.batch = << >>)
  BY LaneFacts DEF LaneInv
<1>2. LaneKept(l, [l EXCEPT !.drain = TRUE, !.upto = l.next])
  <2> DEFINE m == [l EXCEPT !.drain = TRUE, !.upto = l.next]
  <2>1. m \in LaneRecs
    BY <1>1 DEF LaneRecs
  <2>2. /\ m.buf = l.buf /\ m.batch = l.batch /\ m.next = l.next /\ m.acked = l.acked /\ m.dropped = l.dropped
        /\ m.drained = l.drained /\ m.upto = l.next /\ m.at = l.at /\ m.conn = l.conn
    BY <1>1 DEF LaneRecs
  <2> HIDE DEF m
  <2>3. LaneInv(m) /\ Base(m) = Base(l) /\ Sent(m) = Sent(l)
    BY <2>1, <2>2, LaneBookkeeping
  <2>4. LaneKept(l, m)
    BY <2>2, <2>3 DEF LaneKept
  <2>5. QED
    BY <2>4 DEF m
<1>3. ASSUME l.at = "idle", l.buf = << >>
      PROVE  LaneKept(l, [l EXCEPT !.drain = FALSE, !.drained = l.upto])
  <2> DEFINE m == [l EXCEPT !.drain = FALSE, !.drained = l.upto]
  <2>1. m \in LaneRecs
    BY <1>1 DEF LaneRecs
  <2>2. /\ m.buf = l.buf /\ m.batch = l.batch /\ m.next = l.next /\ m.acked = l.acked /\ m.dropped = l.dropped
        /\ m.drained = l.upto /\ m.upto = l.upto /\ m.at = l.at
    BY <1>1 DEF LaneRecs
  <2>3. Len(l.buf) = 0 /\ Len(l.batch) = 0
    BY <1>1, <1>3
  <2>4. Consistent(Base(l), l.buf, l.batch, l.next, Disposed(l), l.upto, l.upto)
    BY <1>1, <2>3 DEF LaneInv, Consistent
  <2> HIDE DEF m
  <2>5. LaneInv(m) /\ Base(m) = Base(l)
    BY <1>1, <2>1, <2>2, <2>4, LaneFrom DEF Disposed
  <2>6. LaneKept(l, m)
    BY <1>3, <2>2, <2>5 DEF LaneKept
  <2>7. QED
    BY <2>6 DEF m
<1>4. QED
  BY <1>2, <1>3

\* sendWithRetry after a failed attempt: again, or back to the buffer.
LEMMA RetryKeeps ==
    ASSUME NEW l, LaneInv(l)
    PROVE  /\ LaneInv(AttemptFails(l)) /\ Base(AttemptFails(l)) = Base(l)
           /\ AttemptFails(l).at \in {"write", "idle"} /\ AttemptFails(l).conn = l.conn
           /\ AttemptFails(l).acked = l.acked /\ AttemptFails(l).dropped = l.dropped
<1>1. l \in LaneRecs /\ l.tries + 1 \in Nat
  BY LaneFacts DEF LaneInv
<1>2. CASE l.tries < MaxRetries
  <2> DEFINE y == l.tries + 1
             m == [l EXCEPT !.tries = y, !.at = "write"]
  <2>1. AttemptFails(l) = m
    BY <1>2 DEF AttemptFails, Attempt
  <2>2. y \in Nat
    BY <1>1
  <2> HIDE DEF y
  <2>3. m \in LaneRecs
    BY <1>1, <2>2 DEF LaneRecs
  <2>4. /\ m.buf = l.buf /\ m.batch = l.batch /\ m.next = l.next /\ m.acked = l.acked /\ m.dropped = l.dropped
        /\ m.drained = l.drained /\ m.upto = l.upto /\ m.at = "write" /\ m.conn = l.conn
    BY <1>1 DEF LaneRecs
  <2> HIDE DEF m
  <2>5. LaneInv(m) /\ Base(m) = Base(l)
    BY <2>3, <2>4, LaneBookkeeping
  <2>6. QED
    BY <2>1, <2>4, <2>5
<1>3. CASE ~(l.tries < MaxRetries)
  <2> DEFINE y == InOrder(l.buf \o l.batch)
             e == << >>
             m == [l EXCEPT !.buf = y, !.batch = e, !.at = "idle"]
  <2>1. AttemptFails(l) = m
    BY <1>1, <1>3 DEF AttemptFails, Attempt, HandleSendFailure, Finish, LaneRecs
  <2>2. /\ y \in Seq(Nat) /\ e \in Seq(Nat)
        /\ Consistent(Base(l), y, e, l.next, Disposed(l), l.drained, l.upto)
    <3>1. /\ l.buf \in Seq(Nat) /\ l.batch \in Seq(Nat) /\ l.next \in Nat
          /\ l.drained \in Nat /\ l.upto \in Nat
          /\ Consistent(Base(l), l.buf, l.batch, l.next, Disposed(l), l.drained, l.upto)
      BY LaneFacts DEF LaneInv
    <3>2. y \in Seq(Nat) /\ Consistent(Base(l), y, << >>, l.next, Disposed(l), l.drained, l.upto)
      BY <3>1, PutBack
    <3>3. e \in Seq(Nat)
      OBVIOUS
    <3>4. QED
      BY <3>2, <3>3
  <2> HIDE DEF y, e
  <2>3. m \in LaneRecs
    BY <1>1, <2>2 DEF LaneRecs
  <2>4. /\ m.buf = y /\ m.batch = e /\ m.next = l.next /\ m.acked = l.acked /\ m.dropped = l.dropped
        /\ m.drained = l.drained /\ m.upto = l.upto /\ m.at = "idle" /\ m.conn = l.conn
    BY <1>1 DEF LaneRecs
  <2> HIDE DEF m
  <2>5. LaneInv(m) /\ Base(m) = Base(l)
    BY <2>2, <2>3, <2>4, LaneFrom DEF e, Disposed
  <2>6. QED
    BY <2>1, <2>4, <2>5
<1>4. QED
  BY <1>2, <1>3

\* sendBatch is done with the batch: what it adds to either history is what comes next.
LEMMA FinishKeeps ==
    ASSUME NEW l, LaneInv(l), NEW m \in LaneRecs, m.buf = l.buf, m.batch = << >>, m.next = l.next,
           m.drained = l.drained, m.upto = l.upto, Disposed(m) = Disposed(l) \cup Range(l.batch)
    PROVE  LaneInv(m)
<1>1. /\ l.buf \in Seq(Nat) /\ l.batch \in Seq(Nat) /\ l.next \in Nat
      /\ l.drained \in Nat /\ l.upto \in Nat
      /\ Consistent(Base(l), l.buf, l.batch, l.next, Disposed(l), l.drained, l.upto)
  BY LaneFacts DEF LaneInv
<1>2. Consistent(Base(l) + Len(l.batch), l.buf, << >>, l.next, Disposed(l) \cup Range(l.batch), l.drained, l.upto)
  BY <1>1, BatchAcked
<1>3. QED
  BY <1>2, LaneFrom

\* The numbers of a batch.
LEMMA BatchNumbers ==
    ASSUME NEW l, LaneInv(l)
    PROVE  Range(l.batch) \subseteq Nat
<1>1. l.batch \in Seq(Nat)
  BY LaneFacts
<1>2. QED
  BY <1>1 DEF Range

\* The answer is read.
LEMMA AckKeeps ==
    ASSUME NEW l, LaneInv(l), l.at = "ack", l.conn
    PROVE  LaneKept(l, [Finish(l) EXCEPT !.acked = @ \cup Range(l.batch)])
<1> DEFINE a == l.acked \cup Range(l.batch)
           e == << >>
           m == [l EXCEPT !.batch = e, !.at = "idle", !.acked = a]
<1>1. l \in LaneRecs
  BY DEF LaneInv
<1>2. [Finish(l) EXCEPT !.acked = @ \cup Range(l.batch)] = m
  BY <1>1 DEF Finish, LaneRecs
<1>3. a \in SUBSET Nat /\ e \in Seq(Nat)
  <2>1. a \in SUBSET Nat
    BY LaneFacts, BatchNumbers
  <2>2. QED
    BY <2>1
<1> HIDE DEF a, e
<1>4. m \in LaneRecs
  BY <1>1, <1>3 DEF LaneRecs
<1>5. /\ m.buf = l.buf /\ m.batch = e /\ m.next = l.next /\ m.drained = l.drained /\ m.upto = l.upto
      /\ m.acked = a /\ m.dropped = l.dropped /\ m.at = "idle"
  BY <1>1 DEF LaneRecs
<1> HIDE DEF m
<1>6. Disposed(m) = Disposed(l) \cup Range(l.batch)
  BY <1>5 DEF Disposed, a
<1>7. LaneInv(m)
  BY <1>4, <1>5, <1>6, FinishKeeps DEF e
<1>8. LaneKept(l, m)
  BY <1>5, <1>7 DEF LaneKept, a
<1>9. QED
  BY <1>2, <1>8

\* A refused batch is tried again, or dropped.
LEMMA RefusedKeeps ==
    ASSUME NEW l, LaneInv(l), l.at = "refused"
    PROVE  LaneKept(l, AttemptRefused(l))
<1>1. l \in LaneRecs
  BY DEF LaneInv
<1>2. CASE l.tries < MaxRetries
  <2>1. AttemptRefused(l) = AttemptFails(l)
    BY <1>2 DEF AttemptRefused, AttemptFails, Attempt
  <2>2. QED
    BY <2>1, RetryKeeps DEF LaneKept
<1>3. CASE ~(l.tries < MaxRetries)
  <2> DEFINE d == l.dropped \cup Range(l.batch)
             e == << >>
             m == [l EXCEPT !.batch = e, !.at = "idle", !.dropped = d]
  <2>1. AttemptRefused(l) = m
    BY <1>1, <1>3 DEF AttemptRefused, Attempt, GiveUp, Finish, LaneRecs
  <2>2. d \in SUBSET Nat /\ e \in Seq(Nat)
    <3>1. d \in SUBSET Nat
      BY LaneFacts, BatchNumbers
    <3>2. QED
      BY <3>1
  <2> HIDE DEF d, e
  <2>3. m \in LaneRecs
    BY <1>1, <2>2 DEF LaneRecs
  <2>4. /\ m.buf = l.buf /\ m.batch = e /\ m.next = l.next /\ m.drained = l.drained /\ m.upto = l.upto
        /\ m.acked = l.acked /\ m.dropped = d /\ m.at = "idle"
    BY <1>1 DEF LaneRecs
  <2> HIDE DEF m
  <2>5. Disposed(m) = Disposed(l) \cup Range(l.batch)
    BY <2>4 DEF Disposed, d
  <2>6. LaneInv(m)
    BY <2>3, <2>4, <2>5, FinishKeeps DEF e
  <2>7. LaneKept(l, m)
    BY <2>4, <2>6 DEF LaneKept
  <2>8. QED
    BY <2>1, <2>7
<1>4. QED
  BY <1>2, <1>3

\* ReconnectPartition, and a connection that answers one late.
LEMMA ConnectionKeeps ==
    ASSUME NEW l, LaneInv(l), NEW at \in {"idle", "write", "broker", "ack", "refused"},
           at = "idle" => l.at = "idle", at = "refused" => l.at = "refused"
    PROVE  /\ LaneInv(Reconnected(l)) /\ Reconnected(l).at = l.at
           /\ Reconnected(l).acked = l.acked /\ Reconnected(l).dropped = l.dropped
           /\ LaneInv([l EXCEPT !.behind = TRUE]) /\ [l EXCEPT !.behind = TRUE].at = l.at
           /\ [l EXCEPT !.behind = TRUE].acked = l.acked /\ [l EXCEPT !.behind = TRUE].dropped = l.dropped
           /\ LaneKept(l, [l EXCEPT !.conn = FALSE])
           /\ LaneKept(l, [l EXCEPT !.conn = FALSE, !.at = at])
<1>1. l \in LaneRecs
  BY DEF LaneInv
<1>2. /\ LaneInv(Reconnected(l)) /\ Reconnected(l).at = l.at
      /\ Reconnected(l).acked = l.acked /\ Reconnected(l).dropped = l.dropped
  <2> DEFINE m == [l EXCEPT !.conn = TRUE, !.behind = FALSE]
  <2>1. m \in LaneRecs
    BY <1>1 DEF LaneRecs
  <2>2. /\ m.buf = l.buf /\ m.batch = l.batch /\ m.next = l.next /\ m.acked = l.acked /\ m.dropped = l.dropped
        /\ m.drained = l.drained /\ m.upto = l.upto /\ m.at = l.at
    BY <1>1 DEF LaneRecs
  <2> HIDE DEF m
  <2>3. LaneInv(m) /\ Base(m) = Base(l)
    BY <2>1, <2>2, LaneBookkeeping
  <2>4. QED
    BY <2>2, <2>3 DEF Reconnected, m
<1>3. /\ LaneInv([l EXCEPT !.behind = TRUE]) /\ [l EXCEPT !.behind = TRUE].at = l.at
      /\ [l EXCEPT !.behind = TRUE].acked = l.acked /\ [l EXCEPT !.behind = TRUE].dropped = l.dropped
  <2> DEFINE m == [l EXCEPT !.behind = TRUE]
  <2>1. m \in LaneRecs
    BY <1>1 DEF LaneRecs
  <2>2. /\ m.buf = l.buf /\ m.batch = l.batch /\ m.next = l.next /\ m.acked = l.acked /\ m.dropped = l.dropped
        /\ m.drained = l.drained /\ m.upto = l.upto /\ m.at = l.at
    BY <1>1 DEF LaneRecs
  <2> HIDE DEF m
  <2>3. LaneInv(m) /\ Base(m) = Base(l)
    BY <2>1, <2>2, LaneBookkeeping
  <2>4. QED
    BY <2>2, <2>3 DEF m
<1>4. LaneKept(l, [l EXCEPT !.conn = FALSE])
  <2> DEFINE m == [l EXCEPT !.conn = FALSE]
  <2>1. m \in LaneRecs
    BY <1>1 DEF LaneRecs
  <2>2. /\ m.buf = l.buf /\ m.batch = l.batch /\ m.next = l.next /\ m.acked = l.acked /\ m.dropped = l.dropped
        /\ m.drained = l.drained /\ m.upto = l.upto /\ m.at = l.at /\ m.conn = FALSE
    BY <1>1 DEF LaneRecs
  <2> HIDE DEF m
  <2>3. LaneInv(m) /\ Base(m) = Base(l)
    BY <2>1, <2>2, LaneBookkeeping
  <2>4. LaneKept(l, m)
    BY <2>2, <2>3 DEF LaneKept
  <2>5. QED
    BY <2>4 DEF m
<1>5. LaneKept(l, [l EXCEPT !.conn = FALSE, !.at = at])
  <2> DEFINE m == [l EXCEPT !.conn = FALSE, !.at = at]
  <2>1. m \in LaneRecs
    BY <1>1 DEF LaneRecs
  <2>2. /\ m.buf = l.buf /\ m.batch = l.batch /\ m.next = l.next /\ m.acked = l.acked /\ m.dropped = l.dropped
        /\ m.drained = l.drained /\ m.upto = l.upto /\ m.at = at /\ m.conn = FALSE
    BY <1>1 DEF LaneRecs
  <2> HIDE DEF m
  <2>3. LaneInv(m) /\ Base(m) = Base(l)
    BY <2>1, <2>2, LaneBookkeeping
  <2>4. LaneKept(l, m)
    BY <2>2, <2>3 DEF LaneKept
  <2>5. QED
    BY <2>4 DEF m
<1>6. QED
  BY <1>2, <1>3, <1>4, <1>5

\* The broker has handled the batch, or writing it has begun.
LEMMA HandledKeeps ==
    ASSUME NEW l, LaneInv(l), NEW at \in {"broker", "ack"}, NEW conn \in BOOLEAN
    PROVE  LET m == [l EXCEPT !.at = at, !.conn = conn]
           IN  /\ LaneInv(m) /\ m.acked = l.acked /\ m.dropped = l.dropped /\ m.batch = l.batch
               /\ m.at = at /\ m.conn = conn
<1> DEFINE m == [l EXCEPT !.at = at, !.conn = conn]
<1>1. l \in LaneRecs
  BY DEF LaneInv
<1>2. m \in LaneRecs
  BY <1>1 DEF LaneRecs
<1>3. /\ m.buf = l.buf /\ m.batch = l.batch /\ m.next = l.next /\ m.acked = l.acked /\ m.dropped = l.dropped
      /\ m.drained = l.drained /\ m.upto = l.upto /\ m.at = at /\ m.conn = conn
  BY <1>1 DEF LaneRecs
<1> HIDE DEF m
<1>4. LaneInv(m) /\ Base(m) = Base(l) /\ Sent(m) = Sent(l)
  BY <1>2, <1>3, LaneBookkeeping
<1>5. QED
  BY <1>3, <1>4 DEF m

-----------------------------------------------------------------------------
(* The producer's steps.                                                   *)

ProducerInv ==
    /\ lane = [p \in Partitions |-> lane[p]]
    /\ \A p \in Partitions : LaneInv(lane[p])

\* What a step that leaves the logs alone does to the lanes.
LanesKept == lane' = [p \in Partitions |-> lane'[p]] /\ \A p \in Partitions : LaneKept(lane[p], lane'[p])

\* A lane nothing happens to.
LEMMA SameLane ==
    ASSUME NEW l, LaneInv(l)
    PROVE  LaneKept(l, l)
  BY DEF LaneKept

\* One lane changes.
LEMMA OneLane ==
    ASSUME ProducerInv, NEW p, NEW m, SetLane(p, m), p \in Partitions => LaneKept(lane[p], m)
    PROVE  LanesKept
<1>1. lane' = [lane EXCEPT ![p] = m]
  BY DEF SetLane
<1>2. lane' = [q \in Partitions |-> lane'[q]]
  BY <1>1 DEF ProducerInv
<1>3. ASSUME NEW q \in Partitions PROVE LaneKept(lane[q], lane'[q])
  <2>1. lane'[q] = IF q = p THEN m ELSE lane[q]
    BY <1>1 DEF ProducerInv
  <2>2. LaneInv(lane[q])
    BY DEF ProducerInv
  <2>3. CASE q = p
    BY <2>1, <2>3
  <2>4. CASE q # p
    BY <2>1, <2>2, <2>4, SameLane
  <2>5. QED
    BY <2>3, <2>4
<1>4. QED
  BY <1>2, <1>3 DEF LanesKept

\* Steps that only touch the producer.
ClientStep ==
    \/ Send \/ Flush \/ CloseProducer \/ CloseClient
    \/ \E p \in Partitions : Take(p) \/ Drain(p) \/ Write(p) \/ WriteFails(p) \/ ReadAck(p)
                               \/ HandleBatchRefused(p) \/ AckTimeout(p) \/ ConnBreak(p)

\* None of them acknowledges what the broker has not answered for.
LEMMA ClientSteps ==
    ASSUME ProducerInv, ClientStep
    PROVE  LanesKept
<1>1. ASSUME Send PROVE LanesKept
  <2> DEFINE l == lane[NextPartition]
             m == IF Len(l.buf) >= BufferSize THEN l
                  ELSE [l EXCEPT !.next = @ + 1, !.buf = Append(@, l.next + 1)]
  <2>1. SetLane(NextPartition, m)
    BY <1>1 DEF Send
  <2>2. NextPartition \in Partitions => LaneKept(l, m)
    BY SendKeeps, SameLane DEF ProducerInv
  <2>3. QED
    BY <2>1, <2>2, OneLane
<1>2. ASSUME lane' = RequestDrain PROVE LanesKept
  BY <1>2, DrainKeeps DEF LanesKept, ProducerInv, RequestDrain
<1>3. ASSUME CloseClient PROVE LanesKept
  BY <1>3, ConnectionKeeps DEF LanesKept, ProducerInv, CloseClient
<1>4. ASSUME NEW p \in Partitions, Take(p) PROVE LanesKept
  <2> DEFINE l == lane[p]
  <2>1. LaneInv(l) /\ l.at = "idle"
    BY <1>4 DEF ProducerInv, Take
  <2>2. PICK b \in Extracted(l) :
          SetLane(p, [l EXCEPT !.batch = b, !.at = "write", !.tries = 0,
                               !.buf = SubSeq(@, Len(b) + 1, Len(@))])
    BY <1>4 DEF Take
  <2>3. l.buf \in Seq(Nat) /\ Len(l.buf) \in Nat /\ BatchSize \in Nat
    BY <2>1, LaneFacts, ProducerConstants
  <2>4. \E k \in 0 .. Len(l.buf) : b = SubSeq(l.buf, 1, k) /\ Len(b) = k
    <3>1. \A s \in Seq(Nat) : s = SubSeq(s, 1, Len(s))
      OBVIOUS
    <3>2. \A s \in Seq(Nat) : \A k \in 0 .. Len(s) : Len(SubSeq(s, 1, k)) = k
      OBVIOUS
    <3>3. \/ b = l.buf
          \/ Len(l.buf) < BatchSize /\ b = SubSeq(l.buf, 1, Len(l.buf))
          \/ ~(Len(l.buf) < BatchSize) /\ b = SubSeq(l.buf, 1, BatchSize)
      BY <2>2 DEF Extracted
    <3>4. Len(l.buf) \in 0 .. Len(l.buf) /\ (~(Len(l.buf) < BatchSize) => BatchSize \in 0 .. Len(l.buf))
      BY <2>3
    <3>5. QED
      BY <2>3, <3>1, <3>2, <3>3, <3>4
  <2>5. PICK k \in 0 .. Len(l.buf) : b = SubSeq(l.buf, 1, k) /\ Len(b) = k
    BY <2>4
  <2>6. SetLane(p, [l EXCEPT !.batch = SubSeq(l.buf, 1, k), !.at = "write", !.tries = 0,
                             !.buf = SubSeq(l.buf, k + 1, Len(l.buf))])
    BY <2>2, <2>5
  <2>7. QED
    BY <2>1, <2>6, TakeKeeps, OneLane
<1>5. ASSUME NEW p \in Partitions, Drain(p) PROVE LanesKept
  BY <1>5, DrainKeeps, OneLane DEF ProducerInv, Drain
<1>6. ASSUME NEW l, LaneInv(l)
      PROVE  /\ LaneKept(l, AttemptFails(l)) /\ LaneKept(l, Reconnected(AttemptFails(l)))
             /\ LaneKept(l, [AttemptFails(l) EXCEPT !.behind = TRUE])
  <2>1. /\ LaneInv(AttemptFails(l)) /\ AttemptFails(l).at \in {"write", "idle"}
        /\ AttemptFails(l).acked = l.acked /\ AttemptFails(l).dropped = l.dropped
    BY <1>6, RetryKeeps
  <2> DEFINE m == AttemptFails(l)
  <2> HIDE DEF m
  <2>2. /\ LaneInv(Reconnected(m)) /\ Reconnected(m).at = m.at
        /\ Reconnected(m).acked = m.acked /\ Reconnected(m).dropped = m.dropped
        /\ LaneInv([m EXCEPT !.behind = TRUE]) /\ [m EXCEPT !.behind = TRUE].at = m.at
        /\ [m EXCEPT !.behind = TRUE].acked = m.acked /\ [m EXCEPT !.behind = TRUE].dropped = m.dropped
    BY <2>1, ConnectionKeeps DEF m
  <2>3. QED
    BY <2>1, <2>2 DEF LaneKept, m
<1>7. ASSUME NEW p \in Partitions, Write(p) PROVE LanesKept
  <2> DEFINE l == lane[p]
             m == [l EXCEPT !.at = "broker"]
  <2>1. LaneInv(l) /\ l.at = "write"
    BY <1>7 DEF ProducerInv, Write
  <2>2. LaneKept(l, m)
    <3>1. l \in LaneRecs
      BY <2>1 DEF LaneInv
    <3>2. m \in LaneRecs
      BY <3>1 DEF LaneRecs
    <3>3. /\ m.buf = l.buf /\ m.batch = l.batch /\ m.next = l.next /\ m.acked = l.acked /\ m.dropped = l.dropped
          /\ m.drained = l.drained /\ m.upto = l.upto /\ m.at = "broker"
      BY <3>1 DEF LaneRecs
    <3> HIDE DEF m
    <3>4. LaneInv(m) /\ Base(m) = Base(l)
      BY <2>1, <3>2, <3>3, LaneBookkeeping
    <3>5. QED
      BY <3>3, <3>4 DEF LaneKept
  <2>3. SetLane(p, m) \/ SetLane(p, AttemptFails(l))
    BY <1>7 DEF Write
  <2>4. QED
    BY <1>6, <2>1, <2>2, <2>3, OneLane
<1>8. ASSUME NEW p \in Partitions, WriteFails(p) PROVE LanesKept
  <2>1. SetLane(p, Reconnected(AttemptFails(lane[p]))) \/ SetLane(p, AttemptFails(lane[p]))
    BY <1>8 DEF WriteFails
  <2>2. QED
    BY <1>6, <2>1, OneLane DEF ProducerInv
<1>9. ASSUME NEW p \in Partitions, ReadAck(p) PROVE LanesKept
  <2> DEFINE l == lane[p]
             m == [Finish(l) EXCEPT !.acked = @ \cup Range(l.batch)]
  <2>1. LaneInv(l)
    BY <1>9 DEF ProducerInv, ReadAck
  <2>2. \/ l.at = "ack" /\ l.conn /\ SetLane(p, m)
        \/ l.at = "refused" /\ SetLane(p, AttemptRefused(l))
        \/ SetLane(p, AttemptFails(l))
    BY <1>9 DEF ReadAck
  <2>3. /\ l.at = "ack" /\ l.conn => LaneKept(l, m)
        /\ l.at = "refused" => LaneKept(l, AttemptRefused(l))
    BY <2>1, AckKeeps, RefusedKeeps
  <2> HIDE DEF m
  <2>4. QED
    BY <1>6, <2>1, <2>2, <2>3, OneLane
<1>10. ASSUME NEW p \in Partitions, AckTimeout(p) PROVE LanesKept
  <2>1. SetLane(p, [AttemptFails(lane[p]) EXCEPT !.behind = TRUE])
    BY <1>10 DEF AckTimeout
  <2>2. QED
    BY <1>6, <2>1, OneLane DEF ProducerInv
<1>11. ASSUME NEW p \in Partitions, ConnBreak(p) PROVE LanesKept
  <2> DEFINE l == lane[p]
             at == IF l.at = "broker" THEN "ack" ELSE l.at
  <2>1. LaneInv(l) /\ SetLane(p, [l EXCEPT !.conn = FALSE, !.at = at])
    BY <1>11 DEF ProducerInv, ConnBreak
  <2>2. /\ at \in {"idle", "write", "broker", "ack", "refused"}
        /\ at = "idle" => l.at = "idle"
        /\ at = "refused" => l.at = "refused"
    BY <2>1, LaneFacts
  <2> HIDE DEF at
  <2>3. LaneKept(l, [l EXCEPT !.conn = FALSE, !.at = at])
    BY <2>1, <2>2, ConnectionKeeps
  <2>4. QED
    BY <2>1, <2>3, OneLane
<1>12. ASSUME NEW p \in Partitions, HandleBatchRefused(p) PROVE LanesKept
  <2> DEFINE l == lane[p]
             m == [l EXCEPT !.at = "refused"]
  <2>1. LaneInv(l) /\ SetLane(p, m) /\ Lacking
    BY <1>12 DEF ProducerInv, HandleBatchRefused, Lacking
  <2>2. l \in LaneRecs
    BY <2>1 DEF LaneInv
  <2>3. m \in LaneRecs
    BY <2>2 DEF LaneRecs
  <2>4. /\ m.buf = l.buf /\ m.batch = l.batch /\ m.next = l.next /\ m.acked = l.acked /\ m.dropped = l.dropped
        /\ m.drained = l.drained /\ m.upto = l.upto /\ m.at = "refused"
    BY <2>2 DEF LaneRecs
  <2> HIDE DEF m
  <2>5. LaneInv(m) /\ Base(m) = Base(l)
    BY <2>1, <2>3, <2>4, LaneBookkeeping
  <2>6. LaneKept(l, m)
    BY <2>1, <2>4, <2>5 DEF LaneKept
  <2>7. QED
    BY <2>1, <2>6, OneLane
<1>13. QED
  BY <1>1, <1>2, <1>3, <1>4, <1>5, <1>7, <1>8, <1>9, <1>10, <1>11, <1>12 DEF ClientStep, Flush, CloseProducer

-----------------------------------------------------------------------------
(* A partition's log and what the partition remembers of the producer.     *)

IsASeq(s) == s \in Seq(Range(s))

\* The last sequence number a partition remembers of the producer.
Top(known) == IF Pid \in DOMAIN known THEN known[Pid].seq ELSE 0

OwnIn(recs) == {i \in DOMAIN recs : recs[i].pid = Pid}

\* The producer's records are 1 to top, once each and in order.
Sequenced(recs, top) ==
    /\ \A i \in OwnIn(recs) : recs[i].seq \in 1 .. top /\ recs[i].epoch = 0
    /\ \A s \in 1 .. top : \E i \in OwnIn(recs) : recs[i].seq = s
    /\ \A i, j \in OwnIn(recs) : i < j => recs[i].seq < recs[j].seq

\* The table remembers the last of them.
Remembers(known, recs) ==
    /\ Top(known) \in Nat /\ Sequenced(recs, Top(known))
    /\ Pid \in DOMAIN known => known[Pid].epoch = 0 /\ known[Pid].seq > 0

\* Any sequence, whatever is in it.
LEMMA AnySeq ==
    ASSUME NEW S, NEW s \in Seq(S)
    PROVE  IsASeq(s) /\ Len(s) \in Nat /\ DOMAIN s = 1 .. Len(s)
<1>1. Len(s) \in Nat /\ DOMAIN s = 1 .. Len(s)
  OBVIOUS
<1>2. \A i \in 1 .. Len(s) : s[i] \in Range(s)
  BY <1>1 DEF Range
<1>3. s \in Seq(Range(s))
  BY <1>1, <1>2
<1>4. QED
  BY <1>1, <1>3 DEF IsASeq

\* Append to any sequence.
LEMMA AppendAny ==
    ASSUME NEW s, IsASeq(s), NEW m
    PROVE  /\ Len(s) \in Nat /\ DOMAIN s = 1 .. Len(s)
           /\ IsASeq(Append(s, m)) /\ DOMAIN Append(s, m) = 1 .. Len(s) + 1
           /\ \A i \in 1 .. Len(s) : Append(s, m)[i] = s[i]
           /\ Append(s, m)[Len(s) + 1] = m
<1> DEFINE S == Range(s) \cup {m}
<1>1. s \in Seq(Range(s))
  BY DEF IsASeq
<1>2. Len(s) \in Nat /\ DOMAIN s = 1 .. Len(s) /\ s = [i \in 1 .. Len(s) |-> s[i]]
      /\ \A i \in 1 .. Len(s) : s[i] \in Range(s)
  BY <1>1
<1>3. s \in Seq(S)
  BY <1>2
<1>4. m \in S
  OBVIOUS
<1> HIDE DEF S
<1>5. Append(s, m) \in Seq(S) /\ DOMAIN Append(s, m) = 1 .. Len(s) + 1
      /\ (\A i \in 1 .. Len(s) : Append(s, m)[i] = s[i]) /\ Append(s, m)[Len(s) + 1] = m
  BY <1>3, <1>4
<1>6. IsASeq(Append(s, m))
  BY <1>5, AnySeq
<1>7. QED
  BY <1>2, <1>5, <1>6

\* A record of somebody else.
LEMMA SequencedOther ==
    ASSUME NEW r, IsASeq(r), NEW top \in Nat, Sequenced(r, top), NEW m, m.pid # Pid
    PROVE  Sequenced(Append(r, m), top)
<1> DEFINE a == Append(r, m)
<1>1. /\ Len(r) \in Nat /\ DOMAIN r = 1 .. Len(r) /\ DOMAIN a = 1 .. Len(r) + 1
      /\ (\A i \in 1 .. Len(r) : a[i] = r[i]) /\ a[Len(r) + 1] = m
  BY AppendAny
<1> HIDE DEF a
<1>2. OwnIn(a) = OwnIn(r)
  <2>1. \A i \in DOMAIN a : i \in DOMAIN r \/ i = Len(r) + 1
    BY <1>1
  <2>2. DOMAIN r \subseteq DOMAIN a
    BY <1>1
  <2>3. QED
    BY <1>1, <2>1, <2>2 DEF OwnIn
<1>3. \A i \in OwnIn(r) : a[i] = r[i]
  BY <1>1 DEF OwnIn
<1>4. Sequenced(a, top)
  BY <1>2, <1>3 DEF Sequenced
<1>5. QED
  BY <1>4 DEF a

\* The producer's next record.
LEMMA SequencedNext ==
    ASSUME NEW r, IsASeq(r), NEW top \in Nat, Sequenced(r, top), NEW m, m.pid = Pid, m.epoch = 0,
           m.seq = top + 1
    PROVE  Sequenced(Append(r, m), top + 1)
<1> DEFINE a == Append(r, m)
           n == Len(r) + 1
<1>1. /\ n \in Nat /\ n >= 1 /\ DOMAIN r = 1 .. n - 1 /\ DOMAIN a = 1 .. n
      /\ (\A i \in 1 .. n - 1 : a[i] = r[i]) /\ a[n] = m
  BY AppendAny
<1> HIDE DEF a, n
<1>2. OwnIn(a) = OwnIn(r) \cup {n} /\ \A i \in OwnIn(r) : a[i] = r[i] /\ i \in 1 .. n - 1
  <2>1. \A i \in DOMAIN a : i \in DOMAIN r \/ i = n
    BY <1>1
  <2>2. DOMAIN r \subseteq DOMAIN a /\ n \in DOMAIN a
    BY <1>1
  <2>3. QED
    BY <1>1, <2>1, <2>2 DEF OwnIn
<1>3. \A i \in OwnIn(a) : a[i].seq \in 1 .. top + 1 /\ a[i].epoch = 0
  BY <1>1, <1>2 DEF Sequenced
<1>4. ASSUME NEW s \in 1 .. top + 1 PROVE \E i \in OwnIn(a) : a[i].seq = s
  <2>1. CASE s = top + 1
    BY <1>1, <1>2, <2>1
  <2>2. CASE s # top + 1
    <3>1. s \in 1 .. top
      BY <2>2
    <3>2. QED
      BY <1>2, <3>1 DEF Sequenced
  <2>3. QED
    BY <2>1, <2>2
<1>5. ASSUME NEW i \in OwnIn(a), NEW j \in OwnIn(a), i < j PROVE a[i].seq < a[j].seq
  <2>1. i \in OwnIn(r)
    BY <1>1, <1>2, <1>5
  <2>2. CASE j = n
    <3>1. a[i].seq \in 1 .. top /\ a[j].seq = top + 1
      BY <1>1, <1>2, <2>1, <2>2 DEF Sequenced
    <3>2. QED
      BY <3>1
  <2>3. CASE j # n
    BY <1>2, <1>5, <2>1, <2>3 DEF Sequenced
  <2>4. QED
    BY <2>2, <2>3
<1>6. Sequenced(a, top + 1)
  BY <1>3, <1>4, <1>5 DEF Sequenced
<1>7. QED
  BY <1>6 DEF a

\* What enqueueSync makes of one message.
Staged(st) == DOMAIN st = {"recs", "known", "bad"} /\ st.bad \in BOOLEAN

\* It is refused, or a duplicate, or appended.
LEMMA EnqueueCases ==
    ASSUME NEW st, Staged(st), NEW m
    PROVE  LET new == Enqueue(st, m)
               verdict == ValidateProducer(st.known, m)
           IN  /\ Staged(new)
               /\ \/ new.recs = st.recs /\ new.known = st.known /\ new.bad
                  \/ ~st.bad /\ verdict = "duplicate" /\ new = st
                  \/ /\ ~st.bad /\ verdict \notin {"duplicate", "error"}
                     /\ new.recs = Append(st.recs, m) /\ new.known = Known(st.known, m) /\ ~new.bad
<1> DEFINE v == ValidateProducer(st.known, m)
           x == Append(st.recs, m)
           y == Known(st.known, m)
           n1 == [st EXCEPT !.bad = TRUE]
           n2 == [st EXCEPT !.recs = x, !.known = y]
<1>1. Enqueue(st, m) = IF st.bad \/ v = "error" THEN n1 ELSE IF v = "duplicate" THEN st ELSE n2
  BY DEF Enqueue
<1> HIDE DEF v, x, y
<1>2. Staged(n1) /\ n1.recs = st.recs /\ n1.known = st.known /\ n1.bad
  BY DEF Staged
<1>3. Staged(n2) /\ n2.recs = x /\ n2.known = y /\ n2.bad = st.bad
  BY DEF Staged
<1> HIDE DEF n1, n2
<1>4. CASE st.bad \/ v = "error"
  BY <1>1, <1>2, <1>4 DEF v, x, y
<1>5. CASE ~st.bad /\ v = "duplicate"
  BY <1>1, <1>5 DEF v, x, y
<1>6. CASE ~st.bad /\ v \notin {"duplicate", "error"}
  BY <1>1, <1>3, <1>6 DEF v, x, y
<1>7. QED
  BY <1>4, <1>5, <1>6 DEF Staged

\* The producer's own message: unless it is refused, the log then has it.
LEMMA OwnStored ==
    ASSUME NEW st, Staged(st), IsASeq(st.recs), Remembers(st.known, st.recs), NEW x \in Nat \ {0}
    PROVE  LET new == Enqueue(st, PlainRecord(x))
           IN  /\ Staged(new) /\ IsASeq(new.recs) /\ Remembers(new.known, new.recs)
               /\ Top(st.known) <= Top(new.known)
               /\ ~new.bad => x <= Top(new.known)
<1> DEFINE m == PlainRecord(x)
           new == Enqueue(st, m)
           k == st.known
           r == st.recs
<1>1. m.pid = 0 /\ m.epoch = 0 /\ m.seq = x /\ Pid = 0 /\ NoPid = -1
  BY DEF PlainRecord, Record, Pid, NoPid
<1>2. /\ Staged(new)
      /\ \/ new.recs = r /\ new.known = k /\ new.bad
         \/ ~st.bad /\ ValidateProducer(k, m) = "duplicate" /\ new = st
         \/ /\ ~st.bad /\ ValidateProducer(k, m) \notin {"duplicate", "error"}
            /\ new.recs = Append(r, m) /\ new.known = Known(k, m) /\ ~new.bad
  BY EnqueueCases
<1>3. Top(k) \in Nat /\ Sequenced(r, Top(k)) /\ (Pid \in DOMAIN k => k[Pid].epoch = 0 /\ k[Pid].seq > 0)
  BY DEF Remembers
<1> HIDE DEF m, new
<1>4. CASE new.recs = r /\ new.known = k /\ new.bad
  BY <1>2, <1>3, <1>4 DEF new, m
<1>5. CASE ~st.bad /\ ValidateProducer(k, m) = "duplicate" /\ new = st
  <2>1. Pid \in DOMAIN k /\ x <= Top(k)
    BY <1>1, <1>3, <1>5 DEF ValidateProducer, Top
  <2>2. QED
    BY <1>2, <1>3, <1>5, <2>1 DEF new, m
<1>6. CASE /\ ~st.bad /\ ValidateProducer(k, m) \notin {"duplicate", "error"}
           /\ new.recs = Append(r, m) /\ new.known = Known(k, m) /\ ~new.bad
  <2>1. x = Top(k) + 1
    BY <1>1, <1>3, <1>6 DEF ValidateProducer, Top
  <2>2. Pid \in DOMAIN Known(k, m) /\ Known(k, m)[Pid] = [epoch |-> 0, seq |-> x]
    BY <1>1 DEF Known
  <2>3. Top(new.known) = x /\ new.known[Pid].epoch = 0 /\ new.known[Pid].seq = x
    BY <1>6, <2>2 DEF Top
  <2>4. Sequenced(new.recs, x)
    BY <1>1, <1>3, <1>6, <2>1, SequencedNext
  <2>5. IsASeq(new.recs)
    BY <1>6, AppendAny
  <2>6. Remembers(new.known, new.recs)
    BY <2>3, <2>4 DEF Remembers
  <2>7. QED
    BY <1>2, <1>3, <2>1, <2>3, <2>5, <2>6 DEF new, m
<1>7. QED
  BY <1>2, <1>4, <1>5, <1>6

\* Somebody else's message.
LEMMA OtherStored ==
    ASSUME NEW st, Staged(st), IsASeq(st.recs), NEW m, m.pid # Pid
    PROVE  LET new == Enqueue(st, m)
           IN  /\ Staged(new) /\ IsASeq(new.recs)
               /\ Remembers(st.known, st.recs) => Remembers(new.known, new.recs)
               /\ Top(st.known) = Top(new.known)
<1> DEFINE new == Enqueue(st, m)
           k == st.known
           r == st.recs
<1>1. /\ Staged(new)
      /\ \/ new.recs = r /\ new.known = k
         \/ new.recs = Append(r, m) /\ new.known = Known(k, m)
  BY EnqueueCases
<1> HIDE DEF new
<1>2. CASE new.recs = r /\ new.known = k
  BY <1>1, <1>2 DEF new
<1>3. CASE new.recs = Append(r, m) /\ new.known = Known(k, m)
  <2>1. /\ Pid \in DOMAIN Known(k, m) <=> Pid \in DOMAIN k
        /\ Pid \in DOMAIN k => Known(k, m)[Pid] = k[Pid]
    BY DEF Known
  <2>2. Top(new.known) = Top(k)
    BY <1>3, <2>1 DEF Top
  <2>3. IsASeq(new.recs)
    BY <1>3, AppendAny
  <2>4. ASSUME Remembers(k, r) PROVE Remembers(new.known, new.recs)
    <3>1. Top(k) \in Nat /\ Sequenced(r, Top(k)) /\ (Pid \in DOMAIN k => k[Pid].epoch = 0 /\ k[Pid].seq > 0)
      BY <2>4 DEF Remembers
    <3>2. Sequenced(new.recs, Top(k))
      BY <1>3, <3>1, SequencedOther
    <3>3. Pid \in DOMAIN new.known => new.known[Pid].epoch = 0 /\ new.known[Pid].seq > 0
      BY <1>3, <2>1, <3>1
    <3>4. QED
      BY <2>2, <3>1, <3>2, <3>3 DEF Remembers
  <2>5. QED
    BY <1>1, <2>2, <2>3, <2>4 DEF new
<1>4. QED
  BY <1>1, <1>2, <1>3

\* A batch, or the front of one: unless part of it is refused, the log then has it.
LEMMA BatchStored ==
    ASSUME NEW p, IsASeq(log[p]), Remembers(producers[p], log[p]), NEW batch, NEW n \in Nat, NEW b \in Nat,
           \A i \in 1 .. n : batch[i] = b + i
    PROVE  LET st == EnqueueAll(p, [i \in 1 .. n |-> PlainRecord(batch[i])])
           IN  /\ Staged(st) /\ IsASeq(st.recs) /\ Remembers(st.known, st.recs)
               /\ Top(producers[p]) <= Top(st.known)
               /\ ~st.bad => n = 0 \/ b + n <= Top(st.known)
<1> DEFINE msgs == [i \in 1 .. n |-> PlainRecord(batch[i])]
           Good(s, i) == /\ Staged(s) /\ IsASeq(s.recs) /\ Remembers(s.known, s.recs)
                         /\ Top(producers[p]) <= Top(s.known)
                         /\ ~s.bad => i = 0 \/ b + i <= Top(s.known)
<1>1. Len(msgs) = n /\ \A i \in 1 .. n : msgs[i] = PlainRecord(b + i)
  <2>1. msgs \in Seq({PlainRecord(batch[i]) : i \in 1 .. n})
    OBVIOUS
  <2>2. Len(msgs) = n
    OBVIOUS
  <2>3. QED
    BY <2>2
<1> HIDE DEF msgs
<1>2. PICK st : /\ st[0] = [recs |-> log[p], known |-> producers[p], bad |-> FALSE]
                /\ \A i \in 1 .. n : st[i] = Enqueue(st[i - 1], msgs[i])
                /\ EnqueueAll(p, msgs) = st[n]
  BY <1>1, EnqueueRun
<1>3. Good(st[0], 0)
  <2>1. Top(producers[p]) \in Nat
    BY DEF Remembers
  <2>2. Staged(st[0]) /\ st[0].recs = log[p] /\ st[0].known = producers[p]
    BY <1>2 DEF Staged
  <2>3. QED
    BY <2>1, <2>2
<1>4. ASSUME NEW i \in 0 .. n - 1, Good(st[i], i) PROVE Good(st[i + 1], i + 1)
  <2>1. i + 1 \in 1 .. n /\ (i + 1) - 1 = i /\ b + (i + 1) \in Nat \ {0}
    OBVIOUS
  <2>2. st[i + 1] = Enqueue(st[i], PlainRecord(b + (i + 1)))
    BY <1>1, <1>2, <2>1
  <2> DEFINE new == Enqueue(st[i], PlainRecord(b + (i + 1)))
             x == b + (i + 1)
  <2>3. /\ Staged(new) /\ IsASeq(new.recs) /\ Remembers(new.known, new.recs)
        /\ Top(st[i].known) <= Top(new.known)
        /\ ~new.bad => x <= Top(new.known)
    BY <1>4, <2>1, OwnStored
  <2>4. Top(producers[p]) \in Nat /\ Top(st[i].known) \in Nat /\ Top(new.known) \in Nat
    BY <1>4, <2>3 DEF Remembers
  <2> HIDE DEF new
  <2>5. Top(producers[p]) <= Top(new.known)
    BY <1>4, <2>3, <2>4
  <2>6. QED
    BY <2>2, <2>3, <2>5 DEF new
<1> DEFINE S == {i \in 0 .. n : Good(st[i], i)}
<1> HIDE DEF Good
<1>5. 0 \in S /\ \A i \in 0 .. n - 1 : i \in S => i + 1 \in S
  BY <1>3, <1>4
<1>6. 0 .. n \subseteq S
  <2> HIDE DEF S
  <2>1. QED
    BY <1>5, UpTo
<1>7. Good(st[n], n)
  BY <1>6
<1>8. QED
  BY <1>2, <1>7 DEF Good, msgs

\* The scan at start finds what the table had.
LEMMA RecoverRemembers ==
    ASSUME NEW recs, IsASeq(recs), NEW known, Remembers(known, recs)
    PROVE  Remembers(RecoverProducers(recs), recs) /\ Top(RecoverProducers(recs)) = Top(known)
<1> DEFINE own == OwnIn(recs)
           n == Len(recs)
           Latest(k, i) == \/ Pid \notin DOMAIN k /\ \A j \in own : j > i
                         \/ \E x \in own : /\ x <= i /\ \A j \in own : j <= i => j <= x
                                           /\ Pid \in DOMAIN k /\ k[Pid].epoch = recs[x].epoch
                                           /\ k[Pid].seq = recs[x].seq
<1>1. n \in Nat /\ DOMAIN recs = 1 .. n
  BY AnySeq DEF IsASeq
<1>2. own \subseteq 1 .. n /\ \A i \in 1 .. n : i \in own <=> recs[i].pid = Pid
  BY <1>1 DEF OwnIn
<1>3. PICK st : /\ st[0] = << >>
                /\ \A i \in 1 .. n : st[i] = Known(st[i - 1], recs[i])
                /\ RecoverProducers(recs) = st[n]
  BY <1>1, RecoverRun
<1> HIDE DEF own, n
<1>4. Latest(st[0], 0)
  BY <1>2, <1>3
<1>5. ASSUME NEW i \in 0 .. n - 1, Latest(st[i], i) PROVE Latest(st[i + 1], i + 1)
  <2> DEFINE k == st[i]
             m == recs[i + 1]
             new == st[i + 1]
  <2>1. i + 1 \in 1 .. n /\ (i + 1) - 1 = i /\ i \in Nat
    BY <1>1
  <2>2. new = Known(k, m)
    BY <1>3, <2>1
  <2>3. CASE m.pid = Pid
    <3>1. i + 1 \in own /\ i + 1 <= i + 1 /\ \A j \in own : j <= i + 1 => j <= i + 1
      BY <1>2, <2>1, <2>3
    <3>2. Pid \in DOMAIN new /\ new[Pid].epoch = m.epoch /\ new[Pid].seq = m.seq
      BY <2>2, <2>3 DEF Known, Pid, NoPid
    <3>3. QED
      BY <3>1, <3>2
  <2>4. CASE m.pid # Pid
    <3>1. /\ Pid \in DOMAIN new <=> Pid \in DOMAIN k
          /\ Pid \in DOMAIN k => new[Pid] = k[Pid]
      BY <2>2, <2>4 DEF Known
    <3>2. i + 1 \notin own
      BY <1>2, <2>1, <2>4
    <3>3. \A j \in own : (j > i => j > i + 1) /\ (j <= i + 1 => j <= i) /\ (j <= i => j <= i + 1)
      BY <1>1, <1>2, <2>1, <3>2
    <3>4. CASE Pid \notin DOMAIN k /\ \A j \in own : j > i
      BY <3>1, <3>3, <3>4
    <3>5. CASE \E x \in own : /\ x <= i /\ \A j \in own : j <= i => j <= x
                              /\ Pid \in DOMAIN k /\ k[Pid].epoch = recs[x].epoch
                              /\ k[Pid].seq = recs[x].seq
      BY <3>1, <3>3, <3>5
    <3>6. QED
      BY <1>5, <3>4, <3>5
  <2>5. QED
    BY <2>3, <2>4
<1> DEFINE S == {i \in 0 .. n : Latest(st[i], i)}
<1>6. 0 .. n \subseteq S
  <2> HIDE DEF Latest
  <2>1. 0 \in S /\ \A i \in 0 .. n - 1 : i \in S => i + 1 \in S
    BY <1>1, <1>4, <1>5
  <2> HIDE DEF S
  <2>2. QED
    BY <1>1, <2>1, UpTo
<1>7. Latest(st[n], n)
  <2> HIDE DEF Latest
  <2>1. QED
    BY <1>1, <1>6
<1> DEFINE k == st[n]
<1>8. Top(known) \in Nat /\ Sequenced(recs, Top(known))
  BY DEF Remembers
<1>9. Top(k) = Top(known) /\ (Pid \in DOMAIN k => k[Pid].epoch = 0 /\ k[Pid].seq > 0)
  <2>1. CASE Pid \notin DOMAIN k /\ \A j \in own : j > n
    <3>1. own = {}
      BY <1>1, <1>2, <2>1
    <3>2. \A s \in 1 .. Top(known) : \E i \in own : recs[i].seq = s
      BY <1>8 DEF Sequenced, own
    <3>3. Top(known) = 0
      BY <1>8, <3>1, <3>2
    <3>4. QED
      BY <2>1, <3>3 DEF Top
  <2>2. ASSUME NEW x \in own, \A j \in own : j <= n => j <= x,
               Pid \in DOMAIN k, k[Pid].epoch = recs[x].epoch, k[Pid].seq = recs[x].seq
        PROVE  Top(k) = Top(known) /\ k[Pid].epoch = 0 /\ k[Pid].seq > 0
    <3>1. recs[x].seq \in 1 .. Top(known) /\ recs[x].epoch = 0
      BY <1>8 DEF Sequenced, own
    <3>2. PICK y \in own : recs[y].seq = Top(known)
      <4>1. Top(known) \in 1 .. Top(known)
        BY <1>8, <3>1
      <4>2. QED
        BY <1>8, <4>1 DEF Sequenced, own
    <3>3. y <= x /\ x \in Nat /\ y \in Nat
      BY <1>1, <1>2, <2>2
    <3>4. y < x => recs[y].seq < recs[x].seq
      BY <1>8 DEF Sequenced, own
    <3>5. recs[x].seq = Top(known)
      BY <1>8, <3>1, <3>2, <3>3, <3>4
    <3>6. QED
      BY <2>2, <3>1, <3>5 DEF Top
  <2>3. QED
    BY <1>7, <2>1, <2>2
<1>10. QED
  BY <1>3, <1>8, <1>9 DEF Remembers

\* Every element of u comes from s or t.
From(u, s, t) == \A n \in DOMAIN u : (\E i \in DOMAIN s : u[n] = s[i]) \/ \E i \in DOMAIN t : u[n] = t[i]

\* Concatenation of any sequences.
LEMMA ConcatAny ==
    ASSUME NEW s, IsASeq(s), NEW t, IsASeq(t), NEW u, u = s \o t
    PROVE  /\ IsASeq(u) /\ Len(u) = Len(s) + Len(t) /\ From(u, s, t)
           /\ t # << >> => u[Len(s) + Len(t)] = t[Len(t)]
<1> DEFINE S == Range(s) \cup Range(t)
<1>1. s \in Seq(Range(s)) /\ t \in Seq(Range(t))
  BY DEF IsASeq
<1>2. s \in Seq(S)
  BY <1>1
<1>3. t \in Seq(S)
  BY <1>1
<1> HIDE DEF S
<1>4. u \in Seq(S) /\ Len(u) = Len(s) + Len(t)
  BY <1>2, <1>3
<1>5. PICK a \in Nat, b \in Nat : a = Len(s) /\ b = Len(t) /\ DOMAIN s = 1 .. a /\ DOMAIN t = 1 .. b
  BY <1>2, <1>3
<1>6. \A n \in 1 .. a + b : u[n] = IF n <= a THEN s[n] ELSE t[n - a]
  BY <1>2, <1>3, <1>5
<1>7. DOMAIN u = 1 .. a + b /\ IsASeq(u)
  BY <1>4, <1>5, AnySeq
<1>8. ASSUME NEW n \in DOMAIN u PROVE (\E i \in DOMAIN s : u[n] = s[i]) \/ \E i \in DOMAIN t : u[n] = t[i]
  <2>1. CASE n <= a
    BY <1>5, <1>6, <1>7, <2>1
  <2>2. CASE ~(n <= a)
    <3>1. n - a \in 1 .. b /\ u[n] = t[n - a]
      BY <1>6, <1>7, <2>2
    <3>2. QED
      BY <1>5, <3>1
  <2>3. QED
    BY <2>1, <2>2
<1>9. ASSUME t # << >> PROVE u[a + b] = t[b]
  <2>1. b # 0
    BY <1>3, <1>5, <1>9
  <2>2. a + b \in 1 .. a + b /\ ~(a + b <= a) /\ (a + b) - a = b
    BY <2>1
  <2>3. QED
    BY <1>6, <2>2
<1>10. QED
  BY <1>4, <1>5, <1>7, <1>8, <1>9 DEF From

\* Head and Tail of any sequence.
LEMMA TailAny ==
    ASSUME NEW s, IsASeq(s), s # << >>
    PROVE  /\ Len(s) \in Nat \ {0} /\ Head(s) = s[1] /\ 1 \in DOMAIN s /\ Len(s) \in DOMAIN s
           /\ IsASeq(Tail(s)) /\ Len(Tail(s)) = Len(s) - 1
           /\ \A n \in DOMAIN Tail(s) : n + 1 \in DOMAIN s /\ Tail(s)[n] = s[n + 1]
           /\ Len(s) > 1 => Tail(s) # << >> /\ Tail(s)[Len(Tail(s))] = s[Len(s)]
<1> DEFINE S == Range(s)
           u == Tail(s)
<1>1. s \in Seq(S)
  BY DEF IsASeq
<1> HIDE DEF S
<1>2. u \in Seq(S) /\ Len(u) = Len(s) - 1 /\ Len(s) \in Nat \ {0} /\ Head(s) = s[1]
  BY <1>1
<1>3. \A n \in 1 .. Len(s) - 1 : u[n] = s[n + 1]
  BY <1>1
<1>4. DOMAIN s = 1 .. Len(s) /\ DOMAIN u = 1 .. Len(s) - 1 /\ IsASeq(u)
  BY <1>1, <1>2, AnySeq
<1> HIDE DEF u
<1>5. Len(s) > 1 => u # << >> /\ u[Len(u)] = s[Len(s)]
  <2>1. SUFFICES ASSUME Len(s) > 1 PROVE u # << >> /\ u[Len(u)] = s[Len(s)]
    OBVIOUS
  <2>2. Len(s) - 1 \in 1 .. Len(s) - 1 /\ (Len(s) - 1) + 1 = Len(s)
    BY <1>2, <2>1
  <2>3. QED
    BY <1>2, <1>3, <1>4, <2>2
<1>6. QED
  BY <1>2, <1>3, <1>4, <1>5 DEF u

-----------------------------------------------------------------------------
(* The work of END_TXN: no transaction writes in the producer's name, or   *)
(* events of the aggregate.                                                *)

Harmless(x) == x.do = "write" => x.rec.pid # Pid /\ x.rec.key # Aggregate
HarmlessSeq(s) == IsASeq(s) /\ \A n \in DOMAIN s : Harmless(s[n])

TxnOk(tx) ==
    DOMAIN tx = {"state", "epoch", "ready", "expired", "msgs", "offs"} /\ IsASeq(tx.msgs)
TxnsOk(all) == all = [i \in Ids |-> all[i]] /\ \A i \in Ids : TxnOk(all[i])
TailOk(t) == t = << >> \/ \E i, tx : t = <<i, tx>> /\ TxnOk(tx)

JobOk(j) ==
    /\ DOMAIN j = {"todo", "by"} /\ HarmlessSeq(j.todo)
    /\ j = NoJob \/ (j.todo # << >> /\ j.todo[Len(j.todo)].do = "decide")

JobsOk == job = [i \in Ids |-> job[i]] /\ \A i \in Ids : JobOk(job[i])
TxnInv == TxnsOk(txns) /\ TxnsOk(journal) /\ TailOk(tail) /\ JobsOk

\* Ids are positive, so that they and their negations are not the producer's.
LEMMA IdsPositive ==
    ASSUME NEW i \in Ids
    PROVE  i \in Nat /\ i # 0
<1>1. CASE ~Does("shared")
  BY <1>1, TxnConstants DEF Ids
<1>2. CASE Does("shared")
  <2>1. PICK x \in TxnClients : \A y \in TxnClients : x <= y
    BY LeastNat, TxnConstants
  <2>2. Min(TxnClients) \in TxnClients
    BY <2>1 DEF Min
  <2>3. QED
    BY <1>2, <2>2, TxnConstants DEF Ids
<1>3. QED
  BY <1>1, <1>2

\* Concatenation.
LEMMA HarmlessConcat ==
    ASSUME NEW s, HarmlessSeq(s), NEW t, HarmlessSeq(t)
    PROVE  HarmlessSeq(s \o t)
<1>1. IsASeq(s) /\ IsASeq(t)
  BY DEF HarmlessSeq
<1>2. PICK u : u = s \o t
  OBVIOUS
<1>3. IsASeq(u)
  BY <1>1, <1>2, ConcatAny
<1>4. From(u, s, t)
  BY <1>1, <1>2, ConcatAny
<1>5. HarmlessSeq(u)
  BY <1>3, <1>4 DEF HarmlessSeq, From
<1>6. QED
  BY <1>2, <1>5

\* Todo writes records of the transaction's id and markers of its marker id, and ends with the decision.
LEMMA TodoHarmless ==
    ASSUME NEW i \in Ids, NEW tx, TxnOk(tx)
    PROVE  HarmlessSeq(Todo(i, tx)) /\ Todo(i, tx) # << >> /\ Todo(i, tx)[Len(Todo(i, tx))].do = "decide"
<1>1. i \in Nat /\ i # 0 /\ i # Pid /\ MarkerPid(i) # Pid
  BY IdsPositive DEF Pid, MarkerPid
<1>2. ASSUME NEW w \in {"apply", "offsets", "decide"} PROVE HarmlessSeq(Do(w)) /\ Do(w)[1].do = w /\ Len(Do(w)) = 1
  <2>1. Do(w) = <<[do |-> w]>>
    BY DEF Do
  <2> DEFINE x == [do |-> w]
             s == <<x>>
  <2>2. x.do = w
    OBVIOUS
  <2> HIDE DEF x
  <2>3. s \in Seq({x}) /\ Len(s) = 1 /\ s[1] = x
    OBVIOUS
  <2> HIDE DEF s
  <2>4. IsASeq(s) /\ DOMAIN s = 1 .. 1
    BY <2>3, AnySeq
  <2>5. \A n \in DOMAIN s : s[n] = x
    BY <2>3, <2>4
  <2>6. HarmlessSeq(s)
    BY <1>2, <2>2, <2>4, <2>5 DEF HarmlessSeq, Harmless
  <2>7. QED
    BY <2>1, <2>2, <2>3, <2>6 DEF s, x
<1>3. HarmlessSeq(Records(i, tx))
  <2>1. DOMAIN tx.msgs = 1 .. Len(tx.msgs) /\ Len(tx.msgs) \in Nat
    BY AnySeq DEF TxnOk, IsASeq
  <2> DEFINE n == Len(tx.msgs)
             f(k) == [do |-> "write", p |-> tx.msgs[k][1],
                      rec |-> Record(i, tx.epoch, tx.msgs[k][2], i, FALSE)]
             s == [k \in 1 .. n |-> f(k)]
  <2>2. Records(i, tx) = s
    BY <2>1 DEF Records
  <2>3. \A k \in 1 .. n : Harmless(f(k))
    BY <1>1 DEF Harmless, Record, None, Aggregate
  <2> HIDE DEF f
  <2>4. s \in Seq({f(k) : k \in 1 .. n}) /\ Len(s) = n
    BY <2>1
  <2>5. \A k \in 1 .. n : s[k] = f(k)
    OBVIOUS
  <2> HIDE DEF s
  <2>6. IsASeq(s) /\ DOMAIN s = 1 .. n
    BY <2>4, AnySeq
  <2>7. QED
    BY <2>2, <2>3, <2>5, <2>6 DEF HarmlessSeq
<1>4. HarmlessSeq(Markers(i, tx))
  <2> DEFINE touched == {m[1] : m \in Range(tx.msgs)}
             n == Cardinality(touched)
             f(k) == [do |-> "write",
                      p |-> CHOOSE p \in touched : Cardinality({q \in touched : q < p}) = k - 1,
                      rec |-> Record(MarkerPid(i), tx.epoch, 1, i, TRUE)]
             s == [k \in 1 .. n |-> f(k)]
  <2>1. Markers(i, tx) = s
    BY DEF Markers
  <2>2. n \in Nat
    <3>1. DOMAIN tx.msgs = 1 .. Len(tx.msgs) /\ Len(tx.msgs) \in Nat
      BY AnySeq DEF TxnOk, IsASeq
    <3> DEFINE g == [k \in 1 .. Len(tx.msgs) |-> tx.msgs[k][1]]
    <3>2. g \in Surjection(1 .. Len(tx.msgs), touched)
      BY <3>1 DEF Surjection, Range
    <3>3. IsFiniteSet(1 .. Len(tx.msgs))
      BY <3>1, FS_Interval
    <3>4. QED
      BY <3>2, <3>3, FS_Surjection, FS_CardinalityType
  <2>3. \A k \in 1 .. n : Harmless(f(k))
    BY <1>1 DEF Harmless, Record, None, Aggregate
  <2> HIDE DEF f, n
  <2>4. s \in Seq({f(k) : k \in 1 .. n}) /\ Len(s) = n
    BY <2>2
  <2>5. \A k \in 1 .. n : s[k] = f(k)
    OBVIOUS
  <2> HIDE DEF s
  <2>6. IsASeq(s) /\ DOMAIN s = 1 .. n
    BY <2>4, AnySeq
  <2>7. QED
    BY <2>1, <2>3, <2>5, <2>6 DEF HarmlessSeq
<1>5. HarmlessSeq(Offsets(tx))
  <2>1. HarmlessSeq(<< >>)
    <3>1. << >> \in Seq({}) /\ DOMAIN << >> = {}
      OBVIOUS
    <3>2. QED
      BY <3>1, AnySeq DEF HarmlessSeq
  <2>2. QED
    BY <1>2, <2>1 DEF Offsets
<1> DEFINE front == Do("apply") \o Records(i, tx) \o Markers(i, tx) \o Offsets(tx)
           last == Do("decide")
<1>6. HarmlessSeq(front)
  BY <1>2, <1>3, <1>4, <1>5, HarmlessConcat
<1>7. HarmlessSeq(last) /\ last[1].do = "decide" /\ Len(last) = 1 /\ last # << >>
  BY <1>2 DEF Do
<1>8. Todo(i, tx) = front \o last
  BY DEF Todo
<1> HIDE DEF front, last
<1>9. HarmlessSeq(front \o last)
  BY <1>6, <1>7, HarmlessConcat
<1>10. Len(front \o last) = Len(front) + 1 /\ (front \o last)[Len(front) + 1] = last[1] /\ Len(front) \in Nat
  <2>1. IsASeq(front) /\ IsASeq(last)
    BY <1>6, <1>7 DEF HarmlessSeq
  <2>2. Len(front \o last) = Len(front) + Len(last) /\ (front \o last)[Len(front) + Len(last)] = last[Len(last)]
    BY <1>7, <2>1, ConcatAny
  <2>3. Len(front) \in Nat
    BY <2>1, AnySeq DEF IsASeq
  <2>4. QED
    BY <1>7, <2>2, <2>3
<1>11. front \o last # << >>
  BY <1>10
<1>12. QED
  BY <1>7, <1>8, <1>9, <1>10, <1>11

\* Advance drops the task at the head.
LEMMA AdvanceOk ==
    ASSUME NEW j, JobOk(j), j # NoJob, Head(j.todo).do # "decide"
    PROVE  JobOk([j EXCEPT !.todo = Tail(@)]) /\ j.todo # << >> /\ Harmless(Head(j.todo))
<1> DEFINE s == j.todo
           new == [j EXCEPT !.todo = Tail(@)]
<1>1. s # << >> /\ s[Len(s)].do = "decide" /\ HarmlessSeq(s) /\ IsASeq(s) /\ DOMAIN j = {"todo", "by"}
  BY DEF JobOk, HarmlessSeq
<1>2. /\ Len(s) \in Nat \ {0} /\ Head(s) = s[1] /\ 1 \in DOMAIN s
      /\ IsASeq(Tail(s)) /\ \A n \in DOMAIN Tail(s) : n + 1 \in DOMAIN s /\ Tail(s)[n] = s[n + 1]
      /\ Len(s) > 1 => Tail(s) # << >> /\ Tail(s)[Len(Tail(s))] = s[Len(s)]
  BY <1>1, TailAny
<1>3. Len(s) > 1
  BY <1>1, <1>2
<1>4. DOMAIN new = {"todo", "by"} /\ new.todo = Tail(s)
  BY <1>1
<1>5. HarmlessSeq(Tail(s))
  BY <1>1, <1>2 DEF HarmlessSeq
<1>6. Harmless(Head(s))
  BY <1>1, <1>2 DEF HarmlessSeq
<1> HIDE DEF new
<1>7. JobOk(new)
  BY <1>1, <1>2, <1>3, <1>4, <1>5 DEF JobOk
<1>8. QED
  BY <1>1, <1>6, <1>7 DEF new

\* No work.
LEMMA NoJobOk == JobOk(NoJob)
<1>1. << >> \in Seq({}) /\ DOMAIN << >> = {} /\ NoJob.todo = << >> /\ DOMAIN NoJob = {"todo", "by"}
  BY DEF NoJob
<1>2. HarmlessSeq(<< >>)
  BY <1>1, AnySeq DEF HarmlessSeq
<1>3. QED
  BY <1>1, <1>2 DEF JobOk

\* The job of one id changes.
LEMMA OneJob ==
    ASSUME JobsOk, NEW i, NEW j, JobOk(j), SetJob(i, j), work' = work
    PROVE  JobsOk'
<1>1. job' = [job EXCEPT ![i] = j] /\ Ids' = Ids
  BY DEF SetJob, Ids, Does
<1>2. job' = [k \in Ids |-> job'[k]] /\ \A k \in Ids : job'[k] = IF k = i THEN j ELSE job[k]
  BY <1>1 DEF JobsOk
<1>3. \A k \in Ids : JobOk(job'[k])
  BY <1>2 DEF JobsOk
<1>4. QED
  BY <1>1, <1>2, <1>3 DEF JobsOk

\* The snapshots that the manager makes of a transaction.
LEMMA SnapshotsOk ==
    ASSUME NEW tx, TxnOk(tx), NEW m, NEW g
    PROVE  /\ TxnOk(NoTxn) /\ TxnOk(NewSession(tx)) /\ TxnOk(Begin(tx)) /\ TxnOk(AddMessage(tx, m))
           /\ TxnOk(AddOffsets(tx, g)) /\ TxnOk(PrepareCommit(tx)) /\ TxnOk(BuildCommitted(tx))
           /\ TxnOk(BuildAborted(tx)) /\ TxnOk(Tombstone(tx)) /\ TxnOk(Stripped(tx))
<1>1. IsASeq(<< >>)
  <2>1. << >> \in Seq({})
    OBVIOUS
  <2>2. QED
    BY <2>1, AnySeq
<1>2. TxnOk(NoTxn)
  BY <1>1 DEF TxnOk, NoTxn
<1>3. IsASeq(Append(tx.msgs, m))
  BY AppendAny DEF TxnOk
<1> DEFINE e == << >>
           a == Append(tx.msgs, m)
<1> HIDE DEF e, a
<1>4. TxnOk(NewSession(tx)) /\ TxnOk(Begin(tx))
  BY <1>2 DEF TxnOk, NewSession, Begin
<1>5. TxnOk(AddMessage(tx, m))
  BY <1>3 DEF TxnOk, AddMessage
<1>6. TxnOk(AddOffsets(tx, g)) /\ TxnOk(PrepareCommit(tx)) /\ TxnOk(BuildCommitted(tx)) /\ TxnOk(BuildAborted(tx))
  BY DEF TxnOk, AddOffsets, PrepareCommit, BuildCommitted, BuildAborted
<1>7. TxnOk(Tombstone(tx)) /\ TxnOk(Stripped(tx))
  <2>1. ASSUME NEW x, IsASeq(x)
        PROVE  /\ TxnOk([tx EXCEPT !.expired = TRUE, !.ready = FALSE, !.msgs = x, !.offs = 0])
               /\ TxnOk([tx EXCEPT !.msgs = x, !.offs = 0])
    BY <2>1 DEF TxnOk
  <2>2. QED
    BY <1>1, <2>1 DEF Tombstone, Stripped
<1>8. QED
  BY <1>2, <1>4, <1>5, <1>6, <1>7

\* syncTransactionState, whether it succeeds or not.
LEMMA SyncOk ==
    ASSUME TxnInv, NEW i \in Ids, NEW tx, TxnOk(tx), NEW left, TxnOk(left), work' = work,
           Sync(i, tx) \/ SyncFails(i, tx, left)
    PROVE  TxnsOk(txns)' /\ TxnsOk(journal)' /\ TailOk(tail)'
<1>1. Ids' = Ids
  BY DEF Ids, Does
<1>2. ASSUME NEW x, TxnOk(x) PROVE TxnsOk([txns EXCEPT ![i] = x])
  BY <1>2 DEF TxnInv, TxnsOk
<1>3. ASSUME NEW f, TxnsOk(f), f = txns' PROVE TxnsOk(txns)'
  BY <1>1, <1>3 DEF TxnsOk
<1>4. ASSUME NEW f, TxnsOk(f), f = journal' PROVE TxnsOk(journal)'
  BY <1>1, <1>4 DEF TxnsOk
<1>5. CASE Sync(i, tx)
  <2>1. txns' = [txns EXCEPT ![i] = tx] /\ journal' = [journal EXCEPT ![i] = tx] /\ tail' = << >>
    BY <1>5 DEF Sync
  <2>2. TxnsOk([txns EXCEPT ![i] = tx])
    BY <1>2
  <2>3. TxnsOk([journal EXCEPT ![i] = tx])
    BY DEF TxnInv, TxnsOk
  <2>4. QED
    BY <1>3, <1>4, <2>1, <2>2, <2>3 DEF TailOk
<1>6. CASE SyncFails(i, tx, left)
  <2>1. txns' = [txns EXCEPT ![i] = left] /\ journal' = journal /\ tail' \in {<< >>, <<i, tx>>}
    BY <1>6 DEF SyncFails
  <2>2. TxnsOk([txns EXCEPT ![i] = left]) /\ TxnsOk(journal)
    BY <1>2 DEF TxnInv
  <2>3. TailOk(tail)'
    BY <2>1 DEF TailOk
  <2>4. QED
    BY <1>3, <1>4, <2>1, <2>2, <2>3
<1>7. QED
  BY <1>5, <1>6

\* The commands of a transactional producer, and the rebalance.
LEMMA TxnCommandOk ==
    ASSUME TxnInv, TxnCommand \/ Rebalance
    PROVE  TxnInv' /\ work' = work /\ UNCHANGED <<logVars, producerVars>>
<1>1. \A c \in TxnClients : IdOf(c) \in Ids
  BY DEF IdOf, Ids
<1>2. \A i \in Ids : TxnOk(txns[i])
  BY DEF TxnInv, TxnsOk
<1>3. ASSUME work' = work, UNCHANGED job PROVE JobsOk'
  BY <1>3 DEF JobsOk, TxnInv, Ids, Does
<1>4. ASSUME work' = work, UNCHANGED <<txns, journal, tail, job>> PROVE TxnInv'
  BY <1>4 DEF TxnInv, TxnsOk, TailOk, JobsOk, Ids, Does
<1>5. ASSUME NEW c \in TxnClients, InitProducerID(c) PROVE TxnInv' /\ work' = work /\ UNCHANGED <<logVars, producerVars>>
  <2> DEFINE i == IdOf(c)
             tx == NewSession(txns[i])
  <2>1. /\ Sync(i, tx) \/ SyncFails(i, tx, txns[i])
        /\ UNCHANGED <<work, logVars, producerVars, job>>
    BY <1>5 DEF InitProducerID
  <2>2. TxnOk(tx)
    BY <1>1, <1>2, SnapshotsOk
  <2>3. QED
    BY <1>1, <1>2, <1>3, <2>1, <2>2, SyncOk DEF TxnInv
<1>6. ASSUME NEW c \in TxnClients, BeginTxn(c) PROVE TxnInv' /\ work' = work /\ UNCHANGED <<logVars, producerVars>>
  <2> DEFINE i == IdOf(c)
             tx == Begin(txns[i])
  <2>1. /\ Sync(i, tx) \/ SyncFails(i, tx, txns[i])
        /\ UNCHANGED <<work, logVars, producerVars, job>>
    BY <1>6 DEF BeginTxn
  <2>2. TxnOk(tx)
    BY <1>1, <1>2, SnapshotsOk
  <2>3. QED
    BY <1>1, <1>2, <1>3, <2>1, <2>2, SyncOk DEF TxnInv
<1>7. ASSUME NEW c \in TxnClients, SendOffsets(c) PROVE TxnInv' /\ work' = work /\ UNCHANGED <<logVars, producerVars>>
  <2> DEFINE i == IdOf(c)
             tx == AddOffsets(txns[i], group.gen)
  <2>1. /\ Sync(i, tx) \/ SyncFails(i, tx, txns[i])
        /\ UNCHANGED <<work, logVars, producerVars, job>>
    BY <1>7 DEF SendOffsets
  <2>2. TxnOk(tx)
    BY <1>1, <1>2, SnapshotsOk
  <2>3. QED
    BY <1>1, <1>2, <1>3, <2>1, <2>2, SyncOk DEF TxnInv
<1>8. ASSUME NEW c \in TxnClients, NEW p \in Partitions, TxnPublish(c, p)
      PROVE  TxnInv' /\ work' = work /\ UNCHANGED <<logVars, producerVars>>
  <2> DEFINE i == IdOf(c)
             m == <<p, 1 + Cardinality({x \in client[c].sent : x[1] = p})>>
             tx == AddMessage(txns[i], m)
  <2>1. /\ Sync(i, tx) \/ SyncFails(i, tx, txns[i])
        /\ UNCHANGED <<work, logVars, producerVars, job>>
    BY <1>8 DEF TxnPublish
  <2>2. TxnOk(tx)
    BY <1>1, <1>2, SnapshotsOk
  <2>3. QED
    BY <1>1, <1>2, <1>3, <2>1, <2>2, SyncOk DEF TxnInv
<1>9. ASSUME NEW c \in TxnClients, EndTxnAbort(c) PROVE TxnInv' /\ work' = work /\ UNCHANGED <<logVars, producerVars>>
  <2> DEFINE i == IdOf(c)
             tx == IF MayAbort(txns[i]) THEN BuildAborted(txns[i]) ELSE txns[i]
  <2>1. /\ Sync(i, tx) \/ SyncFails(i, tx, txns[i]) \/ UNCHANGED <<txns, journal, tail>>
        /\ UNCHANGED <<work, logVars, producerVars, job>>
    BY <1>9 DEF EndTxnAbort
  <2>2. TxnOk(tx)
    BY <1>1, <1>2, SnapshotsOk
  <2>3. CASE UNCHANGED <<txns, journal, tail>>
    BY <1>4, <2>1, <2>3
  <2>4. CASE Sync(i, tx) \/ SyncFails(i, tx, txns[i])
    BY <1>1, <1>2, <1>3, <2>1, <2>2, <2>4, SyncOk DEF TxnInv
  <2>5. QED
    BY <2>1, <2>3, <2>4
<1>10. ASSUME NEW c \in TxnClients, EndTxnCommit(c) PROVE TxnInv' /\ work' = work /\ UNCHANGED <<logVars, producerVars>>
  <2> DEFINE i == IdOf(c)
             tx == PrepareCommit(txns[i])
  <2>1. /\ \/ Sync(i, tx) /\ Prepared(i, tx, c)
           \/ SyncFails(i, tx, tx) /\ UNCHANGED job
        /\ UNCHANGED <<work, logVars, producerVars>>
    BY <1>10 DEF EndTxnCommit
  <2>2. TxnOk(tx) /\ i \in Ids
    BY <1>1, <1>2, SnapshotsOk
  <2> HIDE DEF tx, i
  <2>3. TxnsOk(txns)' /\ TxnsOk(journal)' /\ TailOk(tail)'
    BY <2>1, <2>2, SyncOk
  <2>4. CASE Prepared(i, tx, c)
    <3> DEFINE s == Todo(i, tx)
               j == [todo |-> s, by |-> c]
    <3>1. SetJob(i, j)
      BY <2>4 DEF Prepared
    <3>2. HarmlessSeq(s) /\ s # << >> /\ s[Len(s)].do = "decide"
      BY <2>2, TodoHarmless
    <3> HIDE DEF s
    <3>3. j.todo = s /\ DOMAIN j = {"todo", "by"}
      OBVIOUS
    <3> HIDE DEF j
    <3>4. JobOk(j)
      BY <3>2, <3>3 DEF JobOk
    <3>5. JobsOk'
      BY <2>1, <3>1, <3>4, OneJob DEF TxnInv
    <3>6. QED
      BY <2>1, <2>3, <3>5 DEF TxnInv
  <2>5. CASE UNCHANGED job
    BY <1>3, <2>1, <2>3, <2>5 DEF TxnInv
  <2>6. QED
    BY <2>1, <2>4, <2>5
<1>11. ASSUME NEW c \in TxnClients, BeginRefused(c) \/ EndTxnCommitted(c) \/ TxnRefused(c)
       PROVE  TxnInv' /\ work' = work /\ UNCHANGED <<logVars, producerVars>>
  BY <1>4, <1>11 DEF BeginRefused, EndTxnCommitted, TxnRefused
<1>12. ASSUME Rebalance PROVE TxnInv' /\ work' = work /\ UNCHANGED <<logVars, producerVars>>
  BY <1>4, <1>12 DEF Rebalance
<1>13. QED
  BY <1>5, <1>6, <1>7, <1>8, <1>9, <1>10, <1>11, <1>12 DEF TxnCommand

\* END_TXN's and recovery's work on an id, and its expiry; only PublishNext writes to a log.
LEMMA TxnWorkOk ==
    ASSUME TxnInv, NEW i \in Ids, TxnApply(i) \/ ApplyFails(i) \/ RecoverTransaction(i) \/ PruneExpired(i)
    PROVE  /\ TxnInv' /\ work' = work /\ UNCHANGED producerVars
           /\ UNCHANGED logVars \/ \E p, m : m.pid # Pid /\ m.key # Aggregate /\ Store(p, EnqueueAll(p, <<m>>))
<1>1. ASSUME work' = work, UNCHANGED <<txns, journal, tail>> PROVE (TxnsOk(txns) /\ TxnsOk(journal) /\ TailOk(tail))'
  BY <1>1 DEF TxnInv, TxnsOk, TailOk, Ids, Does
<1>2. ASSUME work' = work, NEW what \in {"apply", "write", "offsets"}, Doing(i) = what
      PROVE  Harmless(Head(job[i].todo)) /\ (Advance(i) => JobsOk') /\ Head(job[i].todo).do = what
  <2>1. job[i] # NoJob /\ Head(job[i].todo).do = what /\ JobOk(job[i])
    BY <1>2 DEF Doing, Locked, None, TxnInv, JobsOk
  <2>2. JobOk([job[i] EXCEPT !.todo = Tail(@)]) /\ Harmless(Head(job[i].todo))
    BY <1>2, <2>1, AdvanceOk
  <2>3. Advance(i) => JobsOk'
    BY <1>2, <2>2, OneJob DEF Advance, TxnInv
  <2>4. QED
    BY <2>1, <2>2, <2>3
<1>3. ASSUME work' = work, GiveUpJob(i) PROVE JobsOk'
  BY <1>3, OneJob, NoJobOk DEF GiveUpJob, TxnInv
<1>4. CASE ApplyTransaction(i)
  BY <1>1, <1>2, <1>3, <1>4 DEF ApplyTransaction, TxnInv
<1>5. CASE PublishNext(i)
  <2> DEFINE next == Head(job[i].todo)
             st == EnqueueAll(next.p, <<next.rec>>)
  <2>1. Doing(i) = "write" /\ Store(next.p, st) /\ (GiveUpJob(i) \/ Advance(i))
        /\ UNCHANGED <<work, producerVars, txns, journal, tail>>
    BY <1>5 DEF PublishNext
  <2>2. Harmless(next) /\ (Advance(i) => JobsOk') /\ next.do = "write"
    BY <1>2, <2>1
  <2>3. next.rec.pid # Pid /\ next.rec.key # Aggregate
    BY <2>2 DEF Harmless
  <2>4. QED
    BY <1>1, <1>3, <2>1, <2>2, <2>3 DEF TxnInv
<1>6. CASE CommitTxnOffsets(i)
  BY <1>1, <1>2, <1>3, <1>6 DEF CommitTxnOffsets, TxnInv
<1>7. CASE DecideCommitted(i)
  <2> DEFINE tx == BuildCommitted(txns[i])
  <2>1. GiveUpJob(i) /\ (Sync(i, tx) \/ SyncFails(i, tx, txns[i])) /\ UNCHANGED <<work, logVars, producerVars>>
    BY <1>7 DEF DecideCommitted
  <2>2. TxnOk(tx) /\ TxnOk(txns[i])
    BY SnapshotsOk DEF TxnInv, TxnsOk
  <2>3. QED
    BY <1>3, <2>1, <2>2, SyncOk DEF TxnInv
<1>8. CASE ApplyFails(i)
  BY <1>1, <1>3, <1>8 DEF ApplyFails, TxnInv
<1>9. CASE RecoverTransaction(i)
  <2> DEFINE s == Todo(i, txns[i])
             j == [todo |-> s, by |-> Recovery]
  <2>1. SetJob(i, j) /\ UNCHANGED <<work, logVars, producerVars, txns, journal, tail>>
    BY <1>9 DEF RecoverTransaction, Prepared
  <2>2. HarmlessSeq(s) /\ s # << >> /\ s[Len(s)].do = "decide"
    BY TodoHarmless DEF TxnInv, TxnsOk
  <2> HIDE DEF s
  <2>3. j.todo = s /\ DOMAIN j = {"todo", "by"}
    OBVIOUS
  <2> HIDE DEF j
  <2>4. JobOk(j)
    BY <2>2, <2>3 DEF JobOk
  <2>5. QED
    BY <1>1, <2>1, <2>4, OneJob DEF TxnInv
<1>10. CASE PruneExpired(i)
  <2>1. /\ txns' = [txns EXCEPT ![i] = Pruned(@)] /\ journal' = txns' /\ tail' = << >>
        /\ UNCHANGED <<work, logVars, producerVars, job>>
    BY <1>10 DEF PruneExpired
  <2>2. TxnOk(Pruned(txns[i]))
    BY SnapshotsOk DEF TxnInv, TxnsOk, Pruned
  <2>3. Ids' = Ids
    BY <2>1 DEF Ids, Does
  <2>4. TxnsOk(txns)' /\ TxnsOk(journal)' /\ TailOk(tail)'
    BY <2>1, <2>2, <2>3 DEF TxnInv, TxnsOk, TailOk
  <2>5. JobsOk'
    BY <2>1, <2>3 DEF TxnInv, JobsOk
  <2>6. QED
    BY <2>1, <2>4, <2>5 DEF TxnInv
<1>11. QED
  BY <1>4, <1>5, <1>6, <1>7, <1>8, <1>9, <1>10 DEF TxnApply

-----------------------------------------------------------------------------
(* The lifecycle commands: as long as the topic's generation stays, so do  *)
(* its records, and the producer table is what it was or has been read     *)
(* from them.                                                              *)

TopicFields == {"reg", "fenced", "gen", "parts"}
LifeShape(s) ==
    /\ DOMAIN s = {"topic", "manifest", "files", "log", "producers", "index", "snap", "registered",
                   "goff", "txns", "journal", "tail"}
    /\ DOMAIN s.topic = TopicFields

Rescanned == [p \in Partitions |-> RecoverProducers(log[p])]

LifeInv(s) ==
    /\ LifeShape(s) /\ s.topic.gen \in Nat /\ s.topic.gen >= topic.gen
    /\ s.log = [p \in Partitions |-> s.log[p]] /\ \A p \in Partitions : IsASeq(s.log[p])
    /\ s.producers = [p \in Partitions |-> s.producers[p]]
    /\ s.topic.gen = topic.gen => s.log = log /\ s.producers \in {producers, Rescanned}
    /\ TxnsOk(s.txns) /\ TxnsOk(s.journal) /\ TailOk(s.tail)

TopicOk == DOMAIN topic = TopicFields /\ topic.gen \in Nat \ {0}
LogsOk ==
    /\ log = [p \in Partitions |-> log[p]] /\ \A p \in Partitions : IsASeq(log[p])
    /\ producers = [p \in Partitions |-> producers[p]]

\* A step that leaves the records, the producer table and the journal alone.
Untouched(s, x) ==
    /\ LifeShape(x) /\ x.topic.gen = s.topic.gen /\ x.log = s.log /\ x.producers = s.producers
    /\ x.txns = s.txns /\ x.journal = s.journal /\ x.tail = s.tail

\* It keeps the invariant.
LEMMA UntouchedOk ==
    ASSUME NEW s, LifeInv(s), NEW x, Untouched(s, x)
    PROVE  LifeInv(x)
  BY DEF LifeInv, Untouched

\* RemoveStorage begins another generation.
LEMMA RemoveOk ==
    ASSUME NEW s, LifeInv(s), topic.gen \in Nat, NEW kept, NEW k
    PROVE  LifeInv(RemoveStorage(s, kept, k))
<1> DEFINE a == [p \in Partitions |-> IF p \in kept.logs THEN s.log[p] ELSE << >>]
           b == [p \in Partitions |-> << >>]
           c == IF k THEN s.snap ELSE NoSnapshots
           x == [s EXCEPT !.topic.reg = FALSE, !.topic.gen = @ + 1, !.files = kept, !.log = a,
                          !.producers = b, !.index = Closed, !.snap = c]
<1>1. RemoveStorage(s, kept, k) = x
  BY DEF RemoveStorage
<1>2. IsASeq(<< >>)
  <2>1. << >> \in Seq({})
    OBVIOUS
  <2>2. QED
    BY <2>1, AnySeq
<1>3. a = [p \in Partitions |-> a[p]] /\ \A p \in Partitions : IsASeq(a[p])
  BY <1>2 DEF LifeInv
<1>4. b = [p \in Partitions |-> b[p]]
  OBVIOUS
<1> HIDE DEF a, b, c
<1>5. LifeShape(s) /\ s.topic.gen \in Nat /\ s.topic.gen >= topic.gen
  BY DEF LifeInv
<1>6. LifeShape(x)
  BY <1>5 DEF LifeShape, TopicFields
<1>7. x.topic.gen = s.topic.gen + 1
  BY <1>5 DEF LifeShape, TopicFields
<1>8. x.log = a /\ x.producers = b /\ x.txns = s.txns /\ x.journal = s.journal /\ x.tail = s.tail
  BY <1>5 DEF LifeShape, TopicFields
<1> HIDE DEF x
<1>9. x.topic.gen \in Nat /\ x.topic.gen >= topic.gen /\ x.topic.gen # topic.gen
  BY <1>5, <1>7
<1>10. LifeInv(x)
  BY <1>3, <1>4, <1>6, <1>8, <1>9 DEF LifeInv
<1>11. QED
  BY <1>1, <1>10

\* Every step of a lifecycle command.
StepNames == {"close", "commit", "fence", "unregister", "remove", "open", "groups", "journal",
              "complete", "logs", "define", "alter", "default"}

\* They keep the invariant.
LEMMA StepOk ==
    ASSUME NEW s, LifeInv(s), topic.gen \in Nat, NEW what \in StepNames
    PROVE  LifeInv(Step(s, what))
<1>1. LifeShape(s)
  BY DEF LifeInv
<1>2. CASE what = "close"
  <2>1. Untouched(s, CloseStream(s))
    BY <1>1 DEF Untouched, LifeShape, TopicFields, CloseStream
  <2>2. QED
    BY <1>2, <2>1, UntouchedOk DEF Step
<1>3. CASE what = "commit"
  <2>1. Untouched(s, CommitTruncation(s))
    BY <1>1 DEF Untouched, LifeShape, TopicFields, CommitTruncation
  <2>2. QED
    BY <1>3, <2>1, UntouchedOk DEF Step
<1>4. CASE what = "fence"
  <2>1. Untouched(s, FenceTruncation(s))
    BY <1>1 DEF Untouched, LifeShape, TopicFields, FenceTruncation
  <2>2. QED
    BY <1>4, <2>1, UntouchedOk DEF Step
<1>5. CASE what = "unregister"
  <2>1. Untouched(s, Unregister(s))
    BY <1>1 DEF Untouched, LifeShape, TopicFields, Unregister
  <2>2. QED
    BY <1>5, <2>1, UntouchedOk DEF Step
<1>6. CASE what = "remove"
  BY <1>6, RemoveOk DEF Step
<1>7. CASE what = "open"
  <2> DEFINE b == [p \in Partitions |-> RecoverProducers(s.log[p])]
             c == s.manifest.parts
             x == [s EXCEPT !.topic.reg = TRUE, !.topic.parts = c, !.files.logs = @ \cup (1 .. c),
                            !.producers = b]
  <2>1. Step(s, what) = x
    BY <1>7 DEF Step, Open
  <2>2. b = [p \in Partitions |-> b[p]] /\ (s.log = log => b = Rescanned)
    BY DEF Rescanned
  <2> HIDE DEF b, c
  <2>3. LifeShape(x)
    BY <1>1 DEF LifeShape, TopicFields
  <2>4. /\ x.topic.gen = s.topic.gen /\ x.log = s.log /\ x.producers = b
        /\ x.txns = s.txns /\ x.journal = s.journal /\ x.tail = s.tail
    BY <1>1 DEF LifeShape, TopicFields
  <2> HIDE DEF x
  <2>5. LifeInv(x)
    BY <2>2, <2>3, <2>4 DEF LifeInv
  <2>6. QED
    BY <2>1, <2>5
<1>8. CASE what = "groups"
  <2>1. Untouched(s, DeleteGroups(s))
    BY <1>1 DEF Untouched, LifeShape, TopicFields, DeleteGroups
  <2>2. QED
    BY <1>8, <2>1, UntouchedOk DEF Step
<1>9. CASE what = "journal"
  <2> DEFINE a == [i \in Ids |-> Stripped(s.txns[i])]
             e == << >>
             x == [s EXCEPT !.txns = a, !.journal = a, !.tail = e]
  <2>1. Step(s, what) = x
    BY <1>9 DEF Step, PruneReferences
  <2>2. TxnsOk(a)
    BY SnapshotsOk DEF LifeInv, TxnsOk
  <2>3. TailOk(e)
    BY DEF TailOk
  <2> HIDE DEF a, e
  <2>4. LifeShape(x)
    BY <1>1 DEF LifeShape, TopicFields
  <2>5. /\ x.topic = s.topic /\ x.log = s.log /\ x.producers = s.producers
        /\ x.txns = a /\ x.journal = a /\ x.tail = e
    BY <1>1 DEF LifeShape, TopicFields
  <2> HIDE DEF x
  <2>6. LifeInv(x)
    BY <2>2, <2>3, <2>4, <2>5 DEF LifeInv
  <2>7. QED
    BY <2>1, <2>6
<1>10. CASE what = "complete"
  <2>1. Untouched(s, CompleteTruncation(s))
    BY <1>1 DEF Untouched, LifeShape, TopicFields, CompleteTruncation, WriteMarker
  <2>2. QED
    BY <1>10, <2>1, UntouchedOk DEF Step
<1>11. CASE what = "logs"
  <2>1. Untouched(s, CreateLogs(s))
    BY <1>1 DEF Untouched, LifeShape, TopicFields, CreateLogs
  <2>2. QED
    BY <1>11, <2>1, UntouchedOk DEF Step
<1>12. CASE what = "define"
  <2> DEFINE c == [rev |-> 1, epoch |-> 1, parts |-> NumPartitions, gen |-> s.topic.gen + 1]
             x == [s EXCEPT !.manifest = c, !.topic.gen = @ + 1]
  <2>1. Step(s, what) = x
    BY <1>12 DEF Step, Define
  <2> HIDE DEF c
  <2>2. LifeShape(x)
    BY <1>1 DEF LifeShape, TopicFields
  <2>3. x.topic.gen = s.topic.gen + 1
    BY <1>1 DEF LifeShape, TopicFields
  <2>4. /\ x.log = s.log /\ x.producers = s.producers
        /\ x.txns = s.txns /\ x.journal = s.journal /\ x.tail = s.tail
    BY <1>1 DEF LifeShape, TopicFields
  <2> HIDE DEF x
  <2>5. x.topic.gen \in Nat /\ x.topic.gen >= topic.gen /\ x.topic.gen # topic.gen
    BY <2>3 DEF LifeInv
  <2>6. LifeInv(x)
    BY <2>2, <2>4, <2>5 DEF LifeInv
  <2>7. QED
    BY <2>1, <2>6
<1>13. CASE what = "alter"
  <2>1. Untouched(s, Alter(s))
    BY <1>1 DEF Untouched, LifeShape, TopicFields, Alter
  <2>2. QED
    BY <1>13, <2>1, UntouchedOk DEF Step
<1>14. CASE what = "default"
  <2>1. Untouched(s, RegisterDefault(s))
    BY <1>1 DEF Untouched, LifeShape, TopicFields, RegisterDefault
  <2>2. QED
    BY <1>14, <2>1, UntouchedOk DEF Step
<1>15. QED
  BY <1>2, <1>3, <1>4, <1>5, <1>6, <1>7, <1>8, <1>9, <1>10, <1>11, <1>12, <1>13, <1>14 DEF StepNames

\* So does what an interrupted step leaves.
LEMMA PartlyOk ==
    ASSUME NEW s, LifeInv(s), topic.gen \in Nat, NEW what, NEW x \in Partly(s, what)
    PROVE  LifeInv(x)
<1>1. LifeShape(s)
  BY DEF LifeInv
<1>2. ASSUME NEW l PROVE LifeInv([s EXCEPT !.files.logs = @ \cup l])
  <2>1. Untouched(s, [s EXCEPT !.files.logs = @ \cup l])
    BY <1>1 DEF Untouched, LifeShape, TopicFields
  <2>2. QED
    BY <2>1, UntouchedOk
<1>3. CASE what = "remove"
  <2>1. \E left : x = RemoveStorage(s, left.files, left.snap)
    BY <1>3 DEF Partly
  <2>2. QED
    BY <2>1, RemoveOk
<1>4. CASE what \in {"logs", "open"}
  <2>1. \E l : x = [s EXCEPT !.files.logs = @ \cup l]
    BY <1>4 DEF Partly
  <2>2. QED
    BY <1>2, <2>1
<1>5. CASE what \notin {"remove", "logs", "open"}
  BY <1>5 DEF Partly
<1>6. QED
  BY <1>3, <1>4, <1>5

\* And a run of steps.
LEMMA RunOk ==
    ASSUME NEW s, LifeInv(s), topic.gen \in Nat, NEW steps \in Seq(StepNames)
    PROVE  LifeInv(Run(s, steps))
<1> DEFINE n == Len(steps)
<1>1. n \in Nat /\ \A i \in 1 .. n : steps[i] \in StepNames
  OBVIOUS
<1>2. PICK st : st[0] = s /\ (\A i \in 1 .. n : st[i] = Step(st[i - 1], steps[i])) /\ Run(s, steps) = st[n]
  BY <1>1, StepRun
<1> HIDE DEF n
<1> DEFINE S == {i \in 0 .. n : LifeInv(st[i])}
<1>3. 0 \in S
  BY <1>1, <1>2
<1>4. ASSUME NEW i \in 0 .. n - 1, i \in S PROVE i + 1 \in S
  <2>1. i + 1 \in 1 .. n /\ (i + 1) - 1 = i /\ i + 1 \in 0 .. n
    BY <1>1
  <2>2. st[i + 1] = Step(st[i], steps[i + 1]) /\ steps[i + 1] \in StepNames
    BY <1>1, <1>2, <2>1
  <2>3. LifeInv(st[i + 1])
    BY <1>4, <2>2, StepOk
  <2>4. QED
    BY <2>1, <2>3
<1>5. 0 .. n \subseteq S
  <2> HIDE DEF S
  <2>1. QED
    BY <1>1, <1>3, <1>4, UpTo
<1>6. QED
  BY <1>1, <1>2, <1>5

\* What a lifecycle command leaves.
LifeStep ==
    /\ LogsOk' /\ TopicOk' /\ TxnInv' /\ UNCHANGED <<work, producerVars>>
    /\ topic'.gen >= topic.gen
    /\ topic'.gen = topic.gen => log' = log /\ producers' \in {producers, Rescanned}

\* Each one, whether it ends, is killed or fails.
LEMMA PerformOk ==
    ASSUME TopicOk, LogsOk, TxnInv, NEW op, NEW steps \in Seq(StepNames), NEW then, Perform(op, steps, then)
    PROVE  LifeStep
<1>1. topic.gen \in Nat /\ topic.gen # 0
  BY DEF TopicOk
<1>2. LifeInv(Now)
  <2>1. /\ Now.topic = topic /\ Now.log = log /\ Now.producers = producers /\ Now.txns = txns
        /\ Now.journal = journal /\ Now.tail = tail
    BY DEF Now
  <2>2. LifeShape(Now)
    <3>1. DOMAIN Now = {"topic", "manifest", "files", "log", "producers", "index", "snap", "registered",
                        "goff", "txns", "journal", "tail"}
      BY DEF Now
    <3>2. QED
      BY <2>1, <3>1 DEF LifeShape, TopicOk
  <2>3. QED
    BY <1>1, <2>1, <2>2 DEF LifeInv, LogsOk, TxnInv
<1>3. ASSUME NEW s, LifeInv(s), Become(s) PROVE LifeStep
  <2>1. /\ topic' = s.topic /\ log' = s.log /\ producers' = s.producers /\ txns' = s.txns
        /\ journal' = s.journal /\ tail' = s.tail
    BY <1>3 DEF Become
  <2>2. UNCHANGED <<work, producerVars, job>>
    BY DEF Perform
  <2>3. Ids' = Ids /\ Partitions' = Partitions
    BY <2>2 DEF Ids, Does, Partitions
  <2>4. TxnInv'
    BY <1>3, <2>1, <2>2, <2>3 DEF TxnInv, TxnsOk, TailOk, JobsOk, LifeInv
  <2>5. TopicOk'
    <3>1. DOMAIN s.topic = TopicFields /\ s.topic.gen \in Nat /\ s.topic.gen >= topic.gen
      BY <1>3 DEF LifeInv, LifeShape
    <3>2. s.topic.gen # 0
      BY <1>1, <3>1
    <3>3. QED
      BY <2>1, <3>1, <3>2 DEF TopicOk
  <2>6. LogsOk'
    BY <1>3, <2>1, <2>3 DEF LogsOk, LifeInv
  <2>7. topic'.gen >= topic.gen /\ (topic'.gen = topic.gen => log' = log /\ producers' \in {producers, Rescanned})
    BY <1>3, <2>1 DEF LifeInv
  <2>8. QED
    BY <2>2, <2>4, <2>5, <2>6, <2>7 DEF LifeStep
<1>4. CASE Become(Run(Now, steps))
  BY <1>1, <1>2, <1>3, <1>4, RunOk
<1>5. ASSUME NEW n \in DOMAIN steps, NEW s \in Partly(Run(Now, SubSeq(steps, 1, n - 1)), steps[n]),
             Become(s) \/ Become(Run(s, Rest(op, steps[n])))
      PROVE  LifeStep
  <2> DEFINE front == SubSeq(steps, 1, n - 1)
  <2>1. front \in Seq(StepNames)
    OBVIOUS
  <2>2. Rest(op, steps[n]) \in Seq(StepNames)
    <3>1. <<"groups", "journal", "complete">> \in Seq(StepNames) /\ <<"complete">> \in Seq(StepNames)
          /\ << >> \in Seq(StepNames)
      BY DEF StepNames
    <3>2. Rest(op, steps[n]) \in {<<"groups", "journal", "complete">>, <<"complete">>, << >>}
      BY DEF Rest
    <3>3. QED
      BY <3>1, <3>2
  <2> HIDE DEF front
  <2>3. LifeInv(Run(Now, front))
    BY <1>1, <1>2, <2>1, RunOk
  <2>4. LifeInv(s)
    BY <1>1, <1>5, <2>3, PartlyOk DEF front
  <2>5. LifeInv(Run(s, Rest(op, steps[n])))
    BY <1>1, <2>2, <2>4, RunOk
  <2>6. QED
    BY <1>3, <1>5, <2>4, <2>5
<1>6. \/ Become(Run(Now, steps))
      \/ \E n \in DOMAIN steps : \E s \in Partly(Run(Now, SubSeq(steps, 1, n - 1)), steps[n]) :
            Become(s) \/ Become(Run(s, Rest(op, steps[n])))
  BY DEF Perform
<1>7. QED
  BY <1>4, <1>5, <1>6

\* The commands and startup are runs of these steps.
LEMMA LifecycleOk ==
    ASSUME TopicOk, LogsOk, TxnInv, LifecycleStep
    PROVE  LifeStep
<1>1. /\ <<"close", "commit", "remove", "open", "groups", "journal", "complete">> \in Seq(StepNames)
      /\ <<"close", "remove", "open", "groups", "journal", "complete">> \in Seq(StepNames)
      /\ <<"logs", "define", "open", "default">> \in Seq(StepNames)
      /\ <<"logs", "alter", "open", "default">> \in Seq(StepNames)
      /\ <<"close", "unregister", "remove">> \in Seq(StepNames) /\ <<"groups", "journal">> \in Seq(StepNames)
      /\ << >> \in Seq(StepNames) /\ <<"remove", "fence", "open">> \in Seq(StepNames)
      /\ <<"open">> \in Seq(StepNames)
  BY DEF StepNames
<1>2. CASE Truncate
  BY <1>1, <1>2, PerformOk DEF Truncate
<1>3. CASE Delete
  <2> DEFINE a == IF topic.reg THEN <<"close", "unregister", "remove">> ELSE << >>
             b == <<"groups", "journal">>
  <2>1. a \in Seq(StepNames) /\ b \in Seq(StepNames)
    BY <1>1
  <2>2. Perform("delete", a \o b, "up")
    BY <1>3 DEF Delete
  <2> HIDE DEF a, b
  <2>3. a \o b \in Seq(StepNames)
    BY <2>1
  <2>4. QED
    BY <2>2, <2>3, PerformOk
<1>4. CASE Create
  BY <1>1, <1>4, PerformOk DEF Create
<1>5. CASE Grow
  BY <1>1, <1>5, PerformOk DEF Grow
<1>6. CASE RestoreTopics
  <2> DEFINE a == IF manifest = NoTopic THEN << >>
                  ELSE IF ResetPending THEN <<"remove", "fence", "open">> ELSE <<"open">>
  <2>1. a \in Seq(StepNames)
    BY <1>1
  <2>2. Perform("restore", a, "recover")
    BY <1>6 DEF RestoreTopics
  <2> HIDE DEF a
  <2>3. QED
    BY <2>1, <2>2, PerformOk
<1>7. CASE RecoverPendingTruncations
  BY <1>1, <1>7, PerformOk DEF RecoverPendingTruncations
<1>8. QED
  BY <1>2, <1>3, <1>4, <1>5, <1>6, <1>7 DEF LifecycleStep

-----------------------------------------------------------------------------
(* The invariant of the broker and its producer.                           *)

\* What the producer takes as acknowledged, and what a batch that has been answered holds, is in the log.
Held(p) ==
    /\ Remembers(producers[p], log[p])
    /\ \A s \in lane[p].acked : s <= Top(producers[p])
    /\ (lane[p].at = "ack" /\ lane[p].conn) => \A s \in Range(lane[p].batch) : s <= Top(producers[p])
LogInv == (~Does("ttl") /\ topic.gen = 1) => \A p \in Partitions : Held(p)

BrokerInv == ProducerInv /\ TxnInv /\ TopicOk /\ LogsOk /\ LogInv

\* Initially nothing is sent, stored or staged.
LEMMA InitOk ==
    ASSUME Init
    PROVE  BrokerInv
<1>1. << >> \in Seq({}) /\ << >> \in Seq(Nat) /\ Len(<< >>) = 0 /\ DOMAIN << >> = {}
  OBVIOUS
<1>2. IsASeq(<< >>)
  BY <1>1, AnySeq
<1> DEFINE l == [buf |-> << >>, batch |-> << >>, next |-> 0, tries |-> 0, at |-> "idle",
                 conn |-> TRUE, behind |-> FALSE, drain |-> FALSE, upto |-> 0, drained |-> 0,
                 acked |-> {}, dropped |-> {}]
<1>3. LaneInv(l) /\ l.acked = {} /\ l.at = "idle"
  <2>1. l \in LaneRecs /\ Disposed(l) = {}
    BY <1>1 DEF LaneRecs, Disposed
  <2>2. Consistent(0, << >>, << >>, 0, {}, 0, 0)
    BY <1>1 DEF Consistent
  <2>3. QED
    BY <2>1, <2>2, LaneFrom
<1>4. lane = [p \in Partitions |-> l]
  BY DEF Init, ProducerInit
<1> HIDE DEF l
<1>5. ProducerInv
  BY <1>3, <1>4 DEF ProducerInv
<1>6. TxnInv
  <2>1. TxnOk(NoTxn)
    BY <1>2 DEF TxnOk, NoTxn
  <2>2. TxnsOk(txns) /\ TxnsOk(journal) /\ TailOk(tail)
    BY <2>1 DEF Init, TxnInit, TxnsOk, TailOk
  <2>3. JobsOk
    BY NoJobOk DEF Init, TxnInit, JobsOk
  <2>4. QED
    BY <2>2, <2>3 DEF TxnInv
<1>7. TopicOk
  BY DEF TopicOk, TopicFields, Init, LogInit
<1>8. LogsOk
  BY <1>2 DEF LogsOk, Init, LogInit
<1>9. ASSUME NEW p \in Partitions PROVE Held(p)
  <2>1. log[p] = << >> /\ producers[p] = << >> /\ lane[p] = l
    BY <1>4 DEF Init, LogInit
  <2>2. Top(<< >>) = 0 /\ Sequenced(<< >>, 0)
    BY <1>1 DEF Top, Sequenced, OwnIn
  <2>3. Remembers(<< >>, << >>)
    BY <1>1, <2>2 DEF Remembers
  <2>4. QED
    BY <1>3, <2>1, <2>2, <2>3 DEF Held
<1>10. QED
  BY <1>5, <1>6, <1>7, <1>8, <1>9 DEF BrokerInv, LogInv

\* The part of the invariant that is not about transactions.
RestInv == ProducerInv /\ TopicOk /\ LogsOk /\ LogInv

\* The transactions of a step that leaves them alone.
LEMMA TxnFrame ==
    ASSUME TxnInv, UNCHANGED <<work, txns, journal, tail, job>>
    PROVE  TxnInv'
  BY DEF TxnInv, TxnsOk, TailOk, JobsOk, Ids, Does

\* The lanes of a step that leaves them alone.
LEMMA LaneFrame ==
    ASSUME ProducerInv, UNCHANGED lane
    PROVE  LanesKept
<1>1. \A p \in Partitions : LaneKept(lane[p], lane[p])
  BY SameLane DEF ProducerInv
<1>2. QED
  BY <1>1 DEF LanesKept, ProducerInv

\* What LanesKept says of one partition whose log is the same or longer.
LEMMA HeldKept ==
    ASSUME NEW p \in Partitions, ProducerInv, LanesKept, Held(p),
           Remembers(producers'[p], log'[p]), Top(producers'[p]) = Top(producers[p])
    PROVE  Held(p)'
<1>1. LaneInv(lane[p]) /\ LaneInv(lane'[p]) /\ LaneKept(lane[p], lane'[p])
  BY DEF ProducerInv, LanesKept, LaneKept
<1>2. \A s \in lane'[p].acked : s <= Top(producers[p])
  BY <1>1 DEF LaneKept, Held
<1>3. (lane'[p].at = "ack" /\ lane'[p].conn) => \A s \in Range(lane'[p].batch) : s <= Top(producers[p])
  BY <1>1 DEF LaneKept, Held
<1>4. Held(p)' <=> /\ Remembers(producers'[p], log'[p])
                   /\ \A s \in lane'[p].acked : s <= Top(producers'[p])
                   /\ (lane'[p].at = "ack" /\ lane'[p].conn) =>
                         \A s \in Range(lane'[p].batch) : s <= Top(producers'[p])
  BY DEF Held
<1>5. QED
  BY <1>2, <1>3, <1>4

\* Steps of the producer that the broker takes no part in.
LEMMA LanesOk ==
    ASSUME RestInv, LanesKept, UNCHANGED <<work, logVars>>
    PROVE  RestInv'
<1>1. ProducerInv'
  BY DEF LanesKept, LaneKept, ProducerInv
<1>2. TopicOk' /\ LogsOk'
  BY DEF RestInv, TopicOk, LogsOk, logVars
<1>3. ASSUME ~Does("ttl")', topic'.gen = 1, NEW p \in Partitions PROVE Held(p)'
  <2>1. Held(p) /\ ProducerInv
    BY <1>3 DEF RestInv, LogInv, Does, logVars
  <2>2. log' = log /\ producers' = producers /\ Remembers(producers[p], log[p])
    BY <2>1 DEF Held, logVars
  <2>3. QED
    BY <2>1, <2>2, HeldKept
<1>4. LogInv'
  BY <1>3 DEF LogInv
<1>5. QED
  BY <1>1, <1>2, <1>4 DEF RestInv

\* Whatever is enqueued, the log is a sequence.
LEMMA AnyStored ==
    ASSUME NEW p, IsASeq(log[p]), NEW msgs, Len(msgs) \in Nat
    PROVE  Staged(EnqueueAll(p, msgs)) /\ IsASeq(EnqueueAll(p, msgs).recs)
<1> DEFINE n == Len(msgs)
<1>1. PICK st : /\ st[0] = [recs |-> log[p], known |-> producers[p], bad |-> FALSE]
                /\ \A i \in 1 .. n : st[i] = Enqueue(st[i - 1], msgs[i])
                /\ EnqueueAll(p, msgs) = st[n]
  BY EnqueueRun
<1> HIDE DEF n
<1> DEFINE S == {i \in 0 .. n : Staged(st[i]) /\ IsASeq(st[i].recs)}
<1>2. n \in Nat
  BY DEF n
<1>3. 0 \in S
  <2>1. Staged(st[0]) /\ st[0].recs = log[p]
    BY <1>1 DEF Staged
  <2>2. QED
    BY <1>2, <2>1
<1>4. ASSUME NEW i \in 0 .. n - 1, i \in S PROVE i + 1 \in S
  <2>0. Staged(st[i]) /\ IsASeq(st[i].recs)
    BY <1>4
  <2>1. i + 1 \in 1 .. n /\ (i + 1) - 1 = i /\ i + 1 \in 0 .. n
    BY <1>2
  <2>2. st[i + 1] = Enqueue(st[i], msgs[i + 1])
    BY <1>1, <2>1
  <2> DEFINE new == Enqueue(st[i], msgs[i + 1])
  <2>3. Staged(new) /\ (new.recs = st[i].recs \/ new.recs = Append(st[i].recs, msgs[i + 1]))
    BY <2>0, EnqueueCases
  <2> HIDE DEF new
  <2>4. IsASeq(new.recs)
    <3>1. IsASeq(Append(st[i].recs, msgs[i + 1]))
      BY <2>0, AppendAny
    <3>2. QED
      BY <2>0, <2>3, <3>1
  <2>5. QED
    BY <2>1, <2>2, <2>3, <2>4 DEF new
<1>5. 0 .. n \subseteq S
  <2> HIDE DEF S
  <2>1. QED
    BY <1>2, <1>3, <1>4, UpTo
<1>6. QED
  BY <1>1, <1>2, <1>5

\* The broker handles a batch, whole or in part.
LEMMA BatchOk ==
    ASSUME RestInv, NEW p \in Partitions, NEW n \in 0 .. Len(lane[p].batch), NEW st,
           st = EnqueueAll(p, [i \in 1 .. n |-> PlainRecord(lane[p].batch[i])]), Store(p, st),
           NEW conn \in BOOLEAN, conn => n = Len(lane[p].batch) /\ ~st.bad,
           SetLane(p, [lane[p] EXCEPT !.at = "ack", !.conn = conn]), work' = work
    PROVE  RestInv'
<1> DEFINE l == lane[p]
           m == [l EXCEPT !.at = "ack", !.conn = conn]
<1>1. LaneInv(l) /\ l.batch \in Seq(Nat) /\ Len(l.batch) \in Nat /\ Base(l) \in Nat
      /\ Sent(l) = Base(l) + Len(l.batch)
  BY LaneFacts DEF RestInv, ProducerInv
<1>2. LaneInv(m) /\ m.acked = l.acked /\ m.batch = l.batch /\ m.conn = conn
  BY <1>1, HandledKeeps
<1>3. lane' = [q \in Partitions |-> IF q = p THEN m ELSE lane[q]]
  BY DEF SetLane, RestInv, ProducerInv
<1> HIDE DEF m
<1>4. ProducerInv'
  BY <1>2, <1>3 DEF RestInv, ProducerInv
<1>5. /\ log' = [q \in Partitions |-> IF q = p THEN st.recs ELSE log[q]]
      /\ producers' = [q \in Partitions |-> IF q = p THEN st.known ELSE producers[q]]
      /\ topic' = topic
  BY DEF Store, RestInv, LogsOk
<1>6. n \in Nat /\ \A i \in 1 .. n : l.batch[i] = Base(l) + i
  BY <1>1 DEF LaneInv, Consistent
<1>7. IsASeq(log[p])
  BY DEF RestInv, LogsOk
<1>8. IsASeq(st.recs)
  <2> DEFINE msgs == [i \in 1 .. n |-> PlainRecord(l.batch[i])]
  <2>1. Len(msgs) \in Nat
    BY <1>6
  <2> HIDE DEF msgs
  <2>2. QED
    BY <1>7, <2>1, AnyStored DEF msgs
<1>9. LogsOk' /\ TopicOk'
  BY <1>5, <1>8 DEF RestInv, LogsOk, TopicOk
<1>10. ASSUME ~Does("ttl")', topic'.gen = 1, NEW q \in Partitions PROVE Held(q)'
  <2>1. Held(q)
    BY <1>5, <1>10 DEF RestInv, LogInv, Does
  <2>2. CASE q # p
    BY <1>3, <1>5, <2>1, <2>2 DEF Held
  <2>3. CASE q = p
    <3>1. Remembers(producers[p], log[p]) /\ \A s \in l.acked : s <= Top(producers[p])
      BY <2>1, <2>3 DEF Held
    <3>2. /\ Staged(st) /\ Remembers(st.known, st.recs) /\ Top(producers[p]) <= Top(st.known)
          /\ ~st.bad => n = 0 \/ Base(l) + n <= Top(st.known)
      BY <1>1, <1>6, <1>7, <3>1, BatchStored
    <3>3. Top(producers[p]) \in Nat /\ Top(st.known) \in Nat
      BY <3>1, <3>2 DEF Remembers
    <3>4. \A s \in l.acked : s <= Top(st.known)
      <4>1. l.acked \subseteq Nat
        BY <1>1 DEF LaneInv, Consistent, Disposed
      <4>2. QED
        BY <3>1, <3>2, <3>3, <4>1
    <3>5. conn => \A s \in Range(l.batch) : s <= Top(st.known)
      <4>1. SUFFICES ASSUME conn, NEW i \in 1 .. Len(l.batch) PROVE l.batch[i] <= Top(st.known)
        BY <1>1 DEF Range
      <4>2. n = Len(l.batch) /\ ~st.bad
        BY <4>1
      <4>3. l.batch[i] = Base(l) + i /\ n # 0 /\ i <= n
        BY <1>1, <1>6, <4>2
      <4>4. QED
        BY <1>1, <1>6, <3>2, <3>3, <4>2, <4>3
    <3>6. lane'[p] = m /\ log'[p] = st.recs /\ producers'[p] = st.known
      BY <1>3, <1>5
    <3>7. QED
      BY <1>2, <2>3, <3>2, <3>4, <3>5, <3>6 DEF Held
  <2>4. QED
    BY <2>2, <2>3
<1>11. LogInv'
  BY <1>10 DEF LogInv
<1>12. QED
  BY <1>4, <1>9, <1>11 DEF RestInv

\* Somebody else's record is appended to a log.
LEMMA ForeignOk ==
    ASSUME RestInv, NEW p, NEW r, NEW k, work' = work, UNCHANGED <<topic, lane>>,
           log' = [log EXCEPT ![p] = r], producers' = [producers EXCEPT ![p] = k],
           p \in Partitions =>
              /\ IsASeq(r) /\ Top(k) = Top(producers[p])
              /\ Remembers(producers[p], log[p]) => Remembers(k, r)
    PROVE  RestInv'
<1>1. ProducerInv' /\ TopicOk'
  BY DEF RestInv, ProducerInv, TopicOk
<1>2. /\ log' = [q \in Partitions |-> IF q = p THEN r ELSE log[q]]
      /\ producers' = [q \in Partitions |-> IF q = p THEN k ELSE producers[q]]
  BY DEF RestInv, LogsOk
<1>3. LogsOk'
  BY <1>2 DEF RestInv, LogsOk
<1>4. LanesKept /\ ProducerInv
  BY LaneFrame DEF RestInv
<1>5. ASSUME ~Does("ttl")', topic'.gen = 1, NEW q \in Partitions PROVE Held(q)'
  <2>1. Held(q)
    BY <1>5 DEF RestInv, LogInv, Does
  <2>2. Remembers(producers[q], log[q])
    BY <2>1 DEF Held
  <2>3. Remembers(producers'[q], log'[q]) /\ Top(producers'[q]) = Top(producers[q])
    BY <1>2, <2>2
  <2>4. QED
    BY <1>4, <2>1, <2>3, HeldKept
<1>6. LogInv'
  BY <1>5 DEF LogInv
<1>7. QED
  BY <1>1, <1>3, <1>6 DEF RestInv

\* The producer's steps and faults.
LEMMA ProducerOk ==
    ASSUME RestInv, ProducerStep \/ ProducerFault, work' = work
    PROVE  RestInv'
<1>1. CASE ClientStep /\ UNCHANGED logVars
  BY <1>1, ClientSteps, LanesOk DEF RestInv
<1>2. ASSUME NEW p \in Partitions, HandleBatch(p) PROVE RestInv'
  <2> DEFINE b == lane[p].batch
             st == EnqueueAll(p, [i \in DOMAIN b |-> PlainRecord(b[i])])
             conn == lane[p].conn /\ ~st.bad
  <2>1. Store(p, st) /\ SetLane(p, [lane[p] EXCEPT !.at = "ack", !.conn = conn])
    BY <1>2 DEF HandleBatch
  <2>2. b \in Seq(Nat) /\ lane[p].conn \in BOOLEAN
    BY LaneFacts DEF RestInv, ProducerInv
  <2>3. DOMAIN b = 1 .. Len(b) /\ Len(b) \in 0 .. Len(b)
    BY <2>2
  <2>4. st = EnqueueAll(p, [i \in 1 .. Len(b) |-> PlainRecord(b[i])])
    BY <2>3
  <2>5. conn \in BOOLEAN /\ (conn => ~st.bad)
    OBVIOUS
  <2> HIDE DEF st, conn
  <2>6. QED
    BY <2>1, <2>3, <2>4, <2>5, BatchOk
<1>3. ASSUME NEW p \in Partitions, HandleBatchFails(p) PROVE RestInv'
  <2>1. PICK n \in 0 .. Len(lane[p].batch) - 1 :
          Store(p, EnqueueAll(p, [i \in 1 .. n |-> PlainRecord(lane[p].batch[i])]))
    BY <1>3 DEF HandleBatchFails
  <2>2. SetLane(p, [lane[p] EXCEPT !.at = "ack", !.conn = FALSE])
    BY <1>3 DEF HandleBatchFails
  <2>3. Len(lane[p].batch) \in Nat
    BY LaneFacts DEF RestInv, ProducerInv
  <2>4. n \in 0 .. Len(lane[p].batch)
    BY <2>3
  <2>5. QED
    BY <2>1, <2>2, <2>4, BatchOk
<1>4. ASSUME NEW p \in Partitions, Evict(p) PROVE RestInv'
  <2>1. Does("ttl") /\ UNCHANGED <<topic, log, lane>>
        /\ producers' = [producers EXCEPT ![p] = RestrictDomain(@, LAMBDA q : q # Pid)]
    BY <1>4 DEF Evict, Forget, producerVars
  <2>2. producers' = [q \in Partitions |-> producers'[q]]
    BY <2>1 DEF RestInv, LogsOk
  <2>3. LogsOk' /\ TopicOk' /\ ProducerInv'
    BY <2>1, <2>2 DEF RestInv, LogsOk, TopicOk, ProducerInv
  <2>4. LogInv'
    BY <2>1 DEF LogInv, Does
  <2>5. QED
    BY <2>3, <2>4 DEF RestInv
<1>5. (ClientStep /\ UNCHANGED logVars) \/ \E p \in Partitions : HandleBatch(p) \/ HandleBatchFails(p) \/ Evict(p)
  BY DEF ProducerStep, ProducerFault, ClientStep, Send, Flush, CloseProducer, CloseClient, Take, Drain,
         Write, WriteFails, HandleBatchRefused, ReadAck, AckTimeout, ConnBreak
<1>6. QED
  BY <1>1, <1>2, <1>3, <1>4, <1>5

\* A record of a transaction.
LEMMA TxnRecordOk ==
    ASSUME RestInv, NEW p, NEW m, m.pid # Pid, Store(p, EnqueueAll(p, <<m>>)), UNCHANGED <<work, producerVars>>
    PROVE  RestInv'
<1> DEFINE st == EnqueueAll(p, <<m>>)
<1>1. log' = [log EXCEPT ![p] = st.recs] /\ producers' = [producers EXCEPT ![p] = st.known]
      /\ UNCHANGED <<topic, lane>>
  BY DEF Store, producerVars
<1>2. ASSUME p \in Partitions
      PROVE  /\ IsASeq(st.recs) /\ Top(st.known) = Top(producers[p])
             /\ Remembers(producers[p], log[p]) => Remembers(st.known, st.recs)
  <2>1. IsASeq(log[p])
    BY <1>2 DEF RestInv, LogsOk
  <2>2. <<m>> \in Seq({m}) /\ Len(<<m>>) = 1 /\ <<m>>[1] = m
    OBVIOUS
  <2>3. PICK f : /\ f[0] = [recs |-> log[p], known |-> producers[p], bad |-> FALSE]
                 /\ \A i \in 1 .. Len(<<m>>) : f[i] = Enqueue(f[i - 1], <<m>>[i])
                 /\ st = f[Len(<<m>>)]
    BY <2>2, EnqueueRun
  <2>4. st = Enqueue(f[0], m)
    <3>1. 1 \in 1 .. Len(<<m>>) /\ 1 - 1 = 0
      BY <2>2
    <3>2. f[1] = Enqueue(f[1 - 1], <<m>>[1])
      BY <2>3, <3>1
    <3>3. QED
      BY <2>2, <2>3, <3>1, <3>2
  <2>5. Staged(f[0]) /\ f[0].recs = log[p] /\ f[0].known = producers[p]
    BY <2>3 DEF Staged
  <2> HIDE DEF st
  <2>6. QED
    BY <2>1, <2>4, <2>5, OtherStored
<1> HIDE DEF st
<1>3. QED
  BY <1>1, <1>2, ForeignOk

\* An event, or a record published by a producer without sequence numbers.
LEMMA StreamOk ==
    ASSUME RestInv, StreamStep, UNCHANGED <<work, producerVars>>
    PROVE  RestInv'
<1>1. CASE UNCHANGED logVars
  BY <1>1, LaneFrame, LanesOk DEF RestInv, producerVars
<1>2. ASSUME NEW m, m.pid = NoPid, log' = [log EXCEPT ![Home] = Append(@, m)], UNCHANGED <<topic, producers>>
      PROVE  RestInv'
  <2>1. Home \in Partitions
    BY LogConstants DEF Home, Partitions
  <2>2. IsASeq(log[Home])
    BY <2>1 DEF RestInv, LogsOk
  <2> DEFINE r == Append(log[Home], m)
             k == producers[Home]
  <2>3. IsASeq(r)
    BY <2>2, AppendAny
  <2>4. Remembers(k, log[Home]) => Remembers(k, r)
    <3>1. m.pid # Pid
      BY <1>2 DEF Pid, NoPid
    <3>2. QED
      BY <2>2, <3>1, SequencedOther DEF Remembers
  <2>5. log' = [log EXCEPT ![Home] = r] /\ producers' = [producers EXCEPT ![Home] = k]
    BY <1>2 DEF RestInv, LogsOk
  <2>6. Top(k) = Top(producers[Home]) /\ (Remembers(producers[Home], log[Home]) => Remembers(k, r))
    BY <2>4
  <2>7. work' = work /\ UNCHANGED <<topic, lane>>
    BY <1>2 DEF producerVars
  <2> HIDE DEF r, k
  <2>8. QED
    BY <2>3, <2>5, <2>6, <2>7, ForeignOk
<1>3. UNCHANGED logVars \/ \E m : /\ m.pid = NoPid /\ log' = [log EXCEPT ![Home] = Append(@, m)]
                                  /\ UNCHANGED <<topic, producers>>
  <2>1. ASSUME PlainPublish PROVE <1>3!2
    <3>1. Record(NoPid, 0, 0, Plain, FALSE).pid = NoPid
      BY DEF Record
    <3>2. QED
      BY <2>1, <3>1 DEF PlainPublish
  <2>2. ASSUME NEW c \in Writers, NEW v \in 1 .. MaxEvents, AppendStream(c, v) PROVE <1>3!1 \/ <1>3!2
    <3>1. Event(v, c).pid = NoPid
      BY DEF Event, Record
    <3>2. UNCHANGED logVars \/ (log' = [log EXCEPT ![Home] = Append(@, Event(v, c))] /\ UNCHANGED <<topic, producers>>)
      BY <2>2 DEF AppendStream
    <3>3. QED
      BY <3>1, <3>2
  <2>3. ASSUME NEW c \in Writers, AppendLocked(c) \/ ResetIndex(c) \/ RebuildIndex(c) PROVE UNCHANGED logVars
    BY <2>3 DEF AppendLocked, ResetIndex, RebuildIndex
  <2>4. ASSUME NEW c \in Writers, NEW v \in 1 .. MaxEvents, SaveSnapshot(c, v) PROVE UNCHANGED logVars
    BY <2>4 DEF SaveSnapshot
  <2>5. QED
    BY <2>1, <2>2, <2>3, <2>4 DEF StreamStep
<1>4. QED
  BY <1>1, <1>2, <1>3

\* A lifecycle command or startup.
LEMMA LifeOk ==
    ASSUME RestInv, LifeStep
    PROVE  RestInv'
<1>1. LanesKept /\ ProducerInv' /\ ProducerInv
  BY LaneFrame DEF RestInv, LifeStep, producerVars, ProducerInv
<1>2. ASSUME ~Does("ttl")', topic'.gen = 1, NEW p \in Partitions PROVE Held(p)'
  <2>1. topic.gen = 1
    BY <1>2 DEF RestInv, TopicOk, LifeStep
  <2>2. Held(p)
    BY <1>2, <2>1 DEF RestInv, LogInv, LifeStep, Does
  <2>3. log' = log /\ producers' \in {producers, Rescanned} /\ IsASeq(log[p]) /\ Remembers(producers[p], log[p])
    BY <1>2, <2>1, <2>2 DEF LifeStep, RestInv, LogsOk, Held
  <2>4. Rescanned[p] = RecoverProducers(log[p])
    BY DEF Rescanned
  <2>5. Remembers(producers'[p], log'[p]) /\ Top(producers'[p]) = Top(producers[p])
    BY <2>3, <2>4, RecoverRemembers
  <2>6. QED
    BY <1>1, <2>2, <2>5, HeldKept
<1>3. LogInv'
  BY <1>2 DEF LogInv
<1>4. QED
  BY <1>1, <1>3 DEF RestInv, LifeStep

\* The process stops.
LEMMA CrashOk ==
    ASSUME RestInv, TxnInv, Crash
    PROVE  RestInv' /\ TxnInv'
<1>1. /\ work' = work /\ log' = log /\ producers' = producers /\ ProducerRestart
      /\ topic' = [topic EXCEPT !.reg = FALSE, !.fenced = FALSE]
      /\ tail' = << >> /\ job' = [i \in Ids |-> NoJob]
  BY DEF Crash
<1>2. LanesKept
  <2> DEFINE at(p) == IF lane[p].at = "broker" THEN "ack" ELSE lane[p].at
  <2>1. lane' = [p \in Partitions |-> [lane[p] EXCEPT !.conn = FALSE, !.at = at(p)]]
    BY <1>1 DEF ProducerRestart
  <2>2. \A p \in Partitions : LaneInv(lane[p]) /\ at(p) \in {"idle", "write", "broker", "ack", "refused"}
                                /\ (at(p) = "idle" => lane[p].at = "idle")
                                /\ (at(p) = "refused" => lane[p].at = "refused")
    BY LaneFacts DEF RestInv, ProducerInv
  <2> HIDE DEF at
  <2>3. \A p \in Partitions : LaneKept(lane[p], [lane[p] EXCEPT !.conn = FALSE, !.at = at(p)])
    BY <2>2, ConnectionKeeps
  <2>4. QED
    BY <2>1, <2>3 DEF LanesKept
<1>3. TopicOk' /\ topic'.gen = topic.gen
  BY <1>1 DEF RestInv, TopicOk, TopicFields
<1>4. ProducerInv' /\ LogsOk'
  BY <1>1, <1>2 DEF LanesKept, LaneKept, ProducerInv, LogsOk, RestInv
<1>5. ASSUME ~Does("ttl")', topic'.gen = 1, NEW p \in Partitions PROVE Held(p)'
  <2>1. Held(p) /\ ProducerInv
    BY <1>1, <1>3, <1>5 DEF RestInv, LogInv, Does
  <2>2. Remembers(producers'[p], log'[p]) /\ Top(producers'[p]) = Top(producers[p])
    BY <1>1, <2>1 DEF Held
  <2>3. QED
    BY <1>2, <2>1, <2>2, HeldKept
<1>6. LogInv'
  BY <1>5 DEF LogInv
<1>7. TxnInv'
  <2>1. Ids' = Ids
    BY <1>1 DEF Ids, Does
  <2>2. JobsOk'
    BY <1>1, <2>1, NoJobOk DEF JobsOk
  <2>3. TailOk(tail)'
    BY <1>1 DEF TailOk
  <2>4. PICK surfaced \in {{}, Range(<<tail>>) \ {<< >>}} :
          journal' = [i \in Ids |-> IF \E t \in surfaced : t[1] = i
                                     THEN (CHOOSE t \in surfaced : t[1] = i)[2] ELSE journal[i]]
    BY DEF Crash
  <2>5. txns' = [i \in Ids |-> journal'[i]]
    BY DEF Crash, LoadJournal
  <2>6. \A t \in surfaced : TxnOk(t[2])
    <3>1. \A t \in surfaced : t = tail /\ t # << >>
      BY <2>4 DEF Range
    <3>2. tail # << >> => TxnOk(tail[2])
      BY DEF TxnInv, TailOk
    <3>3. QED
      BY <3>1, <3>2
  <2>7. \A i \in Ids : TxnOk(journal[i])
    BY DEF TxnInv, TxnsOk
  <2>8. ASSUME NEW i \in Ids PROVE TxnOk(journal'[i])
    <3>1. CASE \E t \in surfaced : t[1] = i
      <4> DEFINE t == CHOOSE t \in surfaced : t[1] = i
      <4>1. t \in surfaced
        BY <3>1
      <4>2. journal'[i] = t[2]
        BY <2>4, <3>1
      <4> HIDE DEF t
      <4>3. QED
        BY <2>6, <4>1, <4>2
    <3>2. CASE ~\E t \in surfaced : t[1] = i
      BY <2>4, <2>7, <3>2
    <3>3. QED
      BY <3>1, <3>2
  <2>9. journal' = [i \in Ids |-> journal'[i]] /\ txns' = [i \in Ids |-> txns'[i]] /\ \A i \in Ids : txns'[i] = journal'[i]
    BY <2>4, <2>5
  <2>10. TxnsOk(journal)' /\ TxnsOk(txns)'
    BY <2>1, <2>8, <2>9 DEF TxnsOk
  <2>11. QED
    BY <2>2, <2>3, <2>10 DEF TxnInv
<1>8. QED
  BY <1>3, <1>4, <1>6, <1>7 DEF RestInv

\* Every step keeps the invariant.
LEMMA NextOk ==
    ASSUME BrokerInv, [Next]_vars
    PROVE  BrokerInv'
<1>1. RestInv /\ TxnInv
  BY DEF BrokerInv, RestInv
<1>2. CASE ProducerStep /\ ProducerAlone
  BY <1>1, <1>2, ProducerOk, TxnFrame DEF ProducerAlone, txnVars, BrokerInv, RestInv
<1>3. CASE ProducerFault /\ UNCHANGED <<up, txnVars, streamVars, lifecycleVars>>
  <2>1. work' = work
    BY <1>3 DEF ProducerFault, HandleBatchFails, AckTimeout, ConnBreak, Evict
  <2>2. QED
    BY <1>1, <1>3, <2>1, ProducerOk, TxnFrame DEF txnVars, BrokerInv, RestInv
<1>4. CASE TxnStep /\ TxnAlone
  <2>1. /\ TxnInv' /\ work' = work /\ UNCHANGED producerVars
        /\ UNCHANGED logVars \/ \E p, m : m.pid # Pid /\ Store(p, EnqueueAll(p, <<m>>))
    BY <1>1, <1>4, TxnCommandOk, TxnWorkOk DEF TxnStep
  <2>2. CASE UNCHANGED logVars
    BY <1>1, <2>1, <2>2, LaneFrame, LanesOk DEF BrokerInv, RestInv, producerVars
  <2>3. CASE \E p, m : m.pid # Pid /\ Store(p, EnqueueAll(p, <<m>>))
    BY <1>1, <2>1, <2>3, TxnRecordOk DEF BrokerInv, RestInv
  <2>4. QED
    BY <2>1, <2>2, <2>3
<1>5. CASE StreamStep /\ UNCHANGED <<work, producerVars, txnVars, lifecycleVars>>
  BY <1>1, <1>5, StreamOk, TxnFrame DEF txnVars, BrokerInv, RestInv
<1>6. CASE LifecycleStep
  <2>1. LifeStep
    BY <1>1, <1>6, LifecycleOk DEF RestInv
  <2>2. QED
    BY <1>1, <2>1, LifeOk DEF BrokerInv, RestInv, LifeStep
<1>7. CASE BrokerCrash
  BY <1>1, <1>7, CrashOk DEF BrokerCrash, BrokerInv, RestInv
<1>8. CASE Serve
  <2>1. UNCHANGED <<work, logVars, lane, txns, journal, tail, job>>
    BY <1>8 DEF Serve, Ready, producerVars
  <2>2. QED
    BY <1>1, <2>1, LaneFrame, LanesOk, TxnFrame DEF BrokerInv, RestInv
<1>9. CASE UNCHANGED vars
  <2>1. UNCHANGED <<work, logVars, lane, txns, journal, tail, job>>
    BY <1>9 DEF vars, producerVars, txnVars
  <2>2. QED
    BY <1>1, <2>1, LaneFrame, LanesOk, TxnFrame DEF BrokerInv, RestInv
<1>10. QED
  BY <1>2, <1>3, <1>4, <1>5, <1>6, <1>7, <1>8, <1>9 DEF Next

-----------------------------------------------------------------------------
(* No batch is refused where nothing removes the topic.                    *)

\* The broker has every partition whenever it serves, and no lane has been refused.
Steady ==
    /\ manifest.epoch = 1 /\ manifest.parts = NumPartitions
    /\ ~topic.fenced /\ topic.parts = NumPartitions /\ (up \in {"up", "recover"} => topic.reg)
    /\ \A p \in Partitions : lane[p].dropped = {} /\ lane[p].at # "refused"
SteadyInv == ~Removable => Steady

\* What a step does to the lanes keeps it, as long as the rest stays.
LEMMA LanesSteady ==
    ASSUME Steady, LanesKept, UNCHANGED <<topic, manifest>>, up' \in {up, "killed"}
    PROVE  Steady'
<1>1. ~Lacking
  BY LogConstants DEF Steady, Lacking, HasPartition, Partitions
<1>2. \A p \in Partitions : lane'[p].dropped = {} /\ lane'[p].at # "refused"
  BY <1>1 DEF LanesKept, LaneKept, Steady
<1>3. QED
  BY <1>2 DEF Steady, Partitions

\* RestoreTopics opens the topic; interrupted or failed, it leaves a broker that does not serve.
LEMMA RestoreSteady ==
    ASSUME Steady, BrokerInv, RestoreTopics
    PROVE  Steady'
<1>1. manifest # NoTopic /\ ~ResetPending
  BY DEF Steady, NoTopic, ResetPending
<1>2. Perform("restore", <<"open">>, "recover") /\ up = "down"
  BY <1>1 DEF RestoreTopics
<1>3. Now.topic = topic /\ Now.manifest = manifest /\ LifeShape(Now)
  <2>1. Now.topic = topic /\ Now.manifest = manifest
    BY DEF Now
  <2>2. DOMAIN Now = {"topic", "manifest", "files", "log", "producers", "index", "snap", "registered",
                      "goff", "txns", "journal", "tail"}
    BY DEF Now
  <2>3. QED
    BY <2>1, <2>2 DEF LifeShape, BrokerInv, TopicOk
<1>4. \A s : Run(s, << >>) = s
  <2>1. SUFFICES ASSUME NEW s PROVE Run(s, << >>) = s
    OBVIOUS
  <2>2. Len(<< >>) = 0
    OBVIOUS
  <2>3. QED
    BY <2>2, StepRun
<1>5. Run(Now, <<"open">>) = Open(Now)
  <2>1. Len(<<"open">>) = 1 /\ <<"open">>[1] = "open"
    OBVIOUS
  <2>2. PICK st : st[0] = Now /\ (\A n \in 1 .. 1 : st[n] = Step(st[n - 1], <<"open">>[n]))
                  /\ Run(Now, <<"open">>) = st[1]
    BY <2>1, StepRun
  <2>3. st[1] = Step(st[1 - 1], <<"open">>[1])
    BY <2>2
  <2>4. Step(Now, "open") = Open(Now)
    BY DEF Step
  <2>5. QED
    BY <2>1, <2>2, <2>3, <2>4
<1>6. UNCHANGED <<work, lane>>
  BY <1>2 DEF Perform, producerVars
<1>7. CASE Become(Run(Now, <<"open">>)) /\ up' = "recover"
  <2>1. topic' = Open(Now).topic /\ manifest' = Open(Now).manifest
    BY <1>5, <1>7 DEF Become
  <2>2. /\ Open(Now).manifest = manifest /\ Open(Now).topic.reg /\ Open(Now).topic.parts = manifest.parts
        /\ Open(Now).topic.fenced = topic.fenced
    BY <1>3 DEF Open, LifeShape, TopicFields
  <2>3. QED
    BY <1>6, <1>7, <2>1, <2>2 DEF Steady, Partitions
<1>8. ASSUME NEW n \in DOMAIN <<"open">>,
             NEW s \in Partly(Run(Now, SubSeq(<<"open">>, 1, n - 1)), <<"open">>[n]),
             up' = "killed", Become(s) \/ Become(Run(s, Rest("restore", <<"open">>[n])))
      PROVE  Steady'
  <2>1. n = 1 /\ <<"open">>[n] = "open" /\ SubSeq(<<"open">>, 1, n - 1) = << >>
    OBVIOUS
  <2>2. s \in Partly(Now, "open") /\ Rest("restore", "open") = << >>
    BY <1>4, <1>8, <2>1 DEF Rest
  <2>3. Become(s)
    BY <1>4, <1>8, <2>1, <2>2
  <2>4. PICK l : s = [Now EXCEPT !.files.logs = @ \cup l]
    BY <2>2 DEF Partly
  <2>5. s.topic = topic /\ s.manifest = manifest
    BY <1>3, <2>4 DEF LifeShape
  <2>6. topic' = topic /\ manifest' = manifest
    BY <2>3, <2>5 DEF Become
  <2>7. QED
    BY <1>6, <1>8, <2>6 DEF Steady, Partitions
<1>9. \/ Become(Run(Now, <<"open">>)) /\ up' = "recover"
      \/ \E n \in DOMAIN <<"open">> : \E s \in Partly(Run(Now, SubSeq(<<"open">>, 1, n - 1)), <<"open">>[n]) :
            up' = "killed" /\ (Become(s) \/ Become(Run(s, Rest("restore", <<"open">>[n]))))
  BY <1>2 DEF Perform
<1>10. QED
  BY <1>7, <1>8, <1>9

\* Every step keeps it.
LEMMA SteadyOk ==
    ASSUME BrokerInv, SteadyInv, [Next]_vars
    PROVE  SteadyInv'
<1>1. work' = work
  BY DEF Next, vars, ProducerAlone, ProducerFault, HandleBatchFails, AckTimeout, ConnBreak, Evict, TxnStep,
         TxnCommand, InitProducerID, BeginTxn, BeginRefused, SendOffsets, EndTxnAbort, EndTxnCommit,
         EndTxnCommitted, TxnRefused, TxnPublish, TxnApply, ApplyTransaction, PublishNext, CommitTxnOffsets,
         DecideCommitted, ApplyFails, RecoverTransaction, PruneExpired, Rebalance, LifecycleStep, Truncate,
         Delete, Create, Grow, RestoreTopics, RecoverPendingTruncations, Perform, BrokerCrash, Crash, Serve, Ready
<1>2. SUFFICES ASSUME ~Removable, Steady PROVE Steady'
  BY <1>1 DEF SteadyInv, Removable
<1>3. ProducerInv /\ RestInv
  BY DEF BrokerInv, RestInv
<1>4. ASSUME NEW p \in Partitions, NEW conn \in BOOLEAN, UNCHANGED <<topic, manifest, up>>,
             SetLane(p, [lane[p] EXCEPT !.at = "ack", !.conn = conn])
      PROVE  Steady'
  <2> DEFINE m == [lane[p] EXCEPT !.at = "ack", !.conn = conn]
  <2>1. m.dropped = lane[p].dropped /\ m.at = "ack"
    BY <1>3, HandledKeeps DEF ProducerInv
  <2>2. lane' = [q \in Partitions |-> IF q = p THEN m ELSE lane[q]]
    BY <1>3, <1>4 DEF SetLane, ProducerInv
  <2> HIDE DEF m
  <2>3. QED
    BY <1>2, <1>4, <2>1, <2>2 DEF Steady, Partitions
<1>5. ASSUME ProducerStep \/ ProducerFault, UNCHANGED <<up, manifest>> PROVE Steady'
  <2>1. CASE ClientStep /\ UNCHANGED logVars
    BY <1>2, <1>3, <1>5, <2>1, ClientSteps, LanesSteady DEF logVars
  <2>2. ASSUME NEW p \in Partitions, HandleBatch(p) \/ HandleBatchFails(p) PROVE Steady'
    <3>1. topic' = topic
      BY <2>2 DEF HandleBatch, HandleBatchFails, Store
    <3>2. lane[p].conn \in BOOLEAN
      BY <1>3, LaneFacts DEF ProducerInv
    <3>3. \E conn \in BOOLEAN : SetLane(p, [lane[p] EXCEPT !.at = "ack", !.conn = conn])
      BY <2>2, <3>2 DEF HandleBatch, HandleBatchFails
    <3>4. QED
      BY <1>4, <1>5, <3>1, <3>3
  <2>3. ASSUME NEW p \in Partitions, Evict(p) PROVE Steady'
    BY <1>2, <1>5, <2>3 DEF Evict, Forget, producerVars, Steady, Partitions
  <2>4. (ClientStep /\ UNCHANGED logVars) \/ \E p \in Partitions : HandleBatch(p) \/ HandleBatchFails(p) \/ Evict(p)
    BY <1>5 DEF ProducerStep, ProducerFault, ClientStep, Send, Flush, CloseProducer, CloseClient, Take, Drain,
           Write, WriteFails, HandleBatchRefused, ReadAck, AckTimeout, ConnBreak
  <2>5. QED
    BY <2>1, <2>2, <2>3, <2>4
<1>6. CASE ProducerStep /\ ProducerAlone
  BY <1>5, <1>6 DEF ProducerAlone, lifecycleVars
<1>7. CASE ProducerFault /\ UNCHANGED <<up, txnVars, streamVars, lifecycleVars>>
  BY <1>5, <1>7 DEF lifecycleVars
<1>8. CASE TxnStep /\ TxnAlone
  <2>1. UNCHANGED <<lane, up, topic>>
    BY <1>8 DEF TxnStep, TxnCommand, InitProducerID, BeginTxn, BeginRefused, SendOffsets, EndTxnAbort,
           EndTxnCommit, EndTxnCommitted, TxnRefused, TxnPublish, TxnApply, ApplyTransaction, PublishNext,
           CommitTxnOffsets, DecideCommitted, ApplyFails, RecoverTransaction, PruneExpired, Rebalance,
           producerVars, logVars, Store
  <2>2. QED
    BY <1>2, <1>8, <2>1 DEF TxnAlone, lifecycleVars, Steady, Partitions
<1>9. CASE StreamStep /\ UNCHANGED <<work, producerVars, txnVars, lifecycleVars>>
  <2>1. up' \in {up, "killed"} /\ topic' = topic
    BY <1>9 DEF StreamStep, PlainPublish, AppendStream, AppendLocked, ResetIndex, RebuildIndex, SaveSnapshot, logVars
  <2>2. QED
    BY <1>2, <1>9, <2>1 DEF producerVars, lifecycleVars, Steady, Partitions
<1>10. CASE LifecycleStep
  <2>1. ~Does("truncate") /\ ~Does("delete") /\ ~Does("grow")
    BY <1>2 DEF Removable, Does
  <2>2. ~Truncate /\ ~Delete /\ ~Create /\ ~Grow /\ ~RecoverPendingTruncations
    BY <1>2, <2>1 DEF Truncate, Delete, Create, Grow, RecoverPendingTruncations, Steady
  <2>3. QED
    BY <1>2, <1>10, <2>2, RestoreSteady DEF LifecycleStep
<1>11. CASE BrokerCrash
  <2>1. /\ up' = "down" /\ manifest' = manifest
        /\ topic' = [topic EXCEPT !.reg = FALSE, !.fenced = FALSE]
    BY <1>11 DEF BrokerCrash, Crash, lifecycleVars
  <2>2. ~topic'.fenced /\ topic'.parts = topic.parts
    BY <2>1 DEF BrokerInv, TopicOk, TopicFields
  <2>3. \A p \in Partitions : lane'[p].dropped = {} /\ lane'[p].at # "refused"
    <3>1. SUFFICES ASSUME NEW p \in Partitions PROVE lane'[p].dropped = {} /\ lane'[p].at # "refused"
      OBVIOUS
    <3>2. lane'[p] = [lane[p] EXCEPT !.conn = FALSE, !.at = IF @ = "broker" THEN "ack" ELSE @]
      BY <1>11 DEF BrokerCrash, Crash, ProducerRestart
    <3>3. lane[p] \in LaneRecs
      BY <1>3 DEF ProducerInv, LaneInv
    <3>4. QED
      BY <1>2, <3>2, <3>3 DEF Steady, LaneRecs
  <2>4. QED
    BY <1>2, <2>1, <2>2, <2>3 DEF Steady, Partitions
<1>12. CASE Serve
  BY <1>2, <1>12 DEF Serve, Ready, logVars, producerVars, Steady, Partitions
<1>13. CASE UNCHANGED vars
  BY <1>2, <1>13 DEF vars, logVars, producerVars, lifecycleVars, Steady, Partitions
<1>14. QED
  BY <1>6, <1>7, <1>8, <1>9, <1>10, <1>11, <1>12, <1>13 DEF Next

-----------------------------------------------------------------------------
(* Theorems.                                                               *)

\* The broker's invariant: every lane has accounted for its messages in order (acknowledged or dropped,
\* then in the batch, then in the buffer), no transaction writes in the producer's name, and each
\* partition's log holds the producer's records one after the other up to the number its producer table
\* remembers, which is not below what the producer takes as acknowledged.
THEOREM BrokerInvariant == Spec => []BrokerInv
<1>1. Init => BrokerInv
  BY InitOk
<1>2. BrokerInv /\ [Next]_vars => BrokerInv'
  BY NextOk
<1>3. QED
  BY <1>1, <1>2, PTL DEF Spec

\* Exactly once (IdempotentProducer!AckedOnce): whatever answers are lost, connections break, batches
\* are resent after part of them was stored and brokers restart, every message that sendWithRetry took
\* as acknowledged is in its partition's log once and in the order of Send, without a gap.
THEOREM AcknowledgedOnce == Spec => []AckedOnce
<1>1. BrokerInv => AckedOnce
  <2>1. SUFFICES ASSUME BrokerInv, ~Does("ttl"), topic.gen = 1, NEW p \in Partitions
                 PROVE  /\ \A i, j \in Own(p) : i < j => log[p][i].seq < log[p][j].seq
                        /\ \A i \in Own(p) : log[p][i].seq = 1 \/ \E j \in Own(p) : log[p][j].seq = log[p][i].seq - 1
                        /\ \A s \in lane[p].acked : \E i \in Own(p) : log[p][i].seq = s
    BY DEF AckedOnce
  <2> DEFINE top == Top(producers[p])
  <2>2. Held(p) /\ LaneInv(lane[p])
    BY <2>1 DEF BrokerInv, LogInv, ProducerInv
  <2>3. top \in Nat /\ Sequenced(log[p], top) /\ Base(lane[p]) \in Nat
        /\ lane[p].acked \subseteq 1 .. Base(lane[p]) /\ \A s \in lane[p].acked : s <= top
    BY <2>2 DEF Held, Remembers, LaneInv, Consistent, Disposed
  <2>4. Own(p) = OwnIn(log[p])
    BY DEF Own, OwnIn
  <2> HIDE DEF top
  <2>5. \A i, j \in Own(p) : i < j => log[p][i].seq < log[p][j].seq
    BY <2>3, <2>4 DEF Sequenced
  <2>6. \A s \in 1 .. top : \E i \in Own(p) : log[p][i].seq = s
    BY <2>3, <2>4 DEF Sequenced
  <2>7. ASSUME NEW i \in Own(p)
        PROVE  log[p][i].seq = 1 \/ \E j \in Own(p) : log[p][j].seq = log[p][i].seq - 1
    <3>1. log[p][i].seq \in 1 .. top
      BY <2>3, <2>4 DEF Sequenced
    <3>2. log[p][i].seq = 1 \/ log[p][i].seq - 1 \in 1 .. top
      BY <2>3, <3>1
    <3>3. QED
      BY <2>6, <3>2
  <2>8. \A s \in lane[p].acked : \E i \in Own(p) : log[p][i].seq = s
    BY <2>3, <2>6
  <2>9. QED
    BY <2>5, <2>7, <2>8
<1>2. QED
  BY <1>1, BrokerInvariant, PTL

\* Flush means acknowledged (IdempotentProducer!FlushMeansAcked): a drain that partitionSender reports
\* complete has had every message handed out before it acknowledged, also those of batches that
\* exhausted their retries and went back to the buffer.  Only where the topic can be deleted, truncated
\* or still lacks partitions does sendBatch drop a batch, and then what is missing is what it dropped.
THEOREM FlushesAcknowledged == Spec => []FlushMeansAcked
<1>1. Init => SteadyInv
  <2>1. SUFFICES ASSUME Init, ~Removable PROVE Steady
    BY DEF SteadyInv
  <2>2. topic = [reg |-> TRUE, fenced |-> FALSE, gen |-> 1, parts |-> NumPartitions]
    BY <2>1 DEF Init, LogInit, Removable, Does
  <2>3. manifest.epoch = 1 /\ manifest.parts = NumPartitions
    BY <2>1, <2>2 DEF Init, LifecycleInit
  <2>4. \A p \in Partitions : lane[p].dropped = {} /\ lane[p].at # "refused"
    BY <2>1 DEF Init, ProducerInit
  <2>5. QED
    BY <2>2, <2>3, <2>4 DEF Steady
<1>2. BrokerInv /\ SteadyInv /\ [Next]_vars => SteadyInv'
  BY SteadyOk
<1>3. BrokerInv /\ SteadyInv => FlushMeansAcked
  <2>1. SUFFICES ASSUME BrokerInv, SteadyInv, NEW p \in Partitions
                 PROVE  1 .. lane[p].drained \subseteq lane[p].acked \cup (IF Removable THEN lane[p].dropped ELSE {})
    BY DEF FlushMeansAcked
  <2>2. LaneInv(lane[p])
    BY <2>1 DEF BrokerInv, ProducerInv
  <2>3. /\ lane[p].drained \in Nat /\ Base(lane[p]) \in Nat /\ lane[p].drained <= Base(lane[p])
        /\ lane[p].acked \cup lane[p].dropped = 1 .. Base(lane[p])
    BY <2>2, LaneFacts DEF LaneInv, Consistent, Disposed
  <2>4. 1 .. lane[p].drained \subseteq lane[p].acked \cup lane[p].dropped
    BY <2>3
  <2>5. ~Removable => lane[p].dropped = {}
    BY <2>1 DEF SteadyInv, Steady
  <2>6. QED
    BY <2>4, <2>5
<1>4. QED
  BY <1>1, <1>2, <1>3, BrokerInvariant, PTL DEF Spec

-----------------------------------------------------------------------------
(* Event streams.                                                          *)

\* An index that a failed append leaves short, or that is being rebuilt, is not locked against other
\* writers: with several of them no append may fail.
OneAtATime == Does("disk") \/ Does("index") => Does("solo")

\* The events in a log, and that they are the versions up to k, in order.
EventsIn(r) == {n \in DOMAIN r : r[n].key = Aggregate}
Holds(r, v, c) == \E n \in EventsIn(r) : r[n].seq = v /\ r[n].epoch = c
Versioned(r, k) ==
    /\ k \in Nat
    /\ \A n \in EventsIn(r) : r[n].seq \in 1 .. k /\ r[n] = Event(r[n].seq, r[n].epoch)
    /\ \A m, n \in EventsIn(r) : m < n => r[m].seq < r[n].seq
    /\ \A v \in 1 .. k : \E n \in EventsIn(r) : r[n].seq = v

\* What an index of n entries says of a log, and what the answered appends do.
Indexes(at, r) == \A v \in DOMAIN at : at[v] \in EventsIn(r) /\ r[at[v]].seq = v
IndexOf(ix, r, n) ==
    ix.at \in Seq(Nat) /\ Len(ix.at) = n /\ (EventsIn(r) = DOMAIN r => Indexes(ix.at, r))
AppendsKept(ap, g, r, d) ==
    \A x \in ap : x[3] \in Nat /\ x[3] <= g /\ (x[3] = g => x[1] \in 1 .. d /\ Holds(r, x[1], x[2]))

\* Writers w, index ix, answered appends ap and generation g on a log r that holds k versions, d of
\* which a writer may have been told of: the one more is that of the append in progress.
Idle(w) == \A c \in Writers : w[c].at = "idle"
StreamOf(r, w, ix, ap, g, k, d) ==
    /\ Versioned(r, k) /\ d \in Nat /\ (Idle(w) => k = d)
    /\ \A c \in Writers :
         w[c].at # "idle" =>
            /\ w[c].version = d + 1 /\ k \in {d, d + 1}
            /\ w[c].at = "enqueued" => k = d + 1
            /\ k = d + 1 => Holds(r, k, c)
    /\ ix.open => IndexOf(ix, r, IF \E c \in Writers : w[c].at = "reset" THEN 0 ELSE d)
    /\ AppendsKept(ap, g, r, d)

\* Who may be at work: the holder of the index lock, or else the only writer.
WritersOf(w, ix) ==
    /\ w = [c \in Writers |-> w[c]]
    /\ \A c \in Writers :
         /\ w[c] = [at |-> w[c].at, version |-> w[c].version]
         /\ w[c].at \in {"idle", "enqueued", "failed", "reset"}
         /\ w[c].at = "enqueued" <=> ix.lock = c
         /\ w[c].at # "idle" => IF Does("solo") THEN c = Min(Writers) ELSE w[c].at = "enqueued"
    /\ ix = [open |-> ix.open, at |-> ix.at, lock |-> ix.lock] /\ ix.open \in BOOLEAN
    /\ ix.lock \in Writers \cup {Nobody}
    /\ ~ix.open => ix = Closed /\ Idle(w)

StreamInv ==
    OneAtATime =>
        /\ WritersOf(writer, index) /\ (up \in {"down", "recover"} => Idle(writer))
        /\ \E k, d \in Nat : StreamOf(log[Home], writer, index, appended, topic.gen, k, d)
-----------------------------------------------------------------------------
(* Logs and indexes of events.                                             *)

\* IndexMessages takes the records in turn.
LEMMA ScanRun ==
    ASSUME NEW at, Len(log[Home]) \in Nat
    PROVE  \E st : /\ st[0] = at
                   /\ \A n \in 1 .. Len(log[Home]) : st[n] = IndexMessage(st[n - 1], n)
                   /\ IndexMessages(at) = st[Len(log[Home])]
<1> DEFINE Upto(k, f) == f = [n \in 0 .. k |-> IF n = 0 THEN at ELSE IndexMessage(f[n - 1], n)]
           T == {k \in Nat : ~\E f : Upto(k, f)}
<1>1. \E f : Upto(0, f)
  <2>1. Upto(0, [n \in 0 .. 0 |-> at])
    OBVIOUS
  <2>2. QED
    BY <2>1
<1>2. ASSUME NEW k \in Nat, NEW f, Upto(k, f) PROVE \E g : Upto(k + 1, g)
  <2> DEFINE g == [n \in 0 .. k + 1 |-> IF n = k + 1 THEN IndexMessage(f[k], k + 1) ELSE f[n]]
  <2>1. \A n \in 0 .. k + 1 : g[n] = IF n = 0 THEN at ELSE IndexMessage(g[n - 1], n)
    BY <1>2
  <2>2. Upto(k + 1, g)
    BY <2>1
  <2>3. QED
    BY <2>2
<1> HIDE DEF Upto
<1>3. T = {}
  <2>1. SUFFICES ASSUME T # {} PROVE FALSE
    OBVIOUS
  <2>2. PICK k \in T : \A j \in T : k <= j
    BY <2>1, LeastNat
  <2>3. k # 0
    BY <1>1, <2>2
  <2>4. k - 1 \in Nat /\ k - 1 \notin T
    BY <2>2, <2>3
  <2>5. \E g : Upto((k - 1) + 1, g)
    BY <1>2, <2>4
  <2>6. QED
    BY <2>2, <2>4, <2>5
<1>4. \E f : Upto(Len(log[Home]), f)
  BY <1>3
<1> DEFINE st == CHOOSE f : Upto(Len(log[Home]), f)
<1>5. Upto(Len(log[Home]), st)
  BY <1>4
<1>6. IndexMessages(at) = st[Len(log[Home])]
  BY DEF IndexMessages, Upto
<1>7. st[0] = at /\ \A n \in 1 .. Len(log[Home]) : st[n] = IndexMessage(st[n - 1], n)
  <2> HIDE DEF st
  <2>1. \A n \in 0 .. Len(log[Home]) : st[n] = IF n = 0 THEN at ELSE IndexMessage(st[n - 1], n)
    BY <1>5 DEF Upto
  <2>2. QED
    BY <2>1
<1>8. QED
  BY <1>6, <1>7

\* A sequence of records, without naming their set.
LEMMA SeqParts ==
    ASSUME NEW r, IsASeq(r)
    PROVE  Len(r) \in Nat /\ DOMAIN r = 1 .. Len(r)
  BY DEF IsASeq

\* A scan of the whole log finds every version.
LEMMA ScanFinds ==
    ASSUME IsASeq(log[Home]), NEW k, Versioned(log[Home], k)
    PROVE  /\ IndexMessages(<< >>) \in Seq(Nat) /\ Len(IndexMessages(<< >>)) = k
           /\ Indexes(IndexMessages(<< >>), log[Home])
<1> DEFINE r == log[Home]
           len == Len(r)
           Good(at, n) == /\ at \in Seq(Nat) /\ Len(at) <= k
                          /\ \A v \in 1 .. Len(at) : at[v] \in EventsIn(r) /\ at[v] <= n /\ r[at[v]].seq = v
                          /\ \A m \in EventsIn(r) : m <= n => r[m].seq <= Len(at)
<1>1. len \in Nat /\ DOMAIN r = 1 .. len
  BY SeqParts
<1>2. PICK st : st[0] = << >> /\ (\A n \in 1 .. len : st[n] = IndexMessage(st[n - 1], n))
                /\ IndexMessages(<< >>) = st[len]
  BY <1>1, ScanRun
<1>3. /\ k \in Nat /\ EventsIn(r) \subseteq 1 .. len
      /\ \A n \in EventsIn(r) : r[n].seq \in 1 .. k /\ r[n].key = Aggregate
      /\ \A m, n \in EventsIn(r) : m < n => r[m].seq < r[n].seq
      /\ \A v \in 1 .. k : \E n \in EventsIn(r) : r[n].seq = v
      /\ \A n \in 1 .. len : r[n].key = Aggregate => n \in EventsIn(r)
  BY <1>1 DEF Versioned, EventsIn
<1>4. \A n \in 1 .. len : \A at :
        IndexMessage(at, n) = IF r[n].key = Aggregate /\ r[n].seq = Len(at) + 1 THEN Append(at, n) ELSE at
  BY DEF IndexMessage
<1> HIDE DEF r, len
<1> DEFINE S == {n \in 0 .. len : Good(st[n], n)}
<1>5. 0 \in S
  <2>1. << >> \in Seq(Nat) /\ Len(<< >>) = 0 /\ st[0] = << >> /\ 0 \in 0 .. len
    BY <1>1, <1>2
  <2>2. \A m \in EventsIn(r) : m \in Nat /\ m > 0
    BY <1>1, <1>3
  <2>3. \A m \in EventsIn(r) : ~(m <= 0)
    BY <2>2
  <2>4. Good(st[0], 0)
    BY <1>3, <2>1, <2>3
  <2>5. QED
    BY <2>1, <2>4
<1>6. ASSUME NEW i \in 0 .. len - 1, i \in S PROVE i + 1 \in S
  <2>1. i + 1 \in 1 .. len /\ (i + 1) - 1 = i /\ i + 1 \in 0 .. len /\ i \in Nat
    BY <1>1
  <2>2. st[i + 1] = IndexMessage(st[i], i + 1)
    BY <1>2, <2>1
  <2> DEFINE at == st[i]
  <2>0. PICK n : n = i + 1
    OBVIOUS
  <2>3. /\ at \in Seq(Nat) /\ Len(at) <= k /\ Len(at) \in Nat
        /\ \A v \in 1 .. Len(at) : at[v] \in EventsIn(r) /\ at[v] <= i /\ r[at[v]].seq = v
        /\ \A m \in EventsIn(r) : m <= i => r[m].seq <= Len(at)
    BY <1>6
  <2> HIDE DEF at
  <2>4. CASE r[n].key = Aggregate /\ r[n].seq = Len(at) + 1
    <3>0. n \in 1 .. len /\ n \in Nat /\ st[n] = IndexMessage(at, n)
      BY <1>1, <2>0, <2>1, <2>2 DEF at
    <3>1. st[n] = Append(at, n) /\ n \in EventsIn(r) /\ n \in Nat
      <4>1. n \in EventsIn(r)
        BY <1>3, <2>4, <3>0
      <4>2. IndexMessage(at, n) = Append(at, n)
        BY <1>4, <2>4, <3>0
      <4>3. QED
        BY <3>0, <4>1, <4>2
    <3> DEFINE new == Append(at, n)
    <3>2. new \in Seq(Nat) /\ Len(new) = Len(at) + 1 /\ new[Len(at) + 1] = n
          /\ \A v \in 1 .. Len(at) : new[v] = at[v]
      BY <2>3, <3>1
    <3> HIDE DEF new
    <3>3. Len(new) <= k
      BY <1>3, <2>3, <2>4, <3>1, <3>2
    <3>4. \A v \in 1 .. Len(new) : new[v] \in EventsIn(r) /\ new[v] <= n /\ r[new[v]].seq = v
      <4>1. ASSUME NEW v \in 1 .. Len(new) PROVE new[v] \in EventsIn(r) /\ new[v] <= n /\ r[new[v]].seq = v
        <5>1. CASE v = Len(at) + 1
          BY <2>4, <3>1, <3>2, <5>1
        <5>2. CASE v # Len(at) + 1
          <6>1. v \in 1 .. Len(at)
            BY <2>3, <3>2, <5>2
          <6>2. at[v] \in EventsIn(r) /\ at[v] <= i /\ r[at[v]].seq = v /\ at[v] \in Nat
            BY <1>1, <1>3, <2>3, <6>1
          <6>3. QED
            BY <2>0, <2>1, <3>2, <6>1, <6>2
        <5>3. QED
          BY <5>1, <5>2
      <4>2. QED
        BY <4>1
    <3>5. \A m \in EventsIn(r) : m <= n => r[m].seq <= Len(new)
      <4>1. ASSUME NEW m \in EventsIn(r), m <= n PROVE r[m].seq <= Len(new)
        <5>1. m \in Nat /\ r[m].seq \in Nat
          BY <1>1, <1>3
        <5>2. m = n \/ m <= i
          BY <2>0, <2>1, <4>1, <5>1
        <5>3. QED
          BY <2>3, <2>4, <3>2, <5>1, <5>2
      <4>2. QED
        BY <4>1
    <3>6. Good(new, n)
      BY <3>2, <3>3, <3>4, <3>5
    <3>7. QED
      BY <2>0, <2>1, <3>1, <3>6 DEF new
  <2>5. CASE ~(r[n].key = Aggregate /\ r[n].seq = Len(at) + 1)
    <3>1. st[n] = at
      BY <1>4, <2>0, <2>1, <2>2, <2>5 DEF at
    <3>2. \A v \in 1 .. Len(at) : at[v] \in EventsIn(r) /\ at[v] <= n /\ r[at[v]].seq = v
      <4>1. ASSUME NEW v \in 1 .. Len(at) PROVE at[v] <= n
        <5>1. at[v] \in EventsIn(r) /\ at[v] <= i /\ at[v] \in Nat
          BY <1>1, <1>3, <2>3
        <5>2. QED
          BY <2>0, <2>1, <5>1
      <4>2. QED
        BY <2>3, <4>1
    <3>3. ASSUME NEW m \in EventsIn(r), m <= n PROVE r[m].seq <= Len(at)
      <4>1. m \in Nat /\ r[m].seq \in 1 .. k /\ r[m].key = Aggregate
        BY <1>1, <1>3
      <4>2. CASE m <= i
        BY <2>3, <4>2
      <4>3. CASE m = n
        <5>1. SUFFICES ASSUME r[n].seq > Len(at) PROVE FALSE
          BY <2>3, <4>1, <4>3
        <5>2. r[n].seq > Len(at) + 1 /\ Len(at) + 1 \in 1 .. k
          BY <1>3, <2>3, <2>5, <4>1, <4>3, <5>1
        <5>3. PICK j \in EventsIn(r) : r[j].seq = Len(at) + 1
          BY <1>3, <5>2
        <5>4. j \in Nat
          BY <1>1, <1>3
        <5>5. ~(n < j) /\ j # n
          BY <1>3, <4>3, <5>2, <5>3, <2>3
        <5>6. j <= i
          BY <2>0, <2>1, <5>4, <5>5
        <5>7. QED
          BY <2>3, <5>3, <5>6
      <4>4. QED
        BY <2>0, <2>1, <3>3, <4>1, <4>2, <4>3
    <3>4. Good(at, n)
      BY <2>3, <3>2, <3>3
    <3>5. QED
      BY <2>0, <2>1, <3>1, <3>4
  <2>6. QED
    BY <2>4, <2>5
<1>7. 0 .. len \subseteq S
  <2> HIDE DEF S
  <2>1. QED
    BY <1>1, <1>5, <1>6, UpTo
<1>8. Good(st[len], len)
  BY <1>1, <1>7
<1> DEFINE at == st[len]
<1>9. /\ at \in Seq(Nat) /\ Len(at) <= k /\ Len(at) \in Nat
      /\ \A v \in 1 .. Len(at) : at[v] \in EventsIn(r) /\ r[at[v]].seq = v
      /\ \A m \in EventsIn(r) : m <= len => r[m].seq <= Len(at)
  BY <1>8
<1> HIDE DEF at
<1>10. Len(at) = k
  <2>1. SUFFICES ASSUME Len(at) < k PROVE FALSE
    BY <1>3, <1>9
  <2>2. k \in 1 .. k
    BY <1>3, <1>9, <2>1
  <2>3. PICK m \in EventsIn(r) : r[m].seq = k
    BY <1>3, <2>2
  <2>4. m <= len
    BY <1>1, <1>3
  <2>5. QED
    BY <1>3, <1>9, <2>1, <2>3, <2>4
<1>11. Indexes(at, r)
  BY <1>9 DEF Indexes
<1>12. QED
  BY <1>2, <1>9, <1>10, <1>11 DEF at, r

\* A log with the same events: others may have published, and then it is mixed.
SameEvents(r, x) ==
    /\ EventsIn(x) = EventsIn(r) /\ (\A n \in EventsIn(r) : x[n] = r[n])
    /\ EventsIn(x) = DOMAIN x => EventsIn(r) = DOMAIN r

\* A stream reads nothing else of a log.
LEMMA StreamSame ==
    ASSUME NEW r, NEW x, SameEvents(r, x), NEW w, NEW ix, NEW ap, NEW g, NEW k, NEW d,
           StreamOf(r, w, ix, ap, g, k, d)
    PROVE  StreamOf(x, w, ix, ap, g, k, d)
<1>1. Versioned(x, k)
  <2>1. Versioned(r, k)
    BY DEF StreamOf
  <2>2. EventsIn(x) = EventsIn(r) /\ \A n \in EventsIn(r) : x[n] = r[n]
    BY DEF SameEvents
  <2>3. QED
    BY <2>1, <2>2 DEF Versioned
<1>2. \A v, c : Holds(r, v, c) => Holds(x, v, c)
  BY DEF Holds, SameEvents
<1>3. EventsIn(x) = DOMAIN x => (EventsIn(r) = DOMAIN r /\ \A at : Indexes(at, r) => Indexes(at, x))
  BY DEF Indexes, SameEvents
<1>4. AppendsKept(ap, g, r, d) => AppendsKept(ap, g, x, d)
  BY <1>2 DEF AppendsKept
<1>5. \A n : IndexOf(ix, r, n) => IndexOf(ix, x, n)
  BY <1>3 DEF IndexOf
<1>6. QED
  BY <1>1, <1>2, <1>4, <1>5 DEF StreamOf

\* Somebody else's record.
LEMMA OthersAppended ==
    ASSUME NEW r, IsASeq(r), NEW m, m.key # Aggregate
    PROVE  SameEvents(r, Append(r, m))
<1> DEFINE x == Append(r, m)
<1>1. /\ Len(r) \in Nat /\ DOMAIN r = 1 .. Len(r) /\ DOMAIN x = 1 .. Len(r) + 1
      /\ (\A i \in 1 .. Len(r) : x[i] = r[i]) /\ x[Len(r) + 1] = m
  BY AppendAny
<1> HIDE DEF x
<1>2. \A i \in DOMAIN x : i \in DOMAIN r \/ i = Len(r) + 1
  BY <1>1
<1>3. EventsIn(x) = EventsIn(r)
  BY <1>1, <1>2 DEF EventsIn
<1>4. \A n \in EventsIn(r) : x[n] = r[n]
  BY <1>1 DEF EventsIn
<1>5. Len(r) + 1 \in DOMAIN x /\ Len(r) + 1 \notin EventsIn(x)
  BY <1>1 DEF EventsIn
<1>6. QED
  BY <1>3, <1>4, <1>5 DEF SameEvents, x

\* The producer's and the transactions' records.
LEMMA OthersStored ==
    ASSUME NEW p, IsASeq(log[p]), NEW msgs, Len(msgs) \in Nat, \A i \in 1 .. Len(msgs) : msgs[i].key # Aggregate
    PROVE  SameEvents(log[p], EnqueueAll(p, msgs).recs)
<1> DEFINE n == Len(msgs)
           r == log[p]
<1>1. PICK st : /\ st[0] = [recs |-> r, known |-> producers[p], bad |-> FALSE]
                /\ \A i \in 1 .. n : st[i] = Enqueue(st[i - 1], msgs[i])
                /\ EnqueueAll(p, msgs) = st[n]
  BY EnqueueRun
<1>2. n \in Nat /\ (\A i \in 1 .. n : msgs[i].key # Aggregate) /\ IsASeq(r)
  OBVIOUS
<1> HIDE DEF n, r
<1> DEFINE S == {i \in 0 .. n : Staged(st[i]) /\ IsASeq(st[i].recs) /\ SameEvents(r, st[i].recs)}
<1>3. 0 \in S
  <2>1. Staged(st[0]) /\ st[0].recs = r
    BY <1>1 DEF Staged
  <2>2. SameEvents(r, r)
    BY DEF SameEvents
  <2>3. QED
    BY <1>2, <2>1, <2>2
<1>4. ASSUME NEW i \in 0 .. n - 1, i \in S PROVE i + 1 \in S
  <2>0. Staged(st[i]) /\ IsASeq(st[i].recs) /\ SameEvents(r, st[i].recs)
    BY <1>4
  <2>1. i + 1 \in 1 .. n /\ (i + 1) - 1 = i /\ i + 1 \in 0 .. n
    BY <1>2
  <2>2. st[i + 1] = Enqueue(st[i], msgs[i + 1]) /\ msgs[i + 1].key # Aggregate
    BY <1>1, <1>2, <2>1
  <2> DEFINE m == msgs[i + 1]
             new == Enqueue(st[i], m)
  <2>3. Staged(new) /\ (new.recs = st[i].recs \/ new.recs = Append(st[i].recs, m))
    BY <2>0, EnqueueCases
  <2> HIDE DEF new, m
  <2>4. IsASeq(new.recs) /\ SameEvents(r, new.recs)
    <3> DEFINE y == st[i].recs
    <3>1. IsASeq(Append(y, m)) /\ SameEvents(y, Append(y, m))
      BY <2>0, <2>2, AppendAny, OthersAppended DEF m
    <3> HIDE DEF y
    <3>2. SameEvents(y, Append(y, m)) /\ SameEvents(r, y) => SameEvents(r, Append(y, m))
      BY DEF SameEvents
    <3>3. QED
      BY <2>0, <2>3, <3>1, <3>2 DEF y
  <2>5. QED
    BY <2>1, <2>2, <2>3, <2>4 DEF new, m
<1>5. 0 .. n \subseteq S
  <2> HIDE DEF S
  <2>1. QED
    BY <1>2, <1>3, <1>4, UpTo
<1>6. QED
  BY <1>1, <1>2, <1>5 DEF r

\* The next version is appended.
LEMMA EventAppended ==
    ASSUME NEW r, IsASeq(r), NEW k, Versioned(r, k), NEW c
    PROVE  LET x == Append(r, Event(k + 1, c))
           IN  /\ Versioned(x, k + 1) /\ Holds(x, k + 1, c)
               /\ \A v, b : Holds(r, v, b) => Holds(x, v, b)
               /\ EventsIn(x) = DOMAIN x => EventsIn(r) = DOMAIN r
               /\ \A at : Indexes(at, r) => Indexes(at, x)
<1> DEFINE e == Event(k + 1, c)
           x == Append(r, e)
           n == Len(r) + 1
<1>1. /\ Len(r) \in Nat /\ DOMAIN r = 1 .. Len(r) /\ DOMAIN x = 1 .. n
      /\ (\A i \in 1 .. Len(r) : x[i] = r[i]) /\ x[n] = e
  BY AppendAny
<1>2. e.key = Aggregate /\ e.seq = k + 1 /\ e.epoch = c /\ e = Event(e.seq, e.epoch)
  BY DEF Event, Record
<1>3. /\ k \in Nat
      /\ \A i \in EventsIn(r) : r[i].seq \in 1 .. k /\ r[i] = Event(r[i].seq, r[i].epoch)
      /\ \A i, j \in EventsIn(r) : i < j => r[i].seq < r[j].seq
      /\ \A v \in 1 .. k : \E i \in EventsIn(r) : r[i].seq = v
  BY DEF Versioned
<1> HIDE DEF e, x
<1>4. n \in Nat /\ n \notin DOMAIN r /\ \A i \in DOMAIN x : i \in DOMAIN r \/ i = n
  BY <1>1
<1>5. EventsIn(x) = EventsIn(r) \cup {n} /\ EventsIn(r) \subseteq 1 .. Len(r) /\ \A i \in EventsIn(r) : x[i] = r[i]
  BY <1>1, <1>2, <1>4 DEF EventsIn
<1> HIDE DEF n
<1>6. \A i \in EventsIn(r) : i \in Nat /\ i < n
  BY <1>1, <1>5 DEF n
<1>7. Versioned(x, k + 1)
  <2>1. \A i \in EventsIn(x) : x[i].seq \in 1 .. k + 1 /\ x[i] = Event(x[i].seq, x[i].epoch)
    <3>1. ASSUME NEW i \in EventsIn(r) PROVE x[i].seq \in 1 .. k + 1 /\ x[i] = Event(x[i].seq, x[i].epoch)
      <4>1. x[i] = r[i] /\ r[i].seq \in 1 .. k /\ r[i] = Event(r[i].seq, r[i].epoch)
        BY <1>3, <1>5
      <4>2. r[i].seq \in 1 .. k + 1
        BY <1>3, <4>1
      <4>3. QED
        BY <4>1, <4>2
    <3>2. x[n].seq \in 1 .. k + 1 /\ x[n] = Event(x[n].seq, x[n].epoch)
      BY <1>1, <1>2, <1>3
    <3>3. QED
      BY <1>5, <3>1, <3>2
  <2>2. \A i, j \in EventsIn(x) : i < j => x[i].seq < x[j].seq
    <3>1. SUFFICES ASSUME NEW i \in EventsIn(x), NEW j \in EventsIn(x), i < j PROVE x[i].seq < x[j].seq
      OBVIOUS
    <3>2. i \in EventsIn(r)
      BY <1>4, <1>5, <1>6, <3>1
    <3>3. CASE j = n
      BY <1>1, <1>2, <1>3, <1>5, <3>2, <3>3
    <3>4. CASE j \in EventsIn(r)
      BY <1>3, <1>5, <3>1, <3>2, <3>4
    <3>5. QED
      BY <1>5, <3>3, <3>4
  <2>3. \A v \in 1 .. k + 1 : \E i \in EventsIn(x) : x[i].seq = v
    <3>1. SUFFICES ASSUME NEW v \in 1 .. k + 1 PROVE \E i \in EventsIn(x) : x[i].seq = v
      OBVIOUS
    <3>2. CASE v = k + 1
      BY <1>1, <1>2, <1>5, <3>2
    <3>3. CASE v # k + 1
      <4>1. v \in 1 .. k
        BY <1>3, <3>3
      <4>2. PICK i \in EventsIn(r) : r[i].seq = v
        BY <1>3, <4>1
      <4>3. QED
        BY <1>5, <4>2
    <3>4. QED
      BY <3>2, <3>3
  <2>4. QED
    BY <1>3, <2>1, <2>2, <2>3 DEF Versioned
<1>8. Holds(x, k + 1, c)
  BY <1>1, <1>2, <1>5 DEF Holds
<1>9. \A v, b : Holds(r, v, b) => Holds(x, v, b)
  BY <1>5 DEF Holds
<1>10. EventsIn(x) = DOMAIN x => EventsIn(r) = DOMAIN r
  <2>1. EventsIn(r) = EventsIn(x) \ {n} /\ DOMAIN r = DOMAIN x \ {n}
    BY <1>1, <1>4, <1>5, <1>6 DEF n
  <2>2. QED
    BY <2>1
<1>11. \A at : Indexes(at, r) => Indexes(at, x)
  BY <1>5 DEF Indexes
<1>12. QED
  BY <1>7, <1>8, <1>9, <1>10, <1>11 DEF x, e

-----------------------------------------------------------------------------
(* The writers: at most one is at work.                                    *)

Put(w, c, a, v) == [w EXCEPT ![c] = [at |-> a, version |-> v]]
WriterRecs(w) == w = [c \in Writers |-> w[c]] /\ \A c \in Writers : w[c] = [at |-> w[c].at, version |-> w[c].version]
OneWriter(w, c, a, v) ==
    /\ WriterRecs(w) /\ w[c] = [at |-> a, version |-> v]
    /\ \A b \in Writers : b # c => w[b].at = "idle"

\* Writers are numbers, and nobody is not one of them.
LEMMA WritersPositive ==
    ASSUME NEW c \in Writers
    PROVE  c # Nobody
  BY StreamConstants DEF Nobody

\* A writer at work is the only one.
LEMMA Alone ==
    ASSUME NEW w, NEW ix, WritersOf(w, ix), NEW c \in Writers, w[c].at # "idle"
    PROVE  OneWriter(w, c, w[c].at, w[c].version)
<1>1. WriterRecs(w)
  BY DEF WritersOf, WriterRecs
<1>2. ASSUME NEW b \in Writers, b # c, w[b].at # "idle" PROVE FALSE
  <2>1. CASE Does("solo")
    BY <1>2, <2>1 DEF WritersOf
  <2>2. CASE ~Does("solo")
    BY <1>2, <2>2 DEF WritersOf
  <2>3. QED
    BY <2>1, <2>2
<1>3. QED
  BY <1>1, <1>2 DEF OneWriter, WriterRecs

\* When the lock is free, a client that may write finds nobody at work.
LEMMA NobodyAtWork ==
    ASSUME NEW w, NEW ix, WritersOf(w, ix), ix.lock = Nobody, NEW c \in Writers, w[c].at = "idle",
           Does("solo") => c = Min(Writers)
    PROVE  Idle(w)
<1>1. SUFFICES ASSUME NEW b \in Writers, w[b].at # "idle" PROVE FALSE
  BY DEF Idle
<1>2. CASE Does("solo")
  BY <1>1, <1>2 DEF WritersOf
<1>3. CASE ~Does("solo")
  BY <1>1, <1>3, WritersPositive DEF WritersOf
<1>4. QED
  BY <1>2, <1>3

\* One writer's record is set.
LEMMA PutAlone ==
    ASSUME NEW w, WriterRecs(w), NEW c \in Writers, \A b \in Writers : b # c => w[b].at = "idle", NEW a, NEW v
    PROVE  OneWriter(Put(w, c, a, v), c, a, v)
<1> DEFINE x == Put(w, c, a, v)
           y == [at |-> a, version |-> v]
<1>1. y.at = a /\ y.version = v
  OBVIOUS
<1>2. x = [w EXCEPT ![c] = y]
  BY DEF Put
<1> HIDE DEF x
<1>3. x = [b \in Writers |-> IF b = c THEN y ELSE w[b]]
  BY <1>2 DEF WriterRecs
<1> HIDE DEF y
<1>4. x[c] = y /\ \A b \in Writers : b # c => x[b] = w[b]
  BY <1>3
<1>5. x = [b \in Writers |-> x[b]]
  BY <1>3
<1>6. \A b \in Writers : x[b] = [at |-> x[b].at, version |-> x[b].version]
  <2>1. y = [at |-> y.at, version |-> y.version]
    BY <1>1 DEF y
  <2>2. QED
    BY <1>4, <2>1 DEF WriterRecs
<1>7. WriterRecs(x)
  BY <1>5, <1>6 DEF WriterRecs
<1>8. QED
  BY <1>4, <1>7 DEF OneWriter, x, y

\* The stream with one writer at work.
LEMMA AtWork ==
    ASSUME NEW w, NEW c \in Writers, NEW a \in {"enqueued", "failed", "reset"}, NEW d \in Nat, OneWriter(w, c, a, d + 1),
           NEW ix, ix = [open |-> TRUE, at |-> ix.at, lock |-> IF a = "enqueued" THEN c ELSE Nobody],
           IF Does("solo") THEN c = Min(Writers) ELSE a = "enqueued",
           NEW r, NEW k \in {d, d + 1}, Versioned(r, k), a = "enqueued" => k = d + 1, k = d + 1 => Holds(r, k, c),
           IndexOf(ix, r, IF a = "reset" THEN 0 ELSE d), NEW ap, NEW g, AppendsKept(ap, g, r, d)
    PROVE  WritersOf(w, ix) /\ StreamOf(r, w, ix, ap, g, k, d)
<1>1. /\ WriterRecs(w) /\ w[c].at = a /\ w[c].version = d + 1
      /\ \A b \in Writers : b # c => w[b].at = "idle"
  BY DEF OneWriter
<1>2. ix.open = TRUE /\ ix.lock = IF a = "enqueued" THEN c ELSE Nobody
  OBVIOUS
<1>3. ~Idle(w)
  BY <1>1 DEF Idle
<1>4. (\E b \in Writers : w[b].at = "reset") <=> a = "reset"
  BY <1>1
<1>5. WritersOf(w, ix)
  <2>1. ASSUME NEW b \in Writers
        PROVE  /\ w[b].at \in {"idle", "enqueued", "failed", "reset"}
               /\ w[b].at = "enqueued" <=> ix.lock = b
               /\ w[b].at # "idle" => IF Does("solo") THEN b = Min(Writers) ELSE w[b].at = "enqueued"
    <3>1. CASE b = c
      BY <1>1, <1>2, <3>1, WritersPositive
    <3>2. CASE b # c
      BY <1>1, <1>2, <3>2, WritersPositive
    <3>3. QED
      BY <3>1, <3>2
  <2>2. ix = [open |-> ix.open, at |-> ix.at, lock |-> ix.lock] /\ ix.open \in BOOLEAN /\ ix.lock \in Writers \cup {Nobody}
    BY <1>2
  <2>3. QED
    BY <1>1, <1>2, <2>1, <2>2 DEF WritersOf, WriterRecs
<1>6. StreamOf(r, w, ix, ap, g, k, d)
  <2>1. ASSUME NEW b \in Writers, w[b].at # "idle"
        PROVE  /\ w[b].version = d + 1 /\ k \in {d, d + 1}
               /\ w[b].at = "enqueued" => k = d + 1
               /\ k = d + 1 => Holds(r, k, b)
    <3>1. b = c
      BY <1>1, <2>1
    <3>2. QED
      BY <1>1, <3>1
  <2>2. IndexOf(ix, r, IF \E b \in Writers : w[b].at = "reset" THEN 0 ELSE d)
    BY <1>4
  <2>3. QED
    BY <1>3, <2>1, <2>2 DEF StreamOf
<1>7. QED
  BY <1>5, <1>6

\* The stream with nobody at work.
LEMMA AtRest ==
    ASSUME NEW w, WriterRecs(w), Idle(w), NEW ix, ix = Closed \/ ix = [open |-> TRUE, at |-> ix.at, lock |-> Nobody],
           NEW r, NEW k \in Nat, Versioned(r, k), ix.open => IndexOf(ix, r, k), NEW ap, NEW g, AppendsKept(ap, g, r, k)
    PROVE  WritersOf(w, ix) /\ StreamOf(r, w, ix, ap, g, k, k)
<1>1. /\ ix = [open |-> ix.open, at |-> ix.at, lock |-> ix.lock] /\ ix.open \in BOOLEAN
      /\ ix.lock = Nobody /\ (~ix.open => ix = Closed)
  <2>1. CASE ix = Closed
    <3>1. Closed.open = FALSE /\ Closed.at = << >> /\ Closed.lock = Nobody /\ Closed = [open |-> FALSE, at |-> << >>, lock |-> Nobody]
      BY DEF Closed
    <3>2. QED
      BY <2>1, <3>1
  <2>2. CASE ix = [open |-> TRUE, at |-> ix.at, lock |-> Nobody]
    <3>1. ix.open = TRUE /\ ix.lock = Nobody
      BY <2>2
    <3>2. QED
      BY <2>2, <3>1
  <2>3. QED
    BY <2>1, <2>2
<1>2. \A b \in Writers : w[b].at = "idle" /\ b # Nobody
  BY WritersPositive DEF Idle
<1>3. WritersOf(w, ix)
  BY <1>1, <1>2 DEF WritersOf, WriterRecs
<1>4. IF \E b \in Writers : w[b].at = "reset" THEN FALSE ELSE TRUE
  BY <1>2
<1>5. (IF \E b \in Writers : w[b].at = "reset" THEN 0 ELSE k) = k
  BY <1>4
<1>6. StreamOf(r, w, ix, ap, g, k, k)
  BY <1>2, <1>5 DEF StreamOf
<1>7. QED
  BY <1>3, <1>6

-----------------------------------------------------------------------------
(* The requests of the writers.                                            *)

StreamNow(k, d) == WritersOf(writer, index) /\ StreamOf(log[Home], writer, index, appended, topic.gen, k, d)
StreamNext ==
    \E k, d \in Nat : WritersOf(writer', index') /\ StreamOf(log'[Home], writer', index', appended', topic'.gen, k, d)

\* Fields of an index record are replaced.
LEMMA IndexRecords ==
    ASSUME NEW o, NEW a, NEW l, NEW ix, ix = [open |-> o, at |-> a, lock |-> l], NEW b, NEW m
    PROVE  /\ [ix EXCEPT !.lock = m] = [open |-> o, at |-> a, lock |-> m]
           /\ [ix EXCEPT !.at = b, !.lock = m] = [open |-> o, at |-> b, lock |-> m]
<1>1. [ix EXCEPT !.lock = m] = [open |-> o, at |-> a, lock |-> m]
  OBVIOUS
<1>2. [ix EXCEPT !.at = b, !.lock = m] = [open |-> o, at |-> b, lock |-> m]
  <2> DEFINE x == [ix EXCEPT !.at = b, !.lock = m]
  <2>1. DOMAIN ix = {"open", "at", "lock"} /\ ix.open = o
    OBVIOUS
  <2>2. DOMAIN x = {"open", "at", "lock"} /\ x.open = o /\ x.at = b /\ x.lock = m
    BY <2>1
  <2>3. x = [f \in {"open", "at", "lock"} |-> x[f]]
    BY <2>1
  <2> HIDE DEF x
  <2>4. x = [open |-> o, at |-> b, lock |-> m]
    BY <2>2, <2>3
  <2>5. QED
    BY <2>4 DEF x
<1>3. QED
  BY <1>1, <1>2

\* The number of versions that a writer may have been told of is at most one behind.
LEMMA StreamParts ==
    ASSUME NEW k, NEW d, StreamNow(k, d)
    PROVE  /\ WriterRecs(writer) /\ Versioned(log[Home], k) /\ k \in Nat /\ d \in Nat /\ k \in {d, d + 1}
           /\ Idle(writer) => k = d
           /\ AppendsKept(appended, topic.gen, log[Home], d)
           /\ AppendsKept(appended, topic.gen, log[Home], k)
           /\ index = [open |-> index.open, at |-> index.at, lock |-> index.lock] /\ index.open \in BOOLEAN
           /\ ~index.open => index = Closed /\ Idle(writer)
<1>1. WritersOf(writer, index) /\ StreamOf(log[Home], writer, index, appended, topic.gen, k, d)
  BY DEF StreamNow
<1>2. k \in Nat /\ d \in Nat /\ Versioned(log[Home], k)
  BY <1>1 DEF StreamOf, Versioned
<1>3. k \in {d, d + 1} /\ (Idle(writer) => k = d)
  <2>1. CASE Idle(writer)
    BY <1>1, <2>1 DEF StreamOf
  <2>2. CASE ~Idle(writer)
    BY <1>1, <2>2 DEF StreamOf, Idle
  <2>3. QED
    BY <2>1, <2>2
<1>4. AppendsKept(appended, topic.gen, log[Home], d)
  BY <1>1 DEF StreamOf
<1>5. AppendsKept(appended, topic.gen, log[Home], k)
  <2>1. 1 .. d \subseteq 1 .. k
    BY <1>2, <1>3
  <2>2. QED
    BY <1>4, <2>1 DEF AppendsKept
<1>6. QED
  BY <1>1, <1>2, <1>3, <1>4, <1>5 DEF WritersOf, WriterRecs

\* getIndex.
LEMMA GetIndexOk ==
    ASSUME NEW k, NEW d, StreamNow(k, d), IsASeq(log[Home])
    PROVE  /\ GetIndex = [open |-> TRUE, at |-> GetIndex.at, lock |-> index.lock]
           /\ WritersOf(writer, GetIndex)
           /\ StreamOf(log[Home], writer, GetIndex, appended, topic.gen, k, d)
<1>1. CASE index.open
  <2>1. GetIndex = index
    BY <1>1 DEF GetIndex
  <2>2. index = [open |-> index.open, at |-> index.at, lock |-> index.lock] /\ index.open = TRUE
    BY <1>1, StreamParts
  <2>3. QED
    BY <2>1, <2>2 DEF StreamNow
<1>2. CASE ~index.open
  <2> DEFINE at == IndexMessages(<< >>)
             ix == [open |-> TRUE, at |-> at, lock |-> Nobody]
  <2>1. GetIndex = ix
    BY <1>2 DEF GetIndex, Closed
  <2>2. /\ WriterRecs(writer) /\ Idle(writer) /\ Versioned(log[Home], k) /\ k \in Nat /\ k = d /\ index = Closed
        /\ AppendsKept(appended, topic.gen, log[Home], k)
    BY <1>2, StreamParts
  <2>3. at \in Seq(Nat) /\ Len(at) = k /\ Indexes(at, log[Home])
    BY <2>2, ScanFinds
  <2> HIDE DEF at
  <2>4. ix.at = at /\ ix = [open |-> TRUE, at |-> ix.at, lock |-> Nobody] /\ index.lock = Nobody
    BY <2>2 DEF Closed
  <2> HIDE DEF ix
  <2>5. IndexOf(ix, log[Home], k)
    BY <2>3, <2>4 DEF IndexOf
  <2>6. WritersOf(writer, ix) /\ StreamOf(log[Home], writer, ix, appended, topic.gen, k, k)
    BY <2>2, <2>4, <2>5, AtRest
  <2>7. QED
    BY <2>1, <2>2, <2>4, <2>6
<1>3. QED
  BY <1>1, <1>2, StreamParts

\* A request that at most opens the index.
LEMMA IndexOpened ==
    ASSUME NEW k, NEW d, StreamNow(k, d), IsASeq(log[Home]), index' \in {index, GetIndex},
           UNCHANGED <<writer, log, appended, topic>>
    PROVE  StreamNext
<1>1. k \in Nat /\ d \in Nat
  BY StreamParts
<1>2. WritersOf(writer, index') /\ StreamOf(log[Home], writer, index', appended, topic.gen, k, d)
  <2>1. CASE index' = index
    BY <2>1 DEF StreamNow
  <2>2. CASE index' = GetIndex
    BY <2>2, GetIndexOk
  <2>3. QED
    BY <2>1, <2>2
<1>3. QED
  BY <1>1, <1>2 DEF StreamNext

\* AppendStream.
LEMMA AppendStreamOk ==
    ASSUME OneAtATime, NEW k, NEW d, StreamNow(k, d), LogsOk, NEW c \in Writers, NEW v \in 1 .. MaxEvents, AppendStream(c, v)
    PROVE  StreamNext
<1>1. Home \in Partitions /\ IsASeq(log[Home])
  BY LogConstants DEF LogsOk, Home, Partitions
<1>2. writer[c].at = "idle" /\ index.lock = Nobody /\ (Does("solo") => c = Min(Writers)) /\ appended' = appended
  BY DEF AppendStream, Streaming
<1>3. CASE ~Accepts(GetIndex.at, v)
  BY <1>1, <1>3, IndexOpened DEF AppendStream, logVars
<1> DEFINE ix == GetIndex
           r == log[Home]
<1>4. Idle(writer)
  BY <1>2, NobodyAtWork DEF StreamNow
<1>5. /\ WriterRecs(writer) /\ Versioned(r, k) /\ k \in Nat /\ k = d /\ AppendsKept(appended, topic.gen, r, k)
  BY <1>4, StreamParts
<1>6. /\ ix = [open |-> TRUE, at |-> ix.at, lock |-> Nobody]
      /\ StreamOf(r, writer, ix, appended, topic.gen, k, d)
  BY <1>1, <1>2, GetIndexOk
<1>7. IndexOf(ix, r, k)
  <2>1. ix.open = TRUE /\ ~\E b \in Writers : writer[b].at = "reset"
    BY <1>4, <1>6 DEF Idle
  <2>2. QED
    BY <1>5, <1>6, <2>1 DEF StreamOf
<1> HIDE DEF ix, r
<1>8. ASSUME Accepts(GetIndex.at, v) PROVE v = k + 1
  BY <1>7, <1>8 DEF Accepts, IndexOf, ix
<1>9. \A b \in Writers : writer[b].at = "idle"
  BY <1>4 DEF Idle
<1>10. CASE /\ Accepts(GetIndex.at, v) /\ log' = [log EXCEPT ![Home] = Append(@, Event(v, c))]
            /\ index' = [GetIndex EXCEPT !.lock = c] /\ SetWriter(c, "enqueued", v) /\ UNCHANGED <<topic, producers, faults>>
  <2>1. v = k + 1
    BY <1>8, <1>10
  <2> DEFINE x == Append(r, Event(k + 1, c))
             w == Put(writer, c, "enqueued", k + 1)
             y == [open |-> TRUE, at |-> ix.at, lock |-> c]
  <2>2. log'[Home] = x /\ topic' = topic
    BY <1>1, <1>10, <2>1 DEF LogsOk, r
  <2>3. writer' = w
    BY <1>10, <2>1 DEF SetWriter, Put
  <2>4. index' = y
    <3>1. PICK at : at = ix.at
      OBVIOUS
    <3>2. index' = [ix EXCEPT !.lock = c] /\ ix = [open |-> TRUE, at |-> at, lock |-> Nobody]
      BY <1>6, <1>10, <3>1 DEF ix
    <3>3. PICK o, l, z : o = TRUE /\ l = Nobody /\ z = ix
      OBVIOUS
    <3>4. z = [open |-> o, at |-> at, lock |-> l]
      BY <3>2, <3>3
    <3>5. [z EXCEPT !.lock = c] = [open |-> o, at |-> at, lock |-> c]
      BY <3>4
    <3>6. QED
      BY <3>1, <3>2, <3>3, <3>5
  <2>5. /\ Versioned(x, k + 1) /\ Holds(x, k + 1, c) /\ (\A u, b : Holds(r, u, b) => Holds(x, u, b))
        /\ (EventsIn(x) = DOMAIN x => EventsIn(r) = DOMAIN r)
        /\ \A at : Indexes(at, r) => Indexes(at, x)
    BY <1>1, <1>5, EventAppended DEF r
  <2>6. OneWriter(w, c, "enqueued", k + 1)
    BY <1>5, <1>9, PutAlone
  <2>7. y.at = ix.at /\ y = [open |-> TRUE, at |-> y.at, lock |-> c]
    OBVIOUS
  <2> HIDE DEF x, w, y
  <2>8. IndexOf(y, x, k)
    BY <1>7, <2>5, <2>7 DEF IndexOf
  <2>9. AppendsKept(appended, topic.gen, x, k)
    BY <1>5, <2>5 DEF AppendsKept
  <2>10. PICK a \in {"enqueued", "failed", "reset"} : a = "enqueued"
    OBVIOUS
  <2>11. PICK n : n = k + 1
    OBVIOUS
  <2>12. n \in {k, k + 1} /\ n \in Nat /\ Versioned(x, n) /\ Holds(x, n, c)
    BY <1>5, <2>5, <2>11
  <2>13. y = [open |-> TRUE, at |-> y.at, lock |-> IF a = "enqueued" THEN c ELSE Nobody]
    BY <2>7, <2>10
  <2>14. IndexOf(y, x, IF a = "reset" THEN 0 ELSE k)
    BY <2>8, <2>10
  <2>15. OneWriter(w, c, a, k + 1) /\ IF Does("solo") THEN c = Min(Writers) ELSE a = "enqueued"
    BY <1>2, <2>6, <2>10
  <2>16. WritersOf(w, y) /\ StreamOf(x, w, y, appended, topic.gen, n, k)
    BY <1>5, <2>9, <2>11, <2>12, <2>13, <2>14, <2>15, AtWork
  <2>17. QED
    BY <1>2, <1>5, <2>2, <2>3, <2>4, <2>12, <2>16 DEF StreamNext
<1>11. CASE /\ Accepts(GetIndex.at, v) /\ Does("disk") /\ index' = GetIndex /\ SetWriter(c, "failed", v) /\ UNCHANGED logVars
  <2>1. v = k + 1 /\ Does("solo")
    BY <1>8, <1>11 DEF OneAtATime
  <2> DEFINE w == Put(writer, c, "failed", k + 1)
  <2>2. log'[Home] = r /\ topic' = topic
    BY <1>11 DEF logVars, r
  <2>3. writer' = w
    BY <1>11, <2>1 DEF SetWriter, Put
  <2>4. OneWriter(w, c, "failed", k + 1)
    BY <1>5, <1>9, PutAlone
  <2> HIDE DEF w
  <2>5. PICK a \in {"enqueued", "failed", "reset"} : a = "failed"
    OBVIOUS
  <2>6. /\ ix = [open |-> TRUE, at |-> ix.at, lock |-> IF a = "enqueued" THEN c ELSE Nobody]
        /\ IndexOf(ix, r, IF a = "reset" THEN 0 ELSE k)
    BY <1>6, <1>7, <2>5
  <2>7. k \in {k, k + 1} /\ k # k + 1
    BY <1>5
  <2>8. WritersOf(w, ix) /\ StreamOf(r, w, ix, appended, topic.gen, k, k)
    BY <1>2, <1>5, <2>1, <2>4, <2>5, <2>6, <2>7, AtWork
  <2>9. QED
    BY <1>2, <1>5, <1>11, <2>2, <2>3, <2>8 DEF StreamNext, ix
<1>12. QED
  BY <1>3, <1>10, <1>11 DEF AppendStream

\* An append is answered: the versions that have been told of are those of the log.
LEMMA Answers ==
    ASSUME NEW k \in Nat, Versioned(log[Home], k), NEW c \in Writers, OneWriter(writer, c, writer[c].at, k),
           Holds(log[Home], k, c), AppendsKept(appended, topic.gen, log[Home], k), Succeeds(c), TopicOk,
           k > 0, index' = [open |-> TRUE, at |-> index'.at, lock |-> Nobody], IndexOf(index', log[Home], k), UNCHANGED logVars
    PROVE  StreamNext
<1> DEFINE w == Put(writer, c, "idle", 0)
           r == log[Home]
<1>1. writer' = w /\ log' = log /\ topic' = topic
  BY DEF Succeeds, SetWriter, Put, logVars
<1>2. WriterRecs(writer) /\ writer[c].version = k /\ \A b \in Writers : b # c => writer[b].at = "idle"
  BY DEF OneWriter
<1>3. OneWriter(w, c, "idle", 0)
  BY <1>2, PutAlone
<1> HIDE DEF w, r
<1>4. WriterRecs(w) /\ Idle(w)
  BY <1>3 DEF OneWriter, Idle
<1>5. AppendsKept(appended', topic.gen, r, k)
  <2>1. CASE appended' = appended
    BY <2>1 DEF r
  <2>2. CASE appended' = appended \cup {<<writer[c].version, c, topic.gen>>}
    <3>1. ASSUME NEW x \in appended'
          PROVE  x[3] \in Nat /\ x[3] <= topic.gen /\ (x[3] = topic.gen => x[1] \in 1 .. k /\ Holds(r, x[1], x[2]))
      <4>1. CASE x \in appended
        BY <4>1 DEF AppendsKept, r
      <4>2. CASE x = <<k, c, topic.gen>>
        BY <4>2 DEF TopicOk, r
      <4>3. QED
        BY <1>2, <2>2, <4>1, <4>2
    <3>2. QED
      BY <3>1 DEF AppendsKept
  <2>3. QED
    BY <2>1, <2>2 DEF Succeeds
<1>6. PICK ix, ap : ix = index' /\ ap = appended'
  OBVIOUS
<1>7. /\ ix = [open |-> TRUE, at |-> ix.at, lock |-> Nobody] /\ IndexOf(ix, r, k) /\ AppendsKept(ap, topic.gen, r, k)
      /\ Versioned(r, k)
  BY <1>5, <1>6 DEF r
<1>8. WritersOf(w, ix) /\ StreamOf(r, w, ix, ap, topic.gen, k, k)
  BY <1>4, <1>7, AtRest
<1>9. QED
  BY <1>1, <1>6, <1>8 DEF StreamNext, r

\* AppendLocked: in a log of events alone the last record is the version that was appended.
LEMMA AppendLockedOk ==
    ASSUME OneAtATime, NEW k, NEW d, StreamNow(k, d), LogsOk, TopicOk, NEW c \in Writers, AppendLocked(c)
    PROVE  StreamNext
<1> DEFINE r == log[Home]
           n == Len(r)
<1>1. Home \in Partitions /\ IsASeq(r)
  BY LogConstants DEF LogsOk, Home, Partitions
<1>2. n \in Nat /\ DOMAIN r = 1 .. n
  BY <1>1, SeqParts
<1>3. writer[c].at = "enqueued" /\ UNCHANGED logVars
  BY DEF AppendLocked
<1>4. OneWriter(writer, c, "enqueued", writer[c].version)
  BY <1>3, Alone DEF StreamNow
<1>5. /\ writer[c].version = d + 1 /\ k = d + 1 /\ Holds(r, k, c)
  BY <1>3 DEF StreamNow, StreamOf
<1>6. /\ WriterRecs(writer) /\ Versioned(r, k) /\ k \in Nat /\ d \in Nat
      /\ AppendsKept(appended, topic.gen, r, d) /\ AppendsKept(appended, topic.gen, r, k)
      /\ index = [open |-> index.open, at |-> index.at, lock |-> index.lock] /\ index.open = TRUE
  BY <1>3, StreamParts DEF Idle
<1>7. IndexOf(index, r, d)
  <2>1. ~\E b \in Writers : writer[b].at = "reset"
    BY <1>3, <1>4 DEF OneWriter
  <2>2. QED
    BY <1>6, <2>1 DEF StreamNow, StreamOf
<1>8. EventsIn(r) = DOMAIN r => n \in EventsIn(r) /\ r[n].seq = k
  <2>1. PICK i \in EventsIn(r) : r[i].seq = k
    BY <1>5 DEF Holds
  <2>2. SUFFICES ASSUME EventsIn(r) = DOMAIN r PROVE n \in EventsIn(r) /\ i = n
    BY <2>1
  <2>3. i \in 1 .. n /\ n \in EventsIn(r)
    BY <1>2, <2>1, <2>2
  <2>4. ~(i < n)
    BY <1>6, <2>1, <2>3 DEF Versioned
  <2>5. QED
    BY <1>2, <2>3, <2>4
<1> HIDE DEF r, n
<1>9. PICK at : at = index.at
  OBVIOUS
<1>10. index = [open |-> TRUE, at |-> at, lock |-> index.lock] /\ at \in Seq(Nat) /\ Len(at) = d
  BY <1>6, <1>7, <1>9 DEF IndexOf
<1>11. CASE index' = [index EXCEPT !.at = Append(@, Len(log[Home])), !.lock = Nobody] /\ Succeeds(c)
  <2> DEFINE new == Append(at, n)
  <2>1. index' = [open |-> TRUE, at |-> new, lock |-> Nobody]
    <3>1. index' = [index EXCEPT !.at = new, !.lock = Nobody]
      BY <1>9, <1>11 DEF n, r
    <3>2. PICK l : l = index.lock
      OBVIOUS
    <3>3. index = [open |-> TRUE, at |-> at, lock |-> l]
      BY <1>10, <3>2
    <3> HIDE DEF new
    <3>4. QED
      BY <3>1, <3>3, IndexRecords
  <2>2. new \in Seq(Nat) /\ Len(new) = k /\ DOMAIN new = 1 .. k /\ (\A v \in 1 .. d : new[v] = at[v]) /\ new[k] = n
    BY <1>2, <1>5, <1>6, <1>10
  <2> HIDE DEF new
  <2>3. EventsIn(r) = DOMAIN r => Indexes(new, r)
    <3>1. SUFFICES ASSUME EventsIn(r) = DOMAIN r, NEW v \in 1 .. k PROVE new[v] \in EventsIn(r) /\ r[new[v]].seq = v
      BY <2>2 DEF Indexes
    <3>2. CASE v = k
      BY <1>8, <2>2, <3>1, <3>2
    <3>3. CASE v # k
      <4>1. v \in 1 .. d
        BY <1>5, <1>6, <3>3
      <4>2. DOMAIN at = 1 .. d
        BY <1>10
      <4>3. at[v] \in EventsIn(r) /\ r[at[v]].seq = v
        BY <1>7, <1>9, <3>1, <4>1, <4>2 DEF IndexOf, Indexes
      <4>4. QED
        BY <2>2, <4>1, <4>3
    <3>4. QED
      BY <3>2, <3>3
  <2>4. index'.at = new /\ index' = [open |-> TRUE, at |-> index'.at, lock |-> Nobody]
    BY <2>1
  <2>5. IndexOf(index', r, k)
    BY <2>2, <2>3, <2>4 DEF IndexOf
  <2>6. OneWriter(writer, c, writer[c].at, k) /\ k > 0
    BY <1>3, <1>4, <1>5, <1>6
  <2>7. QED
    BY <1>3, <1>5, <1>6, <1>11, <2>4, <2>5, <2>6, Answers DEF r
<1>12. CASE /\ Does("index") /\ index' = [index EXCEPT !.lock = Nobody]
            /\ SetWriter(c, "failed", writer[c].version) /\ UNCHANGED appended
  <2> DEFINE w == Put(writer, c, "failed", d + 1)
             ix == [open |-> TRUE, at |-> at, lock |-> Nobody]
  <2>1. writer' = w
    BY <1>5, <1>12 DEF SetWriter, Put
  <2>2. index' = ix
    <3>1. PICK l : l = index.lock
      OBVIOUS
    <3>2. index = [open |-> TRUE, at |-> at, lock |-> l] /\ index' = [index EXCEPT !.lock = Nobody]
      BY <1>10, <1>12, <3>1
    <3>3. QED
      BY <3>2, IndexRecords
  <2>3. OneWriter(w, c, "failed", d + 1)
    BY <1>4, PutAlone DEF OneWriter
  <2>4. ix.at = at /\ ix = [open |-> TRUE, at |-> ix.at, lock |-> Nobody]
    OBVIOUS
  <2> HIDE DEF w, ix
  <2>5. Does("solo") /\ c = Min(Writers)
    <3>1. Does("solo")
      BY <1>12 DEF OneAtATime
    <3>2. QED
      BY <1>3, <3>1 DEF StreamNow, WritersOf
  <2>6. IndexOf(ix, r, d)
    BY <1>7, <1>9, <2>4 DEF IndexOf
  <2>7. PICK a \in {"enqueued", "failed", "reset"} : a = "failed"
    OBVIOUS
  <2>8. /\ ix = [open |-> TRUE, at |-> ix.at, lock |-> IF a = "enqueued" THEN c ELSE Nobody]
        /\ IndexOf(ix, r, IF a = "reset" THEN 0 ELSE d)
    BY <2>4, <2>6, <2>7
  <2>9. WritersOf(w, ix) /\ StreamOf(r, w, ix, appended, topic.gen, k, d)
    BY <1>5, <1>6, <2>3, <2>5, <2>7, <2>8, AtWork
  <2>10. QED
    BY <1>3, <1>6, <1>12, <2>1, <2>2, <2>9 DEF StreamNext, r, logVars
<1>13. QED
  BY <1>11, <1>12 DEF AppendLocked

\* ResetIndex.
LEMMA ResetIndexOk ==
    ASSUME NEW k, NEW d, StreamNow(k, d), NEW c \in Writers, ResetIndex(c)
    PROVE  StreamNext
<1> DEFINE r == log[Home]
           w == Put(writer, c, "reset", d + 1)
           ix == [open |-> TRUE, at |-> << >>, lock |-> Nobody]
<1>1. writer[c].at = "failed" /\ index.lock = Nobody /\ UNCHANGED <<logVars, appended>>
  BY DEF ResetIndex
<1>2. OneWriter(writer, c, "failed", writer[c].version)
  BY <1>1, Alone DEF StreamNow
<1>3. writer[c].version = d + 1 /\ k \in {d, d + 1} /\ (k = d + 1 => Holds(r, k, c))
  BY <1>1 DEF StreamNow, StreamOf
<1>4. /\ WriterRecs(writer) /\ Versioned(r, k) /\ k \in Nat /\ d \in Nat
      /\ AppendsKept(appended, topic.gen, r, d)
      /\ index = [open |-> index.open, at |-> index.at, lock |-> index.lock] /\ index.open = TRUE
  BY <1>1, StreamParts DEF Idle
<1>5. writer' = w
  BY <1>3 DEF ResetIndex, SetWriter, Put
<1>6. index' = ix
  <2>1. PICK at : at = index.at
    OBVIOUS
  <2>2. index = [open |-> TRUE, at |-> at, lock |-> Nobody] /\ index' = [index EXCEPT !.at = << >>]
    BY <1>1, <1>4, <2>1 DEF ResetIndex
  <2>3. QED
    BY <2>2
<1>7. OneWriter(w, c, "reset", d + 1)
  BY <1>2, PutAlone DEF OneWriter
<1>8. Does("solo") /\ c = Min(Writers)
  BY <1>1 DEF StreamNow, WritersOf
<1>9. ix.at = << >> /\ ix = [open |-> TRUE, at |-> ix.at, lock |-> Nobody]
  OBVIOUS
<1> HIDE DEF r, w, ix
<1>10. IndexOf(ix, r, 0)
  <2>1. << >> \in Seq(Nat) /\ Len(<< >>) = 0 /\ DOMAIN << >> = {}
    OBVIOUS
  <2>2. QED
    BY <1>9, <2>1 DEF IndexOf, Indexes
<1>11. PICK a \in {"enqueued", "failed", "reset"} : a = "reset"
  OBVIOUS
<1>12. /\ ix = [open |-> TRUE, at |-> ix.at, lock |-> IF a = "enqueued" THEN c ELSE Nobody]
       /\ IndexOf(ix, r, IF a = "reset" THEN 0 ELSE d)
  BY <1>9, <1>10, <1>11
<1>13. WritersOf(w, ix) /\ StreamOf(r, w, ix, appended, topic.gen, k, d)
  BY <1>3, <1>4, <1>7, <1>8, <1>11, <1>12, AtWork
<1>14. QED
  BY <1>1, <1>4, <1>5, <1>6, <1>13 DEF StreamNext, r, logVars

\* RebuildIndex: the scan finds whether the version was written.
LEMMA RebuildIndexOk ==
    ASSUME NEW k, NEW d, StreamNow(k, d), LogsOk, TopicOk, NEW c \in Writers, RebuildIndex(c)
    PROVE  StreamNext
<1> DEFINE r == log[Home]
<1>1. Home \in Partitions /\ IsASeq(r)
  BY LogConstants DEF LogsOk, Home, Partitions
<1>2. writer[c].at = "reset" /\ index.lock = Nobody /\ UNCHANGED logVars
  BY DEF RebuildIndex
<1>3. OneWriter(writer, c, "reset", writer[c].version)
  BY <1>2, Alone DEF StreamNow
<1>4. writer[c].version = d + 1 /\ k \in {d, d + 1} /\ (k = d + 1 => Holds(r, k, c))
  BY <1>2 DEF StreamNow, StreamOf
<1>5. /\ WriterRecs(writer) /\ Versioned(r, k) /\ k \in Nat /\ d \in Nat
      /\ AppendsKept(appended, topic.gen, r, k)
      /\ index = [open |-> index.open, at |-> index.at, lock |-> index.lock] /\ index.open = TRUE
  BY <1>2, StreamParts DEF Idle
<1>6. index.at = << >>
  <2>1. \E b \in Writers : writer[b].at = "reset"
    BY <1>2
  <2>2. index.at \in Seq(Nat) /\ Len(index.at) = 0
    BY <1>5, <2>1 DEF StreamNow, StreamOf, IndexOf
  <2>3. QED
    BY <2>2
<1> DEFINE at == IndexMessages(<< >>)
<1>7. at \in Seq(Nat) /\ Len(at) = k /\ Indexes(at, r)
  BY <1>1, <1>5, ScanFinds
<1>8. index' = [index EXCEPT !.at = at]
      /\ IF Len(at) = writer[c].version THEN Succeeds(c) ELSE SetWriter(c, "idle", 0) /\ UNCHANGED <<appended, faults>>
  BY <1>6 DEF RebuildIndex
<1> HIDE DEF at, r
<1>9. index' = [open |-> TRUE, at |-> at, lock |-> Nobody]
  <2>1. PICK old : old = index.at
    OBVIOUS
  <2>2. index = [open |-> TRUE, at |-> old, lock |-> Nobody]
    BY <1>2, <1>5, <2>1
  <2>3. QED
    BY <1>8, <2>2
<1>10. index'.at = at /\ index' = [open |-> TRUE, at |-> index'.at, lock |-> Nobody]
  BY <1>9
<1>11. IndexOf(index', r, k)
  BY <1>7, <1>10 DEF IndexOf
<1>12. CASE k = d + 1
  <2>1. Succeeds(c) /\ k > 0 /\ OneWriter(writer, c, writer[c].at, k)
    BY <1>2, <1>3, <1>4, <1>5, <1>7, <1>8, <1>12
  <2>2. QED
    BY <1>2, <1>4, <1>5, <1>10, <1>11, <1>12, <2>1, Answers DEF r
<1>13. CASE k # d + 1
  <2> DEFINE w == Put(writer, c, "idle", 0)
  <2>1. writer' = w /\ appended' = appended /\ log' = log /\ topic' = topic
    BY <1>2, <1>4, <1>7, <1>8, <1>13 DEF SetWriter, Put, logVars
  <2>2. OneWriter(w, c, "idle", 0)
    BY <1>3, PutAlone DEF OneWriter
  <2> HIDE DEF w
  <2>3. WriterRecs(w) /\ Idle(w)
    BY <2>2 DEF OneWriter, Idle
  <2>4. PICK ix : ix = index'
    OBVIOUS
  <2>5. ix = [open |-> TRUE, at |-> ix.at, lock |-> Nobody] /\ IndexOf(ix, r, k)
    BY <1>10, <1>11, <2>4
  <2>6. WritersOf(w, ix) /\ StreamOf(r, w, ix, appended, topic.gen, k, k)
    BY <1>5, <2>3, <2>5, AtRest
  <2>7. QED
    BY <1>5, <2>1, <2>4, <2>6 DEF StreamNext, r
<1>14. QED
  BY <1>12, <1>13

\* From the invariant to one of its instances.
LEMMA StreamOpens ==
    ASSUME StreamInv, OneAtATime
    PROVE  (\E k, d \in Nat : StreamNow(k, d)) /\ (up \in {"down", "recover"} => Idle(writer))
  BY DEF StreamInv, StreamNow

\* And back.
LEMMA StreamCloses ==
    ASSUME work' = work, OneAtATime => StreamNext /\ (up' \in {"down", "recover"} => Idle(writer'))
    PROVE  StreamInv'
<1>1. SUFFICES ASSUME OneAtATime'
               PROVE  /\ WritersOf(writer, index)' /\ (up' \in {"down", "recover"} => Idle(writer)')
                      /\ \E k, d \in Nat : StreamOf(log'[Home], writer', index', appended', topic'.gen, k, d)
  BY DEF StreamInv, Idle
<1>2. OneAtATime
  BY <1>1 DEF OneAtATime, Does
<1>3. WritersOf(writer', index') => WritersOf(writer, index)'
  BY DEF WritersOf, Does, Idle
<1>4. QED
  BY <1>2, <1>3 DEF StreamNext, Idle

\* A step of others that leaves the events alone.
LEMMA StreamFrame ==
    ASSUME StreamInv, work' = work, UNCHANGED <<writer, index, appended>>, topic'.gen = topic.gen,
           SameEvents(log[Home], log'[Home]), up' \in {"down", "recover"} => up' = up
    PROVE  StreamInv'
<1>1. ASSUME OneAtATime PROVE StreamNext /\ (up' \in {"down", "recover"} => Idle(writer'))
  <2>1. PICK k \in Nat, d \in Nat : StreamNow(k, d)
    BY <1>1, StreamOpens
  <2>2. StreamOf(log'[Home], writer, index, appended, topic.gen, k, d) /\ WritersOf(writer, index)
    BY <2>1, StreamSame DEF StreamNow
  <2>3. StreamNext
    BY <2>2 DEF StreamNext
  <2>4. QED
    BY <1>1, <2>3, StreamOpens
<1>2. QED
  BY <1>1, StreamCloses

\* A log is the same log.
LEMMA EventsStay ==
    ASSUME NEW r
    PROVE  SameEvents(r, r)
  BY DEF SameEvents

\* Records that are not events are stored in some partition.
LEMMA StoreFrame ==
    ASSUME LogsOk, NEW p, NEW msgs, Len(msgs) \in Nat, \A i \in 1 .. Len(msgs) : msgs[i].key # Aggregate,
           Store(p, EnqueueAll(p, msgs))
    PROVE  SameEvents(log[Home], log'[Home]) /\ topic' = topic
<1> DEFINE r == EnqueueAll(p, msgs).recs
<1>1. Home \in Partitions /\ topic' = topic
  BY LogConstants DEF Home, Partitions, Store
<1>2. log' = [q \in Partitions |-> IF q = p THEN r ELSE log[q]]
  BY DEF Store, LogsOk
<1>3. CASE p = Home
  <2>1. IsASeq(log[p])
    BY <1>1, <1>3 DEF LogsOk
  <2>2. SameEvents(log[p], r)
    BY <2>1, OthersStored
  <2>3. QED
    BY <1>1, <1>2, <1>3, <2>2
<1>4. CASE p # Home
  BY <1>1, <1>2, <1>4, EventsStay
<1>5. QED
  BY <1>3, <1>4

\* The producer's steps and faults.
LEMMA StreamProducer ==
    ASSUME StreamInv, ProducerInv, LogsOk, ProducerStep \/ ProducerFault, UNCHANGED <<work, up, streamVars>>
    PROVE  StreamInv'
<1>1. CASE UNCHANGED <<topic, log>>
  BY <1>1, StreamFrame, EventsStay DEF streamVars
<1>2. ASSUME NEW p \in Partitions, NEW n \in Nat, Store(p, EnqueueAll(p, [i \in 1 .. n |-> PlainRecord(lane[p].batch[i])]))
      PROVE  StreamInv'
  <2> DEFINE msgs == [i \in 1 .. n |-> PlainRecord(lane[p].batch[i])]
  <2>1. Len(msgs) = n /\ Len(msgs) \in Nat
    OBVIOUS
  <2>2. \A i \in 1 .. n : msgs[i] = PlainRecord(lane[p].batch[i])
    OBVIOUS
  <2>3. \A i \in 1 .. n : msgs[i].key # Aggregate
    BY <2>2 DEF PlainRecord, Record, None, Aggregate
  <2> HIDE DEF msgs
  <2>4. SameEvents(log[Home], log'[Home]) /\ topic' = topic
    BY <1>2, <2>1, <2>3, StoreFrame DEF msgs
  <2>5. QED
    BY <2>4, StreamFrame DEF streamVars
<1>3. ASSUME NEW p \in Partitions PROVE lane[p].batch \in Seq(Nat) /\ Len(lane[p].batch) \in Nat
  BY <1>3, LaneFacts DEF ProducerInv
<1>4. ASSUME NEW p \in Partitions, HandleBatch(p) PROVE StreamInv'
  <2> DEFINE b == lane[p].batch
  <2>1. Store(p, EnqueueAll(p, [i \in DOMAIN b |-> PlainRecord(b[i])])) /\ DOMAIN b = 1 .. Len(b) /\ Len(b) \in Nat
    BY <1>3, <1>4 DEF HandleBatch
  <2>2. Store(p, EnqueueAll(p, [i \in 1 .. Len(b) |-> PlainRecord(b[i])]))
    BY <2>1
  <2>3. QED
    BY <1>2, <2>1, <2>2
<1>5. ASSUME NEW p \in Partitions, HandleBatchFails(p) PROVE StreamInv'
  <2>1. PICK n \in 0 .. Len(lane[p].batch) - 1 :
          Store(p, EnqueueAll(p, [i \in 1 .. n |-> PlainRecord(lane[p].batch[i])]))
    BY <1>5 DEF HandleBatchFails
  <2>2. n \in Nat
    BY <1>3
  <2>3. QED
    BY <1>2, <2>1, <2>2
<1>6. UNCHANGED <<topic, log>> \/ \E p \in Partitions : HandleBatch(p) \/ HandleBatchFails(p)
  BY DEF ProducerStep, ProducerFault, Send, Flush, CloseProducer, CloseClient, Take, Drain, Write, WriteFails,
         HandleBatchRefused, ReadAck, AckTimeout, ConnBreak, Evict, logVars
<1>7. QED
  BY <1>1, <1>4, <1>5, <1>6

\* The transactions' steps.
LEMMA StreamTxn ==
    ASSUME StreamInv, TxnInv, LogsOk, TxnStep, UNCHANGED streamVars
    PROVE  StreamInv'
<1>1. /\ work' = work
      /\ UNCHANGED logVars \/ \E p, m : m.pid # Pid /\ m.key # Aggregate /\ Store(p, EnqueueAll(p, <<m>>))
  BY TxnCommandOk, TxnWorkOk DEF TxnStep
<1>2. up' = up
  BY DEF TxnStep, TxnCommand, TxnApply, InitProducerID, BeginTxn, BeginRefused, SendOffsets, EndTxnAbort, EndTxnCommit,
         EndTxnCommitted, TxnRefused, TxnPublish, Rebalance, ApplyTransaction, PublishNext, CommitTxnOffsets, DecideCommitted,
         ApplyFails, RecoverTransaction, PruneExpired
<1>3. CASE UNCHANGED logVars
  BY <1>1, <1>2, <1>3, StreamFrame, EventsStay DEF streamVars, logVars
<1>4. ASSUME NEW p, NEW m, m.key # Aggregate, Store(p, EnqueueAll(p, <<m>>)) PROVE StreamInv'
  <2>1. Len(<<m>>) = 1 /\ Len(<<m>>) \in Nat /\ <<m>>[1] = m
    OBVIOUS
  <2>2. \A i \in 1 .. Len(<<m>>) : <<m>>[i].key # Aggregate
    BY <1>4, <2>1
  <2>3. SameEvents(log[Home], log'[Home]) /\ topic' = topic
    BY <1>4, <2>1, <2>2, StoreFrame
  <2>4. QED
    BY <1>1, <1>2, <2>3, StreamFrame DEF streamVars
<1>5. QED
  BY <1>1, <1>3, <1>4

\* The writers' requests, and a PUBLISH.
LEMMA StreamRequests ==
    ASSUME StreamInv, TopicOk, LogsOk, StreamStep, work' = work
    PROVE  StreamInv'
<1>1. Home \in Partitions /\ IsASeq(log[Home])
  BY LogConstants DEF LogsOk, Home, Partitions
<1>2. up = "up" /\ up' \in {"up", "killed"}
  BY DEF StreamStep, PlainPublish, AppendLocked, ResetIndex, RebuildIndex, AppendStream, SaveSnapshot, Streaming
<1>3. CASE PlainPublish
  <2> DEFINE m == Record(NoPid, 0, 0, Plain, FALSE)
  <2>1. m.key # Aggregate
    BY DEF Record, None, Aggregate
  <2>2. log'[Home] = Append(log[Home], m) /\ topic' = topic /\ UNCHANGED streamVars
    BY <1>1, <1>3 DEF PlainPublish, LogsOk
  <2> HIDE DEF m
  <2>3. SameEvents(log[Home], log'[Home])
    BY <1>1, <2>1, <2>2, OthersAppended
  <2>4. QED
    BY <1>2, <2>2, <2>3, StreamFrame DEF streamVars
<1>4. ASSUME ~PlainPublish, OneAtATime PROVE StreamNext
  <2>1. PICK k \in Nat, d \in Nat : StreamNow(k, d)
    BY <1>4, StreamOpens
  <2>2. ASSUME NEW c \in Writers, NEW v \in 1 .. MaxEvents, SaveSnapshot(c, v) PROVE StreamNext
    BY <1>1, <2>1, <2>2, IndexOpened DEF SaveSnapshot, logVars
  <2>3. ASSUME NEW c \in Writers, AppendLocked(c) PROVE StreamNext
    BY <1>4, <2>1, <2>3, AppendLockedOk
  <2>4. ASSUME NEW c \in Writers, ResetIndex(c) PROVE StreamNext
    BY <2>1, <2>4, ResetIndexOk
  <2>5. ASSUME NEW c \in Writers, RebuildIndex(c) PROVE StreamNext
    BY <2>1, <2>5, RebuildIndexOk
  <2>6. ASSUME NEW c \in Writers, NEW v \in 1 .. MaxEvents, AppendStream(c, v) PROVE StreamNext
    BY <1>4, <2>1, <2>6, AppendStreamOk
  <2>7. QED
    BY <1>4, <2>2, <2>3, <2>4, <2>5, <2>6 DEF StreamStep
<1>5. CASE ~PlainPublish
  BY <1>2, <1>4, <1>5, StreamCloses
<1>6. QED
  BY <1>3, <1>5

-----------------------------------------------------------------------------
(* The lifecycle commands: they close the index and remove the log of the  *)
(* events only when no writer is at work.                                  *)

EventsLeft(s, free) ==
    /\ s.index = index \/ (free /\ s.index = Closed)
    /\ \/ s.log[Home] = log[Home]
       \/ free /\ s.log[Home] = << >> /\ s.index = Closed /\ s.topic.gen > topic.gen

\* A step that leaves the index and the logs alone.
Aside(s, x) == x.index = s.index /\ x.log = s.log /\ x.topic.gen \in Nat /\ x.topic.gen >= s.topic.gen

\* It keeps the events.
LEMMA AsideKeeps ==
    ASSUME NEW s, LifeInv(s), topic.gen \in Nat, NEW free, EventsLeft(s, free), NEW x, Aside(s, x)
    PROVE  EventsLeft(x, free)
<1>1. s.topic.gen \in Nat
  BY DEF LifeInv
<1>2. x.topic.gen > topic.gen \/ ~(s.topic.gen > topic.gen)
  BY <1>1 DEF Aside
<1>3. QED
  BY <1>2 DEF EventsLeft, Aside

\* RemoveStorage keeps the log of the partition or nothing.
LEMMA RemoveEvents ==
    ASSUME NEW s, LifeInv(s), topic.gen \in Nat, EventsLeft(s, TRUE), NEW kept, NEW j
    PROVE  EventsLeft(RemoveStorage(s, kept, j), TRUE)
<1> DEFINE a == [p \in Partitions |-> IF p \in kept.logs THEN s.log[p] ELSE << >>]
           b == [p \in Partitions |-> << >>]
           c == IF j THEN s.snap ELSE NoSnapshots
           x == [s EXCEPT !.topic.reg = FALSE, !.topic.gen = @ + 1, !.files = kept, !.log = a,
                          !.producers = b, !.index = Closed, !.snap = c]
<1>1. RemoveStorage(s, kept, j) = x
  BY DEF RemoveStorage
<1>2. Home \in Partitions
  BY LogConstants DEF Home, Partitions
<1>3. a[Home] \in {s.log[Home], << >>}
  BY <1>2
<1> HIDE DEF a, b, c
<1>4. LifeShape(s) /\ s.topic.gen \in Nat /\ s.topic.gen >= topic.gen
  BY DEF LifeInv
<1>5. x.topic.gen = s.topic.gen + 1 /\ x.log = a /\ x.index = Closed
  BY <1>4 DEF LifeShape, TopicFields
<1> HIDE DEF x
<1>6. x.topic.gen > topic.gen
  BY <1>4, <1>5
<1>7. x.log[Home] \in {log[Home], << >>}
  BY <1>3, <1>5 DEF EventsLeft
<1>8. EventsLeft(x, TRUE)
  BY <1>5, <1>6, <1>7 DEF EventsLeft
<1>9. QED
  BY <1>1, <1>8

\* The steps that neither close the index nor remove storage.
QuietNames == StepNames \ {"close", "remove"}

\* Each of them.
LEMMA QuietStep ==
    ASSUME NEW s, LifeInv(s), NEW what \in QuietNames
    PROVE  Aside(s, Step(s, what))
<1>1. LifeShape(s) /\ s.topic.gen \in Nat
  BY DEF LifeInv
<1>2. CASE what = "commit"
  <2>1. Aside(s, CommitTruncation(s))
    BY <1>1 DEF Aside, LifeShape, TopicFields, CommitTruncation
  <2>2. QED
    BY <1>2, <2>1 DEF Step
<1>3. CASE what = "fence"
  <2>1. Aside(s, FenceTruncation(s))
    BY <1>1 DEF Aside, LifeShape, TopicFields, FenceTruncation
  <2>2. QED
    BY <1>3, <2>1 DEF Step
<1>4. CASE what = "unregister"
  <2>1. Aside(s, Unregister(s))
    BY <1>1 DEF Aside, LifeShape, TopicFields, Unregister
  <2>2. QED
    BY <1>4, <2>1 DEF Step
<1>5. CASE what = "open"
  <2> DEFINE b == [p \in Partitions |-> RecoverProducers(s.log[p])]
             c == s.manifest.parts
             x == [s EXCEPT !.topic.reg = TRUE, !.topic.parts = c, !.files.logs = @ \cup (1 .. c),
                            !.producers = b]
  <2>1. Step(s, what) = x
    BY <1>5 DEF Step, Open
  <2> HIDE DEF b, c
  <2>2. x.index = s.index /\ x.log = s.log
    BY <1>1 DEF LifeShape, TopicFields
  <2>3. x.topic.gen = s.topic.gen
    BY <1>1 DEF LifeShape, TopicFields
  <2> HIDE DEF x
  <2>4. Aside(s, x)
    BY <1>1, <2>2, <2>3 DEF Aside
  <2>5. QED
    BY <2>1, <2>4
<1>6. CASE what = "groups"
  <2>1. Aside(s, DeleteGroups(s))
    BY <1>1 DEF Aside, LifeShape, TopicFields, DeleteGroups
  <2>2. QED
    BY <1>6, <2>1 DEF Step
<1>7. CASE what = "journal"
  <2> DEFINE a == [i \in Ids |-> Stripped(s.txns[i])]
             e == << >>
             x == [s EXCEPT !.txns = a, !.journal = a, !.tail = e]
  <2>1. Step(s, what) = x
    BY <1>7 DEF Step, PruneReferences
  <2> HIDE DEF a, e
  <2>2. Aside(s, x)
    BY <1>1 DEF Aside, LifeShape, TopicFields
  <2>3. QED
    BY <2>1, <2>2
<1>8. CASE what = "complete"
  <2>1. Aside(s, CompleteTruncation(s))
    BY <1>1 DEF Aside, LifeShape, TopicFields, CompleteTruncation, WriteMarker
  <2>2. QED
    BY <1>8, <2>1 DEF Step
<1>9. CASE what = "logs"
  <2>1. Aside(s, CreateLogs(s))
    BY <1>1 DEF Aside, LifeShape, TopicFields, CreateLogs
  <2>2. QED
    BY <1>9, <2>1 DEF Step
<1>10. CASE what = "define"
  <2> DEFINE c == [rev |-> 1, epoch |-> 1, parts |-> NumPartitions, gen |-> s.topic.gen + 1]
             x == [s EXCEPT !.manifest = c, !.topic.gen = @ + 1]
  <2>1. Step(s, what) = x
    BY <1>10 DEF Step, Define
  <2> HIDE DEF c
  <2>2. x.index = s.index /\ x.log = s.log /\ x.topic.gen = s.topic.gen + 1
    BY <1>1 DEF LifeShape, TopicFields
  <2> HIDE DEF x
  <2>3. Aside(s, x)
    BY <1>1, <2>2 DEF Aside
  <2>4. QED
    BY <2>1, <2>3
<1>11. CASE what = "alter"
  <2>1. Aside(s, Alter(s))
    BY <1>1 DEF Aside, LifeShape, TopicFields, Alter
  <2>2. QED
    BY <1>11, <2>1 DEF Step
<1>12. CASE what = "default"
  <2>1. Aside(s, RegisterDefault(s))
    BY <1>1 DEF Aside, LifeShape, TopicFields, RegisterDefault
  <2>2. QED
    BY <1>12, <2>1 DEF Step
<1>13. QED
  BY <1>2, <1>3, <1>4, <1>5, <1>6, <1>7, <1>8, <1>9, <1>10, <1>11, <1>12 DEF QuietNames, StepNames

\* The steps of a command: all of them when no writer is at work.
StepsIf(free) == IF free THEN StepNames ELSE QuietNames

\* A step of a command.
LEMMA StepEvents ==
    ASSUME NEW s, LifeInv(s), topic.gen \in Nat, NEW free \in BOOLEAN, EventsLeft(s, free), NEW what \in StepsIf(free)
    PROVE  EventsLeft(Step(s, what), free)
<1>1. CASE what \in QuietNames
  BY <1>1, QuietStep, AsideKeeps
<1>2. CASE what = "close" /\ free
  <2> DEFINE x == CloseStream(s)
  <2>1. LifeShape(s)
    BY DEF LifeInv
  <2>2. x.index = Closed /\ x.log = s.log /\ x.topic = s.topic
    BY <2>1 DEF LifeShape, TopicFields, CloseStream
  <2> HIDE DEF x
  <2>3. EventsLeft(x, free)
    BY <1>2, <2>2 DEF EventsLeft
  <2>4. QED
    BY <1>2, <2>3 DEF Step, x
<1>3. CASE what = "remove" /\ free
  <2>1. EventsLeft(RemoveStorage(s, Emptied, FALSE), TRUE)
    BY <1>3, RemoveEvents
  <2>2. QED
    BY <1>3, <2>1 DEF Step
<1>4. QED
  BY <1>1, <1>2, <1>3 DEF StepsIf, QuietNames

\* What an interrupted step leaves.
LEMMA PartlyEvents ==
    ASSUME NEW s, LifeInv(s), topic.gen \in Nat, NEW free \in BOOLEAN, EventsLeft(s, free), NEW what \in StepsIf(free),
           NEW x \in Partly(s, what)
    PROVE  EventsLeft(x, free)
<1>1. LifeShape(s) /\ s.topic.gen \in Nat
  BY DEF LifeInv
<1>2. CASE what = "remove"
  <2>1. free = TRUE
    BY <1>2 DEF StepsIf, QuietNames
  <2>2. \E left : x = RemoveStorage(s, left.files, left.snap)
    BY <1>2 DEF Partly
  <2>3. QED
    BY <2>1, <2>2, RemoveEvents
<1>3. CASE what \in {"logs", "open"}
  <2>1. PICK l : x = [s EXCEPT !.files.logs = @ \cup l]
    BY <1>3 DEF Partly
  <2>2. Aside(s, x)
    BY <1>1, <2>1 DEF Aside, LifeShape, TopicFields
  <2>3. QED
    BY <2>2, AsideKeeps
<1>4. CASE what \notin {"remove", "logs", "open"}
  BY <1>4 DEF Partly
<1>5. QED
  BY <1>2, <1>3, <1>4

\* A run of steps.
LEMMA RunEvents ==
    ASSUME NEW s, LifeInv(s), topic.gen \in Nat, NEW free \in BOOLEAN, EventsLeft(s, free), NEW steps \in Seq(StepsIf(free))
    PROVE  LifeInv(Run(s, steps)) /\ EventsLeft(Run(s, steps), free)
<1> DEFINE n == Len(steps)
<1>1. n \in Nat /\ \A i \in 1 .. n : steps[i] \in StepsIf(free)
  OBVIOUS
<1>2. PICK st : st[0] = s /\ (\A i \in 1 .. n : st[i] = Step(st[i - 1], steps[i])) /\ Run(s, steps) = st[n]
  BY <1>1, StepRun
<1> HIDE DEF n
<1> DEFINE S == {i \in 0 .. n : LifeInv(st[i]) /\ EventsLeft(st[i], free)}
<1>3. 0 \in S
  BY <1>1, <1>2
<1>4. ASSUME NEW i \in 0 .. n - 1, i \in S PROVE i + 1 \in S
  <2>1. i + 1 \in 1 .. n /\ (i + 1) - 1 = i /\ i + 1 \in 0 .. n
    BY <1>1
  <2>2. st[i + 1] = Step(st[i], steps[i + 1]) /\ steps[i + 1] \in StepsIf(free)
    BY <1>1, <1>2, <2>1
  <2>3. steps[i + 1] \in StepNames
    BY <2>2 DEF StepsIf, QuietNames
  <2>4. LifeInv(st[i + 1]) /\ EventsLeft(st[i + 1], free)
    BY <1>4, <2>2, <2>3, StepOk, StepEvents
  <2>5. QED
    BY <2>1, <2>4
<1>5. 0 .. n \subseteq S
  <2> HIDE DEF S
  <2>1. QED
    BY <1>1, <1>3, <1>4, UpTo
<1>6. QED
  BY <1>1, <1>2, <1>5

\* What a lifecycle command leaves of the events.
StreamLeft ==
    /\ UNCHANGED <<work, writer, appended>> /\ topic'.gen \in Nat /\ topic'.gen >= topic.gen
    /\ index' = index \/ (Idle(writer) /\ index' = Closed)
    /\ \/ log'[Home] = log[Home]
       \/ Idle(writer) /\ log'[Home] = << >> /\ index' = Closed /\ topic'.gen > topic.gen
    /\ up' \in {"down", "recover"} => Idle(writer)

\* Each command, whether it ends, is killed or fails.
LEMMA PerformEvents ==
    ASSUME TopicOk, LogsOk, TxnInv, NEW free \in BOOLEAN, free => Idle(writer), NEW op, NEW steps \in Seq(StepsIf(free)),
           NEW then \in {"up", "recover"}, then = "recover" => Idle(writer), Perform(op, steps, then)
    PROVE  StreamLeft
<1>1. topic.gen \in Nat
  BY DEF TopicOk
<1>2. LifeInv(Now) /\ EventsLeft(Now, free)
  <2>1. /\ Now.topic = topic /\ Now.log = log /\ Now.producers = producers /\ Now.txns = txns
        /\ Now.journal = journal /\ Now.tail = tail /\ Now.index = index
    BY DEF Now
  <2>2. LifeShape(Now)
    <3>1. DOMAIN Now = {"topic", "manifest", "files", "log", "producers", "index", "snap", "registered",
                        "goff", "txns", "journal", "tail"}
      BY DEF Now
    <3>2. QED
      BY <2>1, <3>1 DEF LifeShape, TopicOk
  <2>3. LifeInv(Now)
    BY <1>1, <2>1, <2>2 DEF LifeInv, LogsOk, TxnInv
  <2>4. QED
    BY <2>1, <2>3 DEF EventsLeft
<1>3. up' \in {"down", "recover"} => Idle(writer)
  BY DEF Perform
<1>4. ASSUME NEW s, LifeInv(s), EventsLeft(s, free), Become(s) PROVE StreamLeft
  <2>1. topic' = s.topic /\ log' = s.log /\ index' = s.index
    BY <1>4 DEF Become
  <2>2. UNCHANGED <<work, writer, appended>>
    BY DEF Perform
  <2>3. topic'.gen \in Nat /\ topic'.gen >= topic.gen
    BY <1>4, <2>1 DEF LifeInv
  <2>4. QED
    BY <1>3, <1>4, <2>1, <2>2, <2>3 DEF StreamLeft, EventsLeft
<1>5. CASE Become(Run(Now, steps))
  BY <1>1, <1>2, <1>4, <1>5, RunEvents
<1>6. ASSUME NEW n \in DOMAIN steps, NEW s \in Partly(Run(Now, SubSeq(steps, 1, n - 1)), steps[n]),
             Become(s) \/ Become(Run(s, Rest(op, steps[n])))
      PROVE  StreamLeft
  <2> DEFINE front == SubSeq(steps, 1, n - 1)
             rest == Rest(op, steps[n])
  <2>1. front \in Seq(StepsIf(free)) /\ steps[n] \in StepsIf(free)
    OBVIOUS
  <2>2. rest \in Seq(StepsIf(free))
    <3>1. {"groups", "journal", "complete"} \subseteq StepsIf(free)
      BY DEF StepsIf, QuietNames, StepNames
    <3>2. <<"groups", "journal", "complete">> \in Seq({"groups", "journal", "complete"})
          /\ <<"complete">> \in Seq({"groups", "journal", "complete"}) /\ << >> \in Seq({"groups", "journal", "complete"})
      OBVIOUS
    <3>3. rest \in {<<"groups", "journal", "complete">>, <<"complete">>, << >>}
      BY DEF Rest
    <3> HIDE DEF rest
    <3>4. rest \in Seq({"groups", "journal", "complete"})
      BY <3>2, <3>3
    <3>5. QED
      BY <3>1, <3>4
  <2> HIDE DEF front, rest
  <2>3. LifeInv(Run(Now, front)) /\ EventsLeft(Run(Now, front), free)
    BY <1>1, <1>2, <2>1, RunEvents
  <2>4. LifeInv(s) /\ EventsLeft(s, free)
    BY <1>1, <1>6, <2>1, <2>3, PartlyOk, PartlyEvents DEF front
  <2>5. LifeInv(Run(s, rest)) /\ EventsLeft(Run(s, rest), free)
    BY <1>1, <2>2, <2>4, RunEvents
  <2>6. QED
    BY <1>4, <1>6, <2>4, <2>5 DEF rest
<1>7. \/ Become(Run(Now, steps))
      \/ \E n \in DOMAIN steps : \E s \in Partly(Run(Now, SubSeq(steps, 1, n - 1)), steps[n]) :
            Become(s) \/ Become(Run(s, Rest(op, steps[n])))
  BY DEF Perform
<1>8. QED
  BY <1>5, <1>6, <1>7

\* The commands and startup.
LEMMA LifecycleEvents ==
    ASSUME TopicOk, LogsOk, TxnInv, up \in {"down", "recover"} => Idle(writer), LifecycleStep
    PROVE  StreamLeft
<1>1. PICK free \in BOOLEAN : free = TRUE
  OBVIOUS
<1>2. PICK busy \in BOOLEAN : busy = FALSE
  OBVIOUS
<1>3. /\ <<"close", "commit", "remove", "open", "groups", "journal", "complete">> \in Seq(StepNames)
      /\ <<"close", "remove", "open", "groups", "journal", "complete">> \in Seq(StepNames)
      /\ <<"close", "unregister", "remove">> \in Seq(StepNames) /\ <<"groups", "journal">> \in Seq(StepNames)
      /\ << >> \in Seq(StepNames) /\ <<"remove", "fence", "open">> \in Seq(StepNames)
      /\ <<"open">> \in Seq(StepNames)
  BY DEF StepNames
<1>4. StepsIf(free) = StepNames /\ StepsIf(busy) = QuietNames
  BY <1>1, <1>2 DEF StepsIf
<1>5. /\ <<"logs", "define", "open", "default">> \in Seq(QuietNames)
      /\ <<"logs", "alter", "open", "default">> \in Seq(QuietNames)
  BY DEF StepNames, QuietNames
<1>6. PICK serves \in {"up", "recover"} : serves = "up"
  OBVIOUS
<1>7. PICK starts \in {"up", "recover"} : starts = "recover"
  OBVIOUS
<1>8. ASSUME Idle(writer), NEW op, NEW steps \in Seq(StepNames), NEW then \in {"up", "recover"}, Perform(op, steps, then)
      PROVE  StreamLeft
  BY <1>4, <1>8, PerformEvents
<1>9. ASSUME NEW op, NEW steps \in Seq(QuietNames), NEW then \in {"up", "recover"}, then # "recover", Perform(op, steps, then)
      PROVE  StreamLeft
  BY <1>2, <1>4, <1>9, PerformEvents
<1>10. Exclusive => Idle(writer)
  BY DEF Exclusive, Idle
<1>11. CASE Truncate
  BY <1>3, <1>8, <1>10, <1>11 DEF Truncate
<1>12. CASE Delete
  <2> DEFINE a == IF topic.reg THEN <<"close", "unregister", "remove">> ELSE << >>
             b == <<"groups", "journal">>
  <2>1. a \in Seq(StepNames) /\ b \in Seq(StepNames)
    BY <1>3
  <2>2. Perform("delete", a \o b, "up") /\ Idle(writer)
    BY <1>10, <1>12 DEF Delete
  <2> HIDE DEF a, b
  <2>3. a \o b \in Seq(StepNames)
    BY <2>1
  <2>4. QED
    BY <1>8, <2>2, <2>3
<1>13. CASE Create
  BY <1>5, <1>9, <1>13 DEF Create
<1>14. CASE Grow
  BY <1>5, <1>9, <1>14 DEF Grow
<1>15. CASE RestoreTopics
  <2> DEFINE a == IF manifest = NoTopic THEN << >>
                  ELSE IF ResetPending THEN <<"remove", "fence", "open">> ELSE <<"open">>
  <2>1. a \in Seq(StepNames)
    BY <1>3
  <2>2. Perform("restore", a, "recover") /\ Idle(writer)
    BY <1>15 DEF RestoreTopics
  <2> HIDE DEF a
  <2>3. QED
    BY <1>8, <2>1, <2>2
<1>16. CASE RecoverPendingTruncations
  BY <1>3, <1>8, <1>16 DEF RecoverPendingTruncations
<1>17. QED
  BY <1>11, <1>12, <1>13, <1>14, <1>15, <1>16 DEF LifecycleStep

\* An empty log holds no version.
LEMMA NoEvents == Versioned(<< >>, 0) /\ EventsIn(<< >>) = {}
<1>1. DOMAIN << >> = {}
  OBVIOUS
<1>2. EventsIn(<< >>) = {}
  BY <1>1 DEF EventsIn
<1>3. 1 .. 0 = {} /\ 0 \in Nat
  OBVIOUS
<1>4. QED
  BY <1>2, <1>3 DEF Versioned

\* They keep the invariant.
LEMMA StreamLifecycle ==
    ASSUME StreamInv, TopicOk, StreamLeft
    PROVE  StreamInv'
<1>1. work' = work /\ (up' \in {"down", "recover"} => Idle(writer')) /\ writer' = writer /\ appended' = appended
      /\ topic'.gen \in Nat /\ topic'.gen >= topic.gen /\ topic.gen \in Nat
  BY DEF StreamLeft, TopicOk
<1>2. ASSUME OneAtATime PROVE StreamNext
  <2>1. PICK k \in Nat, d \in Nat : StreamNow(k, d)
    BY <1>2, StreamOpens
  <2>2. /\ WriterRecs(writer) /\ Versioned(log[Home], k) /\ (Idle(writer) => k = d)
        /\ AppendsKept(appended, topic.gen, log[Home], d)
    BY <2>1, StreamParts
  <2>3. PICK g : g = topic'.gen
    OBVIOUS
  <2>4. g > topic.gen => \A r, n : AppendsKept(appended, g, r, n)
    <3>1. SUFFICES ASSUME g > topic.gen, NEW x \in appended PROVE x[3] \in Nat /\ x[3] <= g /\ x[3] # g
      BY DEF AppendsKept
    <3>2. x[3] \in Nat /\ x[3] <= topic.gen
      BY <2>2 DEF AppendsKept
    <3>3. QED
      BY <1>1, <2>3, <3>1, <3>2
  <2>5. AppendsKept(appended, g, log[Home], d)
    <3>1. g = topic.gen \/ g > topic.gen
      BY <1>1, <2>3
    <3>2. QED
      BY <2>2, <2>4, <3>1
  <2>6. CASE log'[Home] = log[Home] /\ index' = index
    <3>1. StreamOf(log[Home], writer, index, appended, g, k, d) /\ WritersOf(writer, index)
      BY <2>1, <2>5 DEF StreamNow, StreamOf
    <3>2. QED
      BY <1>1, <2>3, <2>6, <3>1 DEF StreamNext
  <2>7. CASE log'[Home] = log[Home] /\ Idle(writer) /\ index' = Closed
    <3>1. ~Closed.open
      BY DEF Closed
    <3>2. PICK ix : ix = Closed
      OBVIOUS
    <3>3. WritersOf(writer, ix) /\ StreamOf(log[Home], writer, ix, appended, g, k, k)
      BY <2>2, <2>5, <2>7, <3>1, <3>2, AtRest
    <3>4. QED
      BY <1>1, <2>3, <2>7, <3>2, <3>3 DEF StreamNext
  <2>8. CASE Idle(writer) /\ log'[Home] = << >> /\ index' = Closed /\ topic'.gen > topic.gen
    <3>1. ~Closed.open
      BY DEF Closed
    <3>2. PICK ix, z, e : ix = Closed /\ z = 0 /\ e = << >>
      OBVIOUS
    <3>3. Versioned(e, z) /\ z \in Nat
      BY <3>2, NoEvents
    <3>4. WritersOf(writer, ix) /\ StreamOf(e, writer, ix, appended, g, z, z)
      BY <2>2, <2>3, <2>4, <2>8, <3>1, <3>2, <3>3, AtRest
    <3>5. QED
      BY <1>1, <2>3, <2>8, <3>2, <3>3, <3>4 DEF StreamNext
  <2>9. QED
    BY <2>6, <2>7, <2>8 DEF StreamLeft
<1>3. QED
  BY <1>1, <1>2, StreamCloses

\* The process stops: the request in progress is as if it had been answered.
LEMMA StreamCrash ==
    ASSUME StreamInv, TopicOk, BrokerCrash
    PROVE  StreamInv'
<1>1. /\ work' = work /\ log' = log /\ topic'.gen = topic.gen /\ index' = Closed /\ appended' = appended
      /\ writer' = [c \in Writers |-> [at |-> "idle", version |-> 0]]
  BY DEF BrokerCrash, Crash, StreamRestart, TopicOk, TopicFields
<1> DEFINE w == [c \in Writers |-> [at |-> "idle", version |-> 0]]
<1>2. WriterRecs(w) /\ Idle(w)
  BY DEF WriterRecs, Idle
<1> HIDE DEF w
<1>3. ASSUME OneAtATime PROVE StreamNext
  <2>1. PICK k \in Nat, d \in Nat : StreamNow(k, d)
    BY <1>3, StreamOpens
  <2>2. Versioned(log[Home], k) /\ AppendsKept(appended, topic.gen, log[Home], k)
    BY <2>1, StreamParts
  <2>3. PICK ix : ix = Closed
    OBVIOUS
  <2>4. ~ix.open
    BY <2>3 DEF Closed
  <2>5. WritersOf(w, ix) /\ StreamOf(log[Home], w, ix, appended, topic.gen, k, k)
    BY <1>2, <2>2, <2>3, <2>4, AtRest
  <2>6. QED
    BY <1>1, <2>3, <2>5 DEF StreamNext, w
<1>4. Idle(writer')
  BY <1>1, <1>2 DEF w
<1>5. QED
  BY <1>1, <1>3, <1>4, StreamCloses

\* Initially nothing is appended.
LEMMA StreamStarts ==
    ASSUME Init
    PROVE  StreamInv
<1>1. Home \in Partitions
  BY LogConstants DEF Home, Partitions
<1>2. log[Home] = << >> /\ appended = {} /\ index = Closed /\ up = "up"
      /\ writer = [c \in Writers |-> [at |-> "idle", version |-> 0]]
  BY <1>1 DEF Init, LogInit, StreamInit
<1>3. WriterRecs(writer) /\ Idle(writer)
  BY <1>2 DEF WriterRecs, Idle
<1>4. PICK r, k, ix, ap, g : r = log[Home] /\ k = 0 /\ ix = index /\ ap = appended /\ g = topic.gen
  OBVIOUS
<1>5. Versioned(r, k) /\ k \in Nat
  BY <1>2, <1>4, NoEvents
<1>6. ix = Closed /\ ~ix.open
  BY <1>2, <1>4 DEF Closed
<1>7. AppendsKept(ap, g, r, k)
  BY <1>2, <1>4 DEF AppendsKept
<1>8. WritersOf(writer, ix) /\ StreamOf(r, writer, ix, ap, g, k, k)
  BY <1>3, <1>5, <1>6, <1>7, AtRest
<1>9. QED
  BY <1>3, <1>4, <1>5, <1>8 DEF StreamInv

\* Every step keeps the stream.
LEMMA StreamNextOk ==
    ASSUME BrokerInv, StreamInv, [Next]_vars
    PROVE  StreamInv'
<1>1. ProducerInv /\ TxnInv /\ TopicOk /\ LogsOk
  BY DEF BrokerInv
<1>2. CASE ProducerStep /\ ProducerAlone
  BY <1>1, <1>2, StreamProducer DEF ProducerAlone
<1>3. CASE ProducerFault /\ UNCHANGED <<up, txnVars, streamVars, lifecycleVars>>
  <2>1. work' = work
    BY <1>3 DEF ProducerFault, HandleBatchFails, AckTimeout, ConnBreak, Evict
  <2>2. QED
    BY <1>1, <1>3, <2>1, StreamProducer
<1>4. CASE TxnStep /\ TxnAlone
  BY <1>1, <1>4, StreamTxn DEF TxnAlone
<1>5. CASE StreamStep /\ UNCHANGED <<work, producerVars, txnVars, lifecycleVars>>
  BY <1>1, <1>5, StreamRequests
<1>6. CASE LifecycleStep
  <2>1. ASSUME OneAtATime PROVE up \in {"down", "recover"} => Idle(writer)
    BY <2>1, StreamOpens
  <2>2. CASE OneAtATime
    BY <1>1, <1>6, <2>1, <2>2, LifecycleEvents, StreamLifecycle
  <2>3. CASE ~OneAtATime
    <3>1. work' = work
      BY <1>1, <1>6, LifecycleOk DEF LifeStep
    <3>2. QED
      BY <2>3, <3>1, StreamCloses
  <2>4. QED
    BY <2>2, <2>3
<1>7. CASE BrokerCrash
  BY <1>1, <1>7, StreamCrash
<1>8. CASE Serve
  <2>1. UNCHANGED <<work, log, topic, writer, index, appended>> /\ up' = "up"
    BY <1>8 DEF Serve, Ready, logVars, streamVars
  <2>2. QED
    BY <2>1, StreamFrame, EventsStay
<1>9. CASE UNCHANGED vars
  <2>1. UNCHANGED <<work, up, log, topic, writer, index, appended>>
    BY <1>9 DEF vars, logVars, streamVars
  <2>2. QED
    BY <2>1, StreamFrame, EventsStay
<1>10. QED
  BY <1>2, <1>3, <1>4, <1>5, <1>6, <1>7, <1>8, <1>9 DEF Next

\* The invariant of an aggregate's stream: the log holds its versions from 1 on, once each and in order; all
\* but the one of an append in progress have been answered or were cut off by a crash; and the index
\* has one entry for each version that is settled.
THEOREM StreamInvariant == Spec => []StreamInv
<1>1. Init => StreamInv
  BY StreamStarts
<1>2. BrokerInv /\ StreamInv /\ [Next]_vars => StreamInv'
  BY StreamNextOk
<1>3. QED
  BY <1>1, <1>2, BrokerInvariant, PTL DEF Spec

\* Optimistic concurrency (EventSource!OneEventPerVersion): the version check under the index lock lets
\* each version of the aggregate into the log once, in order and without a gap, and every append that was answered
\* OK is the event of its version, whatever writers race, appends fail, the broker crashes and the
\* topic is truncated or recreated.
THEOREM VersionsUnique == Spec => [](OneAtATime => OneEventPerVersion)
<1>1. BrokerInv /\ StreamInv => (OneAtATime => OneEventPerVersion)
  <2>1. SUFFICES ASSUME BrokerInv, StreamInv, OneAtATime PROVE OneEventPerVersion
    OBVIOUS
  <2>2. PICK k \in Nat, d \in Nat : StreamNow(k, d)
    BY <2>1, StreamOpens
  <2> DEFINE r == log[Home]
  <2>3. Versioned(r, k) /\ AppendsKept(appended, topic.gen, r, d)
    BY <2>2, StreamParts
  <2>4. Events = EventsIn(r)
    BY DEF Events, EventsIn
  <2>5. /\ \A n \in Events : r[n].seq \in 1 .. k
        /\ \A m, n \in Events : m < n => r[m].seq < r[n].seq
        /\ \A v \in 1 .. k : \E n \in Events : r[n].seq = v
    BY <2>3, <2>4 DEF Versioned
  <2>6. Events \subseteq Nat \ {0}
    <3>1. Home \in Partitions /\ IsASeq(r)
      BY <2>1, LogConstants DEF BrokerInv, LogsOk, Home, Partitions
    <3>2. DOMAIN r = 1 .. Len(r) /\ Len(r) \in Nat
      BY <3>1, SeqParts
    <3>3. QED
      BY <2>4, <3>2 DEF EventsIn
  <2> HIDE DEF r
  <2>7. ASSUME NEW n \in Events PROVE {r[m].seq : m \in Events \cap (1 .. n)} = 1 .. r[n].seq
    <3>1. ASSUME NEW m \in Events \cap (1 .. n) PROVE r[m].seq \in 1 .. r[n].seq
      <4>1. m = n \/ m < n
        BY <2>6, <3>1
      <4>2. QED
        BY <2>5, <2>7, <3>1, <4>1
    <3>2. ASSUME NEW v \in 1 .. r[n].seq PROVE \E m \in Events \cap (1 .. n) : r[m].seq = v
      <4>1. v \in 1 .. k
        BY <2>5, <2>7
      <4>2. PICK m \in Events : r[m].seq = v
        BY <2>5, <4>1
      <4>3. ~(n < m)
        BY <2>5, <2>7, <4>1, <4>2
      <4>4. m \in 1 .. n
        BY <2>6, <2>7, <4>2, <4>3
      <4>5. QED
        BY <4>2, <4>4
    <3>3. QED
      BY <3>1, <3>2
  <2>8. \A x \in Kept : \E n \in Events : r[n].seq = x[1] /\ r[n].epoch = x[2]
    BY <2>3, <2>4 DEF Kept, AppendsKept, Holds
  <2>9. QED
    BY <2>5, <2>7, <2>8 DEF OneEventPerVersion, r
<1>2. QED
  BY <1>1, BrokerInvariant, StreamInvariant, PTL

\* Complete streams (EventSource!StreamComplete): READ_STREAM finds every append that was answered OK at its
\* version, through an index that has been rebuilt after any failure or restart.
THEOREM StreamsComplete == Spec => [](OneAtATime => StreamComplete)
<1>1. BrokerInv /\ StreamInv => (OneAtATime => StreamComplete)
  <2>1. SUFFICES ASSUME BrokerInv, StreamInv, OneAtATime, Settled, Unmixed, NEW x \in Kept
                 PROVE  ReadEvent(x[1], Event(x[1], x[2]))
    BY DEF StreamComplete
  <2>2. PICK k \in Nat, d \in Nat : StreamNow(k, d)
    BY <2>1, StreamOpens
  <2> DEFINE r == log[Home]
             ix == GetIndex
  <2>3. Home \in Partitions /\ IsASeq(r)
    BY <2>1, LogConstants DEF BrokerInv, LogsOk, Home, Partitions
  <2>4. Versioned(r, k) /\ AppendsKept(appended, topic.gen, r, d)
    BY <2>2, StreamParts
  <2>5. EventsIn(r) = DOMAIN r
    BY <2>1 DEF Unmixed, Events, EventsIn
  <2>6. ix = [open |-> TRUE, at |-> ix.at, lock |-> index.lock] /\ StreamOf(r, writer, ix, appended, topic.gen, k, d)
    BY <2>2, <2>3, GetIndexOk
  <2>7. IndexOf(ix, r, d)
    <3>1. ix.open = TRUE /\ ~\E c \in Writers : writer[c].at = "reset"
      BY <2>1, <2>6 DEF Settled
    <3>2. QED
      BY <2>6, <3>1 DEF StreamOf
  <2>8. x[1] \in 1 .. d /\ Holds(r, x[1], x[2])
    BY <2>1, <2>4 DEF Kept, AppendsKept
  <2> HIDE DEF r, ix
  <2>9. x[1] \in DOMAIN ix.at /\ ix.at[x[1]] \in EventsIn(r) /\ r[ix.at[x[1]]].seq = x[1]
    <3>1. DOMAIN ix.at = 1 .. d
      BY <2>7 DEF IndexOf
    <3>2. QED
      BY <2>5, <2>7, <2>8, <3>1 DEF IndexOf, Indexes
  <2>10. PICK n \in EventsIn(r) : r[n].seq = x[1] /\ r[n].epoch = x[2]
    BY <2>8 DEF Holds
  <2> DEFINE m == ix.at[x[1]]
  <2>11. m \in Nat /\ n \in Nat
    <3>1. DOMAIN r = 1 .. Len(r) /\ Len(r) \in Nat
      BY <2>3, SeqParts DEF r
    <3>2. QED
      BY <2>5, <2>9, <3>1
  <2>12. ~(m < n) /\ ~(n < m)
    <3>1. r[m].seq = r[n].seq /\ r[n].seq \in Nat
      BY <2>8, <2>9, <2>10
    <3>2. \A i, j \in EventsIn(r) : i < j => r[i].seq < r[j].seq
      BY <2>4 DEF Versioned
    <3> HIDE DEF m
    <3>3. m \in EventsIn(r)
      BY <2>9 DEF m
    <3>4. QED
      BY <2>10, <3>1, <3>2, <3>3
  <2>13. m = n
    BY <2>11, <2>12
  <2>14. r[n] = Event(r[n].seq, r[n].epoch)
    BY <2>4, <2>10 DEF Versioned
  <2>15. r[m] = Event(x[1], x[2])
    BY <2>10, <2>13, <2>14
  <2>16. QED
    BY <2>9, <2>15 DEF ReadEvent, r, ix
<1>2. QED
  BY <1>1, BrokerInvariant, StreamInvariant, PTL
===============================================================================
