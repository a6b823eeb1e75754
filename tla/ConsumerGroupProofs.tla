------------------------- MODULE ConsumerGroupProofs -------------------------
(***************************************************************************)
(* The consumers of a group against its coordinator, for any number of     *)
(* clients, partitions and faults: the coordinator's invariant of          *)
(* GroupCoordinatorProofs along the whole specification, and at-least-once *)
(* delivery.                                                               *)
(***************************************************************************)
EXTENDS ConsumerGroup, GroupCoordinatorProofs

-----------------------------------------------------------------------------
(* What clients, their partition consumers and requests look like.         *)

Phases == {"join", "register", "add", "answer", "sync", "offsets", "work", "closed"}

\* The IDs a client or a request may carry after n joins.
KnownIds(n) == {NoMember} \union JoinedIds(n)

ClientRecs(n) ==
    [phase : Phases, boot : BOOLEAN, mid : KnownIds(n), gen : Nat, asg : SUBSET Partitions,
     jmid : KnownIds(n), jgen : Nat, got : PartialOffsets, sig : BOOLEAN, beats : BOOLEAN]

BatchRecs == [inc : Nat, from : Int, to : Int]
PartRecs  == [conn : Int, fetch : Int, offs : Int, queue : Seq(BatchRecs),
              commit : Int, retry : Int, dead : BOOLEAN]

RequestRecs(n) ==
    [client : Clients, kind : {"batch", "retry", "leave"}, mid : KnownIds(n), gen : Nat,
     offs : PartialOffsets, live : BOOLEAN]

ClientType ==
    /\ cl \in [Clients -> ClientRecs(joins)]
    /\ part \in [Clients -> [Partitions -> PartRecs]]
    /\ net \in SUBSET RequestRecs(joins)
    /\ start \in [Partitions -> Nat]

\* A request whose connection is open belongs to the assignment its client works on, and a
\* client has at most one.
LiveInv ==
    /\ \A r \in net : r.live => cl[r.client].phase = "work" /\ r.mid = cl[r.client].mid
    /\ \A r, s \in net : r.live /\ s.live /\ r.client = s.client => r = s

\* Handlers of a standalone broker do not run in a cluster.
ModeInv == \A c \in Clients : ~Standalone => cl[c].phase \notin {"register", "add"}

ClientInv == ClientType /\ LiveInv /\ ModeInv

\* IDs stay known.
LEMMA KnownIdsGrow ==
    ASSUME NEW n \in Nat, NEW k \in Nat, n <= k
    PROVE  ClientRecs(n) \subseteq ClientRecs(k) /\ RequestRecs(n) \subseteq RequestRecs(k)
<1>1. KnownIds(n) \subseteq KnownIds(k)
  BY DEF KnownIds, JoinedIds
<1>2. ClientRecs(n) \subseteq ClientRecs(k)
  BY <1>1 DEF ClientRecs
<1>3. RequestRecs(n) \subseteq RequestRecs(k)
  BY <1>1 DEF RequestRecs
<1>4. QED
  BY <1>2, <1>3

\* A client changes its own record; open requests, if it keeps any, are still its own.
LEMMA ClientStep ==
    ASSUME ClientInv, joins \in Nat, joins' \in Nat, joins <= joins', UNCHANGED work,
           NEW c \in Clients, NEW r \in ClientRecs(joins'), cl' = [cl EXCEPT ![c] = r],
           part' \in [Clients -> [Partitions -> PartRecs]],
           net' \in SUBSET RequestRecs(joins'),
           start' \in [Partitions -> Nat],
           \A q \in net' : q.live => /\ q \in net
                                     /\ q.client = c => r.phase = "work" /\ r.mid = cl[c].mid,
           ~Standalone => r.phase \notin {"register", "add"}
    PROVE  ClientInv'
<1>1. cl \in [Clients -> ClientRecs(joins')]
  BY KnownIdsGrow DEF ClientInv, ClientType
<1>2. cl' \in [Clients -> ClientRecs(joins')] /\ cl'[c] = r /\ \A d \in Clients : d # c => cl'[d] = cl[d]
  BY <1>1
<1>3. ClientType'
  BY <1>2 DEF ClientType
<1>4. \A q \in net' : q.client \in Clients
  BY DEF RequestRecs
<1>5. LiveInv'
  BY <1>2, <1>4 DEF ClientInv, LiveInv
<1>6. ModeInv'
  BY <1>2 DEF ClientInv, ModeInv, Standalone, Does
<1>7. QED
  BY <1>3, <1>5, <1>6 DEF ClientInv

\* Nobody's record changes, and no request is opened.
LEMMA PartStep ==
    ASSUME ClientInv, UNCHANGED <<work, joins, cl>>,
           part' \in [Clients -> [Partitions -> PartRecs]],
           net' \in SUBSET RequestRecs(joins),
           start' \in [Partitions -> Nat],
           \A q \in net' : q.live => q \in net
    PROVE  ClientInv'
<1>1. ClientType'
  BY DEF ClientInv, ClientType
<1>2. LiveInv'
  BY DEF ClientInv, LiveInv
<1>3. ModeInv'
  BY DEF ClientInv, ModeInv, Standalone, Does
<1>4. QED
  BY <1>1, <1>2, <1>3 DEF ClientInv

\* A client with no open request opens one for its assignment.
LEMMA RequestStep ==
    ASSUME ClientInv, UNCHANGED <<work, joins, cl, start>>, NEW c \in Clients,
           Phase(c, "work"), Live(c) = {},
           NEW kind \in {"batch", "retry"}, NEW offs \in PartialOffsets,
           net' = net \union {Request(c, kind, offs)},
           part' \in [Clients -> [Partitions -> PartRecs]]
    PROVE  ClientInv'
<1> DEFINE new == Request(c, kind, offs)
<1>1. new \in RequestRecs(joins) /\ new.client = c /\ new.mid = cl[c].mid
  BY DEF Request, RequestRecs, ClientInv, ClientType, ClientRecs
<1>2. net' = net \union {new}
  OBVIOUS
<1> HIDE DEF new
<1>3. ClientType'
  BY <1>1, <1>2 DEF ClientInv, ClientType
<1>4. \A q \in net : q.live => q.client # c
  BY DEF Live
<1>5. LiveInv'
  BY <1>1, <1>2, <1>4 DEF ClientInv, LiveInv, Phase
<1>6. ModeInv'
  BY DEF ClientInv, ModeInv, Standalone, Does
<1>7. QED
  BY <1>3, <1>5, <1>6 DEF ClientInv

\* The records the client's functions build.
LEMMA ClientForms ==
    ASSUME NEW n \in Nat, cl \in [Clients -> ClientRecs(n)], NEW c \in Clients
    PROVE  /\ cl[c] \in ClientRecs(n)
           /\ NewClient \in ClientRecs(n)
           /\ Gone \in ClientRecs(n) /\ Gone.phase = "closed" /\ Gone.mid = NoMember
           /\ Rejoin(c) \in ClientRecs(n) /\ Rejoin(c).phase = "join" /\ Rejoin(c).mid = cl[c].mid
           /\ \A ph \in Phases : /\ To(c, ph) \in ClientRecs(n)
                                 /\ To(c, ph).phase = ph /\ To(c, ph).mid = cl[c].mid
                                 /\ To(c, ph).jmid = cl[c].jmid /\ To(c, ph).got = cl[c].got
           /\ \A gen \in Nat, m \in KnownIds(n), asg \in SUBSET Partitions :
                 /\ Joined(c, gen, m, asg) \in ClientRecs(n)
                 /\ Joined(c, gen, m, asg).phase \in {"sync", "offsets"}
                 /\ Joined(c, gen, m, asg).got = << >>
                 /\ Joined(c, gen, m, asg).jmid = m
           /\ Leave(c) \in SUBSET RequestRecs(n) /\ \A q \in Leave(c) : ~q.live /\ q.offs = << >> /\ q.mid = cl[c].mid
<1>1. << >> \in [{} -> Int]
  OBVIOUS
<1>2. << >> \in PartialOffsets
  BY <1>1 DEF PartialOffsets
<1>3. NoMember \in KnownIds(n)
  BY DEF KnownIds
<1>4. cl[c] \in ClientRecs(n)
  OBVIOUS
<1>5. NewClient \in ClientRecs(n)
  BY <1>2, <1>3 DEF NewClient, ClientRecs, Phases
<1>6. Gone \in ClientRecs(n) /\ Gone.phase = "closed" /\ Gone.mid = NoMember
  BY <1>5 DEF Gone, ClientRecs, Phases, NewClient
<1>7. ASSUME NEW ph \in Phases
      PROVE  /\ To(c, ph) \in ClientRecs(n) /\ To(c, ph).phase = ph /\ To(c, ph).mid = cl[c].mid
             /\ To(c, ph).jmid = cl[c].jmid /\ To(c, ph).got = cl[c].got
  BY <1>4 DEF To, ClientRecs
<1>8. Rejoin(c) \in ClientRecs(n) /\ Rejoin(c).phase = "join" /\ Rejoin(c).mid = cl[c].mid
  <2>1. "join" \in Phases
    BY DEF Phases
  <2> DEFINE t == To(c, "join")
  <2>2. t \in ClientRecs(n) /\ t.phase = "join" /\ t.mid = cl[c].mid
    BY <1>7, <2>1
  <2> HIDE DEF t
  <2>3. Rejoin(c) = [t EXCEPT !.jmid = NoMember, !.jgen = 0, !.asg = {}, !.got = << >>]
    BY DEF Rejoin, t
  <2>4. [t EXCEPT !.jmid = NoMember, !.jgen = 0, !.asg = {}, !.got = << >>] \in ClientRecs(n)
    BY <1>2, <1>3, <2>2 DEF ClientRecs
  <2>5. Rejoin(c).phase = "join" /\ Rejoin(c).mid = cl[c].mid
    BY <2>2, <2>3 DEF ClientRecs
  <2>6. QED
    BY <2>3, <2>4, <2>5
<1>9. ASSUME NEW gen \in Nat, NEW m \in KnownIds(n), NEW asg \in SUBSET Partitions
      PROVE  /\ Joined(c, gen, m, asg) \in ClientRecs(n)
             /\ Joined(c, gen, m, asg).phase \in {"sync", "offsets"}
             /\ Joined(c, gen, m, asg).got = << >>
             /\ Joined(c, gen, m, asg).jmid = m
  <2> DEFINE ph == IF asg = {} THEN "sync" ELSE "offsets"
             t == To(c, ph)
             gen2 == IF cl[c].boot THEN gen ELSE t.gen
             mid2 == IF cl[c].boot THEN m ELSE t.mid
  <2>1. ph \in Phases /\ ph \in {"sync", "offsets"}
    BY DEF Phases
  <2> HIDE DEF ph
  <2>2. t \in ClientRecs(n) /\ t.phase = ph
    BY <1>7, <2>1
  <2> HIDE DEF t
  <2>3. gen2 \in Nat /\ mid2 \in KnownIds(n)
    BY <2>2 DEF ClientRecs
  <2> HIDE DEF gen2, mid2
  <2>4. Joined(c, gen, m, asg) = [t EXCEPT !.jgen = gen, !.jmid = m, !.asg = asg, !.got = << >>,
                                          !.gen = gen2, !.mid = mid2]
    BY DEF Joined, t, gen2, mid2, ph
  <2>5. QED
    BY <1>2, <2>1, <2>2, <2>3, <2>4 DEF ClientRecs
<1>10. Leave(c) \in SUBSET RequestRecs(n) /\ \A q \in Leave(c) : ~q.live /\ q.offs = << >> /\ q.mid = cl[c].mid
  <2>1. [client |-> c, kind |-> "leave", mid |-> cl[c].mid, gen |-> cl[c].gen,
         offs |-> << >>, live |-> FALSE] \in RequestRecs(n)
    BY <1>2, <1>4 DEF RequestRecs, ClientRecs
  <2>2. QED
    BY <2>1 DEF Leave
<1>11. QED
  BY <1>4, <1>5, <1>6, <1>7, <1>8, <1>9, <1>10

-----------------------------------------------------------------------------
(* ClientInv is preserved: joining.                                        *)

GroupInv == CoordInv /\ ClientInv

\* The types a step starts from.
LEMMA GroupTypes ==
    ASSUME GroupInv
    PROVE  /\ joins \in Nat /\ group \in GroupType /\ group.gen \in Nat /\ groupEpoch \in Nat
           /\ group.offs \in Offsets /\ DOMAIN group.members \subseteq JoinedIds(joins)
           /\ \A m \in DOMAIN group.members : group.members[m] \in SUBSET Partitions
           /\ cl \in [Clients -> ClientRecs(joins)]
           /\ part \in [Clients -> [Partitions -> PartRecs]]
           /\ net \in SUBSET RequestRecs(joins)
           /\ start \in [Partitions -> Nat]
           /\ \A c \in Clients : cl[c] \in ClientRecs(joins)
<1>1. group \in GroupType
  BY DEF GroupInv, CoordInv, CoordType
<1>2. group.members \in Assignments /\ group.gen \in Nat /\ group.offs \in Offsets
  BY <1>1 DEF GroupType
<1>3. \A m \in DOMAIN group.members : group.members[m] \in SUBSET Partitions
  BY <1>2 DEF Assignments
<1>4. QED
  BY <1>1, <1>2, <1>3 DEF GroupInv, CoordInv, CoordType, MemberInv, ClientInv, ClientType

\* A client that is not at work has no open request, and may change its record freely.
LEMMA SoloStep ==
    ASSUME GroupInv, joins' \in {joins, joins + 1}, UNCHANGED work, NEW c \in Clients, ~Phase(c, "work"),
           NEW r \in ClientRecs(joins'), cl' = [cl EXCEPT ![c] = r],
           part' \in [Clients -> [Partitions -> PartRecs]],
           net' \in SUBSET RequestRecs(joins'), \A q \in net' : q.live => q \in net,
           UNCHANGED start, ~Standalone => r.phase \notin {"register", "add"}
    PROVE  ClientInv'
<1>1. joins \in Nat /\ joins' \in Nat /\ joins <= joins' /\ start \in [Partitions -> Nat]
  BY GroupTypes
<1>2. \A q \in net' : q.live => q \in net /\ q.client # c
  BY DEF GroupInv, ClientInv, LiveInv, Phase
<1>3. QED
  BY <1>1, <1>2, ClientStep DEF GroupInv

\* The same when only its record changes.
LEMMA SoloClient ==
    ASSUME GroupInv, joins' \in {joins, joins + 1}, UNCHANGED <<work, part, net, start>>,
           NEW c \in Clients, ~Phase(c, "work"),
           NEW r \in ClientRecs(joins'), cl' = [cl EXCEPT ![c] = r],
           ~Standalone => r.phase \notin {"register", "add"}
    PROVE  ClientInv'
<1>1. joins \in Nat /\ joins' \in Nat /\ joins <= joins'
      /\ part \in [Clients -> [Partitions -> PartRecs]] /\ net \in SUBSET RequestRecs(joins)
  BY GroupTypes
<1>2. net' \in SUBSET RequestRecs(joins')
  BY <1>1, KnownIdsGrow
<1>3. QED
  BY <1>1, <1>2, SoloStep

\* JOIN_GROUP on a standalone broker.
LEMMA HandleJoinClient ==
    ASSUME GroupInv, NEW c \in Clients, HandleJoin(c) PROVE ClientInv'
<1> DEFINE ph == IF Exists THEN "add" ELSE "register"
<1>1. /\ Phase(c, "join") /\ Standalone /\ cl' = [cl EXCEPT ![c] = To(c, ph)]
      /\ UNCHANGED <<work, joins, part, net, start>>
  BY DEF HandleJoin, SetClient, NoCoord, coordVars, Quiet
<1>2. To(c, ph) \in ClientRecs(joins) /\ ph \in Phases
  BY GroupTypes, ClientForms DEF Phases
<1> HIDE DEF ph
<1>3. ~Phase(c, "work")
  BY <1>1 DEF Phase
<1>4. QED
  BY <1>1, <1>2, <1>3, SoloClient

\* Registration hands over to AddConsumer.
LEMMA RegisterClient ==
    ASSUME GroupInv, NEW c \in Clients, RegisterGroup(c) PROVE ClientInv'
<1>1. /\ Phase(c, "register") /\ UNCHANGED <<work, joins, part, net, start>>
      /\ cl' = cl \/ cl' = [cl EXCEPT ![c] = To(c, "add")]
  BY DEF RegisterGroup, SetClient, NoCoord, coordVars, Quiet, LifecycleBegin
<1>2. To(c, "add") \in ClientRecs(joins)
  BY GroupTypes, ClientForms DEF Phases
<1>3. ~Phase(c, "work") /\ Standalone
  BY <1>1 DEF Phase, GroupInv, ClientInv, ModeInv
<1>4. CASE cl' = cl
  BY <1>1, <1>4, PartStep, GroupTypes DEF GroupInv
<1>5. CASE cl' = [cl EXCEPT ![c] = To(c, "add")]
  BY <1>1, <1>2, <1>3, <1>5, SoloClient
<1>6. QED
  BY <1>1, <1>4, <1>5

\* A fresh ID and its assignment, before the answer.
LEMMA JoinAddClient ==
    ASSUME GroupInv, CoordInv', NEW c \in Clients, JoinAdd(c) PROVE ClientInv'
<1> DEFINE m == <<c, joins + 1>>
           a == IF m \in DOMAIN group'.members THEN group'.members[m] ELSE {}
           r == [To(c, "answer") EXCEPT !.jmid = m, !.asg = a]
<1>1. /\ Phase(c, "add") /\ joins' = joins + 1 /\ cl' = [cl EXCEPT ![c] = r]
      /\ UNCHANGED <<work, part, net, start>>
  BY DEF JoinAdd, SetClient, AddConsumer, Quiet
<1>2. joins \in Nat /\ joins' \in Nat /\ joins <= joins' /\ m \in KnownIds(joins')
  BY <1>1, GroupTypes, MembersJoined DEF GroupInv, KnownIds
<1>3. a \in SUBSET Partitions
  <2>1. group' \in GroupType
    BY DEF CoordInv, CoordType
  <2>2. group'.members \in Assignments
    BY <2>1 DEF GroupType
  <2>3. QED
    BY <2>2 DEF Assignments
<1> HIDE DEF m, a
<1>4. To(c, "answer") \in ClientRecs(joins')
  <2>1. To(c, "answer") \in ClientRecs(joins)
    BY GroupTypes, ClientForms DEF Phases
  <2>2. QED
    BY <1>2, <2>1, KnownIdsGrow
<1>5. r \in ClientRecs(joins')
  BY <1>2, <1>3, <1>4 DEF ClientRecs
<1>6. r.phase = "answer"
  BY <1>4, GroupTypes, ClientForms DEF ClientRecs, Phases, To
<1> HIDE DEF r
<1>7. ~Phase(c, "work")
  BY <1>1 DEF Phase
<1>8. QED
  BY <1>1, <1>5, <1>6, <1>7, SoloClient

\* A join applied by the FSM.
LEMMA RaftJoinClient ==
    ASSUME GroupInv, NEW c \in Clients, RaftJoin(c) PROVE ClientInv'
<1> DEFINE m == <<c, joins + 1>>
           r == [To(c, "answer") EXCEPT !.jmid = m, !.asg = {}]
<1>1. /\ Phase(c, "join") /\ joins' = joins + 1 /\ cl' = [cl EXCEPT ![c] = r]
      /\ UNCHANGED <<work, part, net, start>>
  BY DEF RaftJoin, SetClient, ApplyJoin, Quiet
<1>2. joins \in Nat /\ joins' \in Nat /\ joins <= joins' /\ m \in KnownIds(joins')
  BY <1>1, GroupTypes, MembersJoined DEF GroupInv, KnownIds
<1> HIDE DEF m
<1>3. To(c, "answer") \in ClientRecs(joins')
  <2>1. To(c, "answer") \in ClientRecs(joins)
    BY GroupTypes, ClientForms DEF Phases
  <2>2. QED
    BY <1>2, <2>1, KnownIdsGrow
<1>4. r \in ClientRecs(joins')
  BY <1>2, <1>3 DEF ClientRecs
<1>5. r.phase = "answer"
  BY <1>3, GroupTypes, ClientForms DEF ClientRecs, Phases, To
<1> HIDE DEF r
<1>6. ~Phase(c, "work")
  BY <1>1 DEF Phase
<1>7. QED
  BY <1>1, <1>4, <1>5, <1>6, SoloClient

\* The assignments and the generation of the answer, or none.
LEMMA AnswerClient ==
    ASSUME GroupInv, NEW c \in Clients, RaftAssignments(c) \/ JoinRespond(c) \/ JoinLost(c)
    PROVE  ClientInv'
<1>1. Phase(c, "answer") /\ ~Phase(c, "work") /\ UNCHANGED <<work, joins, part, net, start>>
  BY DEF RaftAssignments, JoinRespond, JoinLost, Phase, NoCoord, coordVars, Quiet
<1>2. cl[c] \in ClientRecs(joins) /\ cl[c].jmid \in KnownIds(joins) /\ cl[c].asg \in SUBSET Partitions
  BY GroupTypes DEF ClientRecs
<1>3. CASE RaftAssignments(c)
  <2> DEFINE a == group.members[cl[c].jmid]
  <2>1. cl' = [cl EXCEPT ![c] = [cl[c] EXCEPT !.asg = a]] /\ a \in SUBSET Partitions
    BY <1>3, GroupTypes DEF RaftAssignments, SetClient, Assigned
  <2> HIDE DEF a
  <2>2. [cl[c] EXCEPT !.asg = a] \in ClientRecs(joins) /\ [cl[c] EXCEPT !.asg = a].phase = "answer"
    BY <1>1, <1>2, <2>1 DEF ClientRecs, Phase
  <2>3. QED
    BY <1>1, <2>1, <2>2, SoloClient
<1>4. CASE JoinRespond(c)
  <2> DEFINE r == Joined(c, group.gen, cl[c].jmid, cl[c].asg)
  <2>1. cl' = [cl EXCEPT ![c] = r]
    BY <1>4 DEF JoinRespond, SetClient
  <2>2. r \in ClientRecs(joins) /\ r.phase \in {"sync", "offsets"}
    BY <1>2, GroupTypes, ClientForms
  <2> HIDE DEF r
  <2>3. QED
    BY <1>1, <2>1, <2>2, SoloClient
<1>5. CASE JoinLost(c)
  <2>1. cl' = [cl EXCEPT ![c] = Rejoin(c)]
    BY <1>5 DEF JoinLost, SetClient
  <2>2. Rejoin(c) \in ClientRecs(joins) /\ Rejoin(c).phase = "join"
    BY GroupTypes, ClientForms
  <2>3. QED
    BY <1>1, <2>1, <2>2, SoloClient
<1>6. QED
  BY <1>3, <1>4, <1>5

\* A validated member is in the group.
LEMMA Validated ==
    ASSUME NEW m, NEW gen
    PROVE  /\ Validate(m, gen) = "OK" => m \in DOMAIN group.members /\ group.gen = gen
           /\ Validate(m, gen) = "GEN_MISMATCH" => m \in DOMAIN group.members
  BY DEF Validate

\* A session is resumed, or given up.
LEMMA ResumeClient ==
    ASSUME GroupInv, NEW c \in Clients, HandleResume(c) PROVE ClientInv'
<1> DEFINE m == cl[c].mid
           g == group.gen
           j == Joined(c, group.gen, m, group.members[m])
           r1 == [j EXCEPT !.gen = g, !.mid = m]
           r2 == [cl[c] EXCEPT !.mid = NoMember, !.gen = 0]
<1>1. /\ Phase(c, "join") /\ ~Phase(c, "work") /\ UNCHANGED <<work, joins, part, net, start>>
      /\ \/ m \in DOMAIN group.members /\ cl' = [cl EXCEPT ![c] = r1]
         \/ cl' = [cl EXCEPT ![c] = r2]
  BY Validated DEF HandleResume, SetClient, Phase, Quiet
<1>2. cl[c] \in ClientRecs(joins) /\ m \in KnownIds(joins) /\ g \in Nat /\ NoMember \in KnownIds(joins)
  BY GroupTypes DEF ClientRecs, KnownIds
<1>3. ASSUME m \in DOMAIN group.members
      PROVE  j \in ClientRecs(joins) /\ j.phase \in {"sync", "offsets"}
  BY <1>2, <1>3, GroupTypes, ClientForms
<1> HIDE DEF j, m, g
<1>4. ASSUME m \in DOMAIN group.members
      PROVE  r1 \in ClientRecs(joins) /\ r1.phase \in {"sync", "offsets"}
  <2>1. r1 \in ClientRecs(joins)
    BY <1>2, <1>3, <1>4 DEF ClientRecs
  <2>2. r1.phase = j.phase
    BY <1>3, <1>4 DEF ClientRecs
  <2>3. QED
    BY <1>3, <1>4, <2>1, <2>2
<1>5. r2 \in ClientRecs(joins)
  BY <1>2 DEF ClientRecs
<1>6. r2.phase = "join"
  BY <1>1, <1>2 DEF ClientRecs, Phase
<1> HIDE DEF r1, r2
<1>7. CASE m \in DOMAIN group.members /\ cl' = [cl EXCEPT ![c] = r1]
  BY <1>1, <1>4, <1>7, SoloClient
<1>8. CASE cl' = [cl EXCEPT ![c] = r2]
  BY <1>1, <1>5, <1>6, <1>8, SoloClient
<1>9. QED
  BY <1>1, <1>7, <1>8

\* A failed start closes the client, a failed rebalance starts over.
LEMMA GiveUpClient ==
    ASSUME GroupInv, NEW c \in Clients, ~Phase(c, "work"), GiveUp(c),
           UNCHANGED <<work, joins, part, start>>
    PROVE  ClientInv'
<1>1. /\ Gone \in ClientRecs(joins) /\ Gone.phase = "closed"
      /\ Rejoin(c) \in ClientRecs(joins) /\ Rejoin(c).phase = "join"
      /\ Leave(c) \in SUBSET RequestRecs(joins) /\ \A q \in Leave(c) : ~q.live
  BY GroupTypes, ClientForms
<1>2. net \in SUBSET RequestRecs(joins) /\ part \in [Clients -> [Partitions -> PartRecs]]
  BY GroupTypes
<1>3. CASE cl[c].boot
  <2>1. cl' = [cl EXCEPT ![c] = Gone] /\ net' = net \union Leave(c)
    BY <1>3 DEF GiveUp, SetClient
  <2>2. net' \in SUBSET RequestRecs(joins') /\ \A q \in net' : q.live => q \in net
    BY <1>1, <1>2, <2>1
  <2>3. QED
    BY <1>1, <1>2, <2>1, <2>2, SoloStep
<1>4. CASE ~cl[c].boot
  <2>1. cl' = [cl EXCEPT ![c] = Rejoin(c)] /\ net' = net
    BY <1>4 DEF GiveUp, SetClient
  <2>2. QED
    BY <1>1, <2>1, SoloClient
<1>5. QED
  BY <1>3, <1>4

\* SYNC_GROUP.
LEMMA SyncClient ==
    ASSUME GroupInv, NEW c \in Clients, SyncGroup(c) PROVE ClientInv'
<1> DEFINE m == cl[c].jmid
           a == group.members[m]
           t == To(c, "offsets")
           n == cl[c].jgen
           r == [t EXCEPT !.asg = a, !.gen = n, !.mid = m]
<1>1. /\ ~Phase(c, "work") /\ UNCHANGED <<work, joins, part, start>>
      /\ \/ m \in DOMAIN group.members /\ cl' = [cl EXCEPT ![c] = r] /\ net' = net
         \/ GiveUp(c)
  BY Validated DEF SyncGroup, SetClient, Phase, Workload
<1>2. m \in KnownIds(joins) /\ n \in Nat
  BY GroupTypes DEF ClientRecs
<1>3. t \in ClientRecs(joins) /\ t.phase = "offsets"
  BY GroupTypes, ClientForms DEF Phases
<1>4. m \in DOMAIN group.members => a \in SUBSET Partitions
  BY GroupTypes
<1> HIDE DEF m, a, t, n
<1>5. m \in DOMAIN group.members => r \in ClientRecs(joins)
  BY <1>2, <1>3, <1>4 DEF ClientRecs
<1>6. r.phase = "offsets"
  BY <1>3 DEF ClientRecs
<1> HIDE DEF r
<1>7. CASE m \in DOMAIN group.members /\ cl' = [cl EXCEPT ![c] = r] /\ net' = net
  BY <1>1, <1>5, <1>6, <1>7, SoloClient
<1>8. CASE GiveUp(c)
  BY <1>1, <1>8, GiveUpClient
<1>9. QED
  BY <1>1, <1>7, <1>8

\* FETCH_OFFSET adds one partition's offset.
LEMMA FetchClient ==
    ASSUME GroupInv, NEW c \in Clients, FetchOffset(c) PROVE ClientInv'
<1>1. PICK p \in cl[c].asg \ DOMAIN cl[c].got :
          \/ /\ cl' = [cl EXCEPT ![c] = [cl[c] EXCEPT !.got = [q \in DOMAIN cl[c].got \union {p} |->
                                   IF q = p THEN Max({group.offs[p], 0}) ELSE cl[c].got[q]]]]
             /\ net' = net
          \/ GiveUp(c)
  BY DEF FetchOffset, SetClient
<1>2. ~Phase(c, "work") /\ Phase(c, "offsets") /\ UNCHANGED <<work, joins, part, start>>
  BY DEF FetchOffset, Phase, NoCoord, coordVars, Workload
<1>3. cl[c] \in ClientRecs(joins) /\ p \in Partitions /\ cl[c].got \in PartialOffsets /\ group.offs[p] \in Int
  BY GroupTypes DEF ClientRecs, Offsets
<1> DEFINE f == [q \in DOMAIN cl[c].got \union {p} |->
                    IF q = p THEN Max({group.offs[p], 0}) ELSE cl[c].got[q]]
           r == [cl[c] EXCEPT !.got = f]
<1>4. f \in PartialOffsets
  <2>1. PICK S \in SUBSET Partitions : cl[c].got \in [S -> Int]
    BY <1>3 DEF PartialOffsets
  <2>2. Max({group.offs[p], 0}) \in Int
    BY <1>3, MaxOfTwo
  <2>3. f \in [S \union {p} -> Int]
    BY <2>1, <2>2
  <2> HIDE DEF f
  <2>4. S \union {p} \in SUBSET Partitions
    BY <1>3
  <2>5. QED
    BY <2>3, <2>4 DEF PartialOffsets
<1>5. CASE cl' = [cl EXCEPT ![c] = r] /\ net' = net
  <2> HIDE DEF f
  <2>1. r \in ClientRecs(joins) /\ r.phase = "offsets"
    BY <1>2, <1>3, <1>4 DEF ClientRecs, Phase
  <2> HIDE DEF r
  <2>2. QED
    BY <1>2, <1>5, <2>1, SoloClient
<1>6. CASE GiveUp(c)
  BY <1>2, <1>6, GiveUpClient
<1>7. QED
  BY <1>1, <1>5, <1>6

\* A partition consumer before it has read anything.
LEMMA NoPartType == NoPart \in PartRecs /\ NoParts \in [Partitions -> PartRecs]
<1>1. << >> \in Seq(BatchRecs)
  OBVIOUS
<1>2. NoPart \in PartRecs
  BY <1>1 DEF NoPart, PartRecs, Closed
<1>3. QED
  BY <1>2 DEF NoParts

\* The workers start from the fetched offsets.
LEMMA ReadyClient ==
    ASSUME GroupInv, NEW c \in Clients, AssignmentReady(c) PROVE ClientInv'
<1> DEFINE t == To(c, "work")
           g == cl[c].jgen
           m == cl[c].jmid
           r == [t EXCEPT !.gen = g, !.mid = m, !.jmid = NoMember, !.jgen = 0, !.got = << >>,
                          !.boot = FALSE, !.beats = TRUE]
           new == [p \in Partitions |->
                     IF p \in cl[c].asg THEN [NoPart EXCEPT !.fetch = cl[c].got[p], !.offs = cl[c].got[p]]
                                        ELSE NoPart]
<1>1. /\ ~Phase(c, "work") /\ UNCHANGED <<work, joins, net, start>>
      /\ cl' = [cl EXCEPT ![c] = r] /\ part' = [part EXCEPT ![c] = new] /\ DOMAIN cl[c].got = cl[c].asg
  BY DEF AssignmentReady, SetClient, Phase, NoCoord, coordVars, Quiet
<1>2. g \in Nat /\ m \in KnownIds(joins) /\ NoMember \in KnownIds(joins)
  BY GroupTypes DEF ClientRecs, KnownIds
<1>3. t \in ClientRecs(joins) /\ t.phase = "work"
  BY GroupTypes, ClientForms DEF Phases
<1>4. << >> \in PartialOffsets
  <2>1. << >> \in [{} -> Int]
    OBVIOUS
  <2>2. QED
    BY <2>1 DEF PartialOffsets
<1>5. new \in [Partitions -> PartRecs]
  <2>1. ASSUME NEW p \in Partitions, p \in cl[c].asg
        PROVE  [NoPart EXCEPT !.fetch = cl[c].got[p], !.offs = cl[c].got[p]] \in PartRecs
    <3>1. cl[c].got[p] \in Int
      <4>1. cl[c].got \in PartialOffsets
        BY GroupTypes DEF ClientRecs
      <4>2. QED
        BY <1>1, <2>1, <4>1 DEF PartialOffsets
    <3>2. QED
      BY <3>1, NoPartType DEF PartRecs
  <2>2. QED
    BY <2>1, NoPartType
<1> HIDE DEF t, g, m, new
<1>6. r \in ClientRecs(joins)
  BY <1>2, <1>3, <1>4 DEF ClientRecs
<1>7. r.phase = "work"
  BY <1>3 DEF ClientRecs
<1> HIDE DEF r
<1>8. part' \in [Clients -> [Partitions -> PartRecs]] /\ net \in SUBSET RequestRecs(joins)
  BY <1>1, <1>5, GroupTypes
<1>9. QED
  BY <1>1, <1>6, <1>7, <1>8, SoloStep

-----------------------------------------------------------------------------
(* ClientInv is preserved: reading, handling, committing.                  *)

\* Closing a connection keeps the record's type.
LEMMA ClosedForms ==
    ASSUME NEW r \in PartRecs
    PROVE  /\ Closed \in Int
           /\ [r EXCEPT !.conn = Closed] \in PartRecs
           /\ \A x \in Int : [r EXCEPT !.fetch = x, !.offs = x, !.conn = Closed] \in PartRecs
           /\ \A x \in Int, q \in Seq(BatchRecs) :
                 [r EXCEPT !.queue = q, !.dead = TRUE, !.fetch = x, !.conn = Closed] \in PartRecs
<1>1. Closed \in Int
  BY DEF Closed
<1>2. [r EXCEPT !.conn = Closed] \in PartRecs
  BY <1>1 DEF PartRecs
<1>3. ASSUME NEW x \in Int PROVE [r EXCEPT !.fetch = x, !.offs = x, !.conn = Closed] \in PartRecs
  BY <1>1 DEF PartRecs
<1>4. ASSUME NEW x \in Int, NEW q \in Seq(BatchRecs)
      PROVE  [r EXCEPT !.queue = q, !.dead = TRUE, !.fetch = x, !.conn = Closed] \in PartRecs
  BY <1>1 DEF PartRecs
<1>5. QED
  BY <1>1, <1>2, <1>3, <1>4

\* One partition consumer changes.
LEMMA SetPartStep ==
    ASSUME GroupInv, NEW c \in Clients, NEW p \in Partitions, NEW r \in PartRecs,
           SetPart(c, p, r), UNCHANGED <<work, joins, cl, net, start>>
    PROVE  ClientInv'
<1>1. part' \in [Clients -> [Partitions -> PartRecs]]
  BY GroupTypes DEF SetPart
<1>2. QED
  BY <1>1, GroupTypes, PartStep DEF GroupInv

\* A read starts at an integer and ends at or behind it.
LEMMA ReadTypes ==
    ASSUME GroupInv, NEW c \in Clients, NEW p \in Partitions
    PROVE  /\ part[c][p] \in PartRecs
           /\ \A x \in Int : ResolveOffset(p, x) \in Int
           /\ Position(c, p) \in Int
           /\ \A from \in Int : \A to \in Ends(p, from) : to \in Int /\ from <= to
<1>1. part[c][p] \in PartRecs /\ group.offs[p] \in Int
  BY GroupTypes DEF Offsets
<1>2. \A x \in Int : ResolveOffset(p, x) \in Int
  BY <1>1 DEF ResolveOffset
<1>3. Position(c, p) \in Int
  BY <1>1, <1>2 DEF Position, PartRecs
<1>4. LogEnd[p] \in Nat /\ BatchSize \in Nat
  BY ConsumerConstants
<1>5. End(p) \in Int
  BY <1>4, MinOfTwo DEF End
<1>6. ASSUME NEW from \in Int, NEW to \in Ends(p, from) PROVE to \in Int /\ from <= to
  <2>1. CASE from >= End(p)
    BY <2>1 DEF Ends
  <2>2. CASE ~(from >= End(p))
    <3>1. Min({from + BatchSize, End(p)}) \in Int
      BY <1>4, <1>5, MinOfTwo
    <3>2. to \in from + 1 .. Min({from + BatchSize, End(p)})
      BY <2>2 DEF Ends
    <3>3. QED
      BY <3>1, <3>2
  <2>3. QED
    BY <2>1, <2>2
<1>7. QED
  BY <1>1, <1>2, <1>3, <1>6

\* What a delivered batch makes of a partition consumer.
LEMMA DeliveredForms ==
    ASSUME groupEpoch \in Nat, NEW r \in PartRecs, NEW from \in Int, NEW to \in Int
    PROVE  /\ Delivered(r, from, to) \in PartRecs
           /\ Delivered(r, from, to).offs = r.offs /\ Delivered(r, from, to).commit = r.commit
           /\ Delivered(r, from, to).retry = r.retry /\ Delivered(r, from, to).dead = r.dead
           /\ from = to => /\ Delivered(r, from, to).conn = from /\ Delivered(r, from, to).fetch = r.fetch
                           /\ Delivered(r, from, to).queue = r.queue
           /\ from # to => /\ Delivered(r, from, to).conn = to
                           /\ Delivered(r, from, to).fetch \in {r.fetch, to}
                           /\ Delivered(r, from, to).queue = Append(r.queue, [inc |-> groupEpoch, from |-> from, to |-> to])
<1>1. CASE from = to
  BY <1>1 DEF Delivered, PartRecs
<1>2. CASE from # to
  <2> DEFINE b == [inc |-> groupEpoch, from |-> from, to |-> to]
             f == IF Streaming THEN r.fetch ELSE to
             q == Append(r.queue, b)
  <2>1. b \in BatchRecs
    BY DEF BatchRecs
  <2> HIDE DEF b
  <2>2. q \in Seq(BatchRecs) /\ f \in Int /\ f \in {r.fetch, to}
    BY <2>1 DEF PartRecs
  <2> HIDE DEF f, q
  <2>3. Delivered(r, from, to) = [r EXCEPT !.conn = to, !.fetch = f, !.queue = q]
    BY <1>2 DEF Delivered, f, q, b
  <2>4. [r EXCEPT !.conn = to, !.fetch = f, !.queue = q] \in PartRecs
    BY <2>2 DEF PartRecs
  <2>5. /\ Delivered(r, from, to).offs = r.offs /\ Delivered(r, from, to).commit = r.commit
        /\ Delivered(r, from, to).retry = r.retry /\ Delivered(r, from, to).dead = r.dead
    BY <2>3 DEF PartRecs
  <2>6. /\ Delivered(r, from, to).conn = to /\ Delivered(r, from, to).fetch = f
        /\ Delivered(r, from, to).queue = q
    BY <2>3 DEF PartRecs
  <2>7. QED
    BY <1>2, <2>2, <2>3, <2>4, <2>5, <2>6 DEF q, b
<1>3. QED
  BY <1>1, <1>2

\* A stream opens, taking over the partition's from whoever had it.
LEMMA StreamOpenClient ==
    ASSUME GroupInv, NEW c \in Clients, NEW p \in Partitions, StreamOpen(c, p) PROVE ClientInv'
<1> DEFINE from == ResolveOffset(p, part[c][p].offs)
<1>1. PICK to \in Ends(p, from) :
          part' = [d \in Clients |-> [part[d] EXCEPT ![p] =
                     IF d = c THEN Delivered(part[d][p], from, to)
                              ELSE [part[d][p] EXCEPT !.conn = Closed]]]
  BY DEF StreamOpen
<1>2. from \in Int /\ to \in Int
  BY ReadTypes DEF PartRecs
<1> HIDE DEF from
<1>3. ASSUME NEW d \in Clients
      PROVE  [part[d] EXCEPT ![p] = IF d = c THEN Delivered(part[d][p], from, to)
                              ELSE [part[d][p] EXCEPT !.conn = Closed]] \in [Partitions -> PartRecs]
  <2>1. part[d] \in [Partitions -> PartRecs] /\ part[d][p] \in PartRecs
    BY GroupTypes
  <2>2. Delivered(part[d][p], from, to) \in PartRecs
    BY <1>2, <2>1, GroupTypes, DeliveredForms
  <2>3. [part[d][p] EXCEPT !.conn = Closed] \in PartRecs
    BY <2>1, ClosedForms
  <2>4. QED
    BY <2>1, <2>2, <2>3
<1>4. part' \in [Clients -> [Partitions -> PartRecs]]
  BY <1>1, <1>3
<1>5. UNCHANGED <<work, joins, cl, net, start>>
  BY DEF StreamOpen, NoCoord, coordVars, Quiet
<1>6. QED
  BY <1>4, <1>5, GroupTypes, PartStep DEF GroupInv

\* The other steps of a reader.
LEMMA ReaderClient ==
    ASSUME GroupInv, NEW c \in Clients, NEW p \in Partitions,
           Read(c, p) \/ OutOfRange(c, p) \/ ConnDrop(c, p)
    PROVE  ClientInv'
<1>1. part[c][p] \in PartRecs /\ Position(c, p) \in Int /\ start[p] \in Int /\ groupEpoch \in Nat
  BY ReadTypes, GroupTypes
<1>2. CASE Read(c, p)
  <2>1. PICK to \in Ends(p, Position(c, p)) : SetPart(c, p, Delivered(part[c][p], Position(c, p), to))
    BY <1>2 DEF Read
  <2>2. to \in Int
    BY <1>1, ReadTypes
  <2>3. Delivered(part[c][p], Position(c, p), to) \in PartRecs
    BY <1>1, <2>2, DeliveredForms
  <2>4. UNCHANGED <<work, joins, cl, net, start>>
    BY <1>2 DEF Read, NoCoord, coordVars, Quiet
  <2>5. QED
    BY <2>1, <2>3, <2>4, SetPartStep
<1>3. CASE OutOfRange(c, p)
  <2> DEFINE s == start[p]
             r == [part[c][p] EXCEPT !.fetch = s, !.offs = s, !.conn = Closed]
  <2>1. SetPart(c, p, r) /\ UNCHANGED <<work, joins, cl, net, start>>
    BY <1>3 DEF OutOfRange, NoCoord, coordVars, Quiet
  <2>2. r \in PartRecs
    BY <1>1, ClosedForms
  <2> HIDE DEF r
  <2>3. QED
    BY <2>1, <2>2, SetPartStep
<1>4. CASE ConnDrop(c, p)
  <2>1. /\ SetPart(c, p, [part[c][p] EXCEPT !.conn = Closed])
        /\ UNCHANGED <<work, joins, cl, net, start>>
    BY <1>4 DEF ConnDrop, NoCoord, coordVars, Quiet
  <2>2. [part[c][p] EXCEPT !.conn = Closed] \in PartRecs
    BY <1>1, ClosedForms
  <2>3. QED
    BY <2>1, <2>2, SetPartStep
<1>5. QED
  BY <1>2, <1>3, <1>4

\* A queue that is not empty.
LEMMA QueueForms ==
    ASSUME NEW q \in Seq(BatchRecs), q # << >>
    PROVE  Head(q) \in BatchRecs /\ Tail(q) \in Seq(BatchRecs) /\ Len(q) \in Nat \ {0} /\ Head(q) = q[1]
  OBVIOUS

\* runWorker takes a batch.
LEMMA HandleClient ==
    ASSUME GroupInv, NEW c \in Clients, NEW p \in Partitions, Handle(c, p) PROVE ClientInv'
<1> DEFINE q == part[c][p].queue
           to == Head(q).to
           s == Tail(q)
           r == [part[c][p] EXCEPT !.queue = s, !.commit = to]
<1>1. /\ q # << >> /\ SetPart(c, p, r) /\ UNCHANGED <<work, joins, cl, net, start>>
  BY DEF Handle, HandleBatch, Busy, NoCoord, coordVars
<1>2. part[c][p] \in PartRecs /\ q \in Seq(BatchRecs)
  BY ReadTypes DEF PartRecs
<1> HIDE DEF q
<1>3. to \in Int /\ s \in Seq(BatchRecs)
  BY <1>1, <1>2, QueueForms DEF BatchRecs
<1> HIDE DEF s, to
<1>4. r \in PartRecs
  BY <1>2, <1>3 DEF PartRecs
<1> HIDE DEF r
<1>5. QED
  BY <1>1, <1>4, SetPartStep

\* A failing handler ends its worker and asks for a rebalance.
LEMMA HandlerFailsClient ==
    ASSUME GroupInv, NEW c \in Clients, NEW p \in Partitions, HandlerFails(c, p) PROVE ClientInv'
<1> DEFINE q == part[c][p].queue
           o == part[c][p].offs
           s == Tail(q)
           r == [part[c][p] EXCEPT !.queue = s, !.dead = TRUE, !.fetch = o, !.conn = Closed]
           k == [cl[c] EXCEPT !.sig = TRUE]
<1>1. /\ q # << >> /\ SetPart(c, p, r) /\ cl' = [cl EXCEPT ![c] = k] /\ Phase(c, "work")
      /\ UNCHANGED <<work, joins, net, start>>
  BY DEF HandlerFails, Busy, NoCoord, coordVars, Quiet, SetClient
<1>2. part[c][p] \in PartRecs /\ q \in Seq(BatchRecs) /\ o \in Int
  BY ReadTypes DEF PartRecs
<1> HIDE DEF q, o
<1>3. s \in Seq(BatchRecs)
  BY <1>1, <1>2, QueueForms
<1> HIDE DEF s
<1>4. r \in PartRecs
  BY <1>2, <1>3, ClosedForms
<1> HIDE DEF r
<1>5. k \in ClientRecs(joins) /\ k.phase = "work" /\ k.mid = cl[c].mid
  BY <1>1, GroupTypes DEF ClientRecs, Phase
<1> HIDE DEF k
<1>6. part' \in [Clients -> [Partitions -> PartRecs]]
  BY <1>1, <1>4, GroupTypes DEF SetPart
<1>7. \A x \in net' : x.live => x \in net /\ (x.client = c => k.phase = "work" /\ k.mid = cl[c].mid)
  BY <1>1, <1>5
<1>8. joins <= joins' /\ net' \in SUBSET RequestRecs(joins')
  BY <1>1, GroupTypes
<1>9. QED
  BY <1>1, <1>5, <1>6, <1>7, <1>8, GroupTypes, ClientStep DEF GroupInv

\* A batch's end is sent for committing.
LEMMA SendClient ==
    ASSUME GroupInv, NEW c \in Clients, NEW p \in Partitions, SendBatchCommit(c, p) PROVE ClientInv'
<1> DEFINE offs == [q \in {p} |-> part[c][p].commit]
<1>1. /\ Phase(c, "work") /\ Live(c) = {} /\ net' = net \union {Request(c, "batch", offs)}
      /\ UNCHANGED <<work, joins, cl, part, start>>
  BY DEF SendBatchCommit, NoCoord, coordVars, Workload
<1>2. part[c][p].commit \in Int
  BY ReadTypes DEF PartRecs
<1>3. offs \in [{p} -> Int]
  BY <1>2
<1>4. offs \in PartialOffsets
  BY <1>3 DEF PartialOffsets
<1> HIDE DEF offs
<1>5. QED
  BY <1>1, <1>4, GroupTypes, RequestStep DEF GroupInv

\* The commit is postponed.
LEMMA UnreachableClient ==
    ASSUME GroupInv, NEW c \in Clients, NEW p \in Partitions, CommitUnreachable(c, p) PROVE ClientInv'
<1> DEFINE x == Max({part[c][p].retry, part[c][p].commit})
           r == [part[c][p] EXCEPT !.retry = x, !.commit = 0]
<1>1. SetPart(c, p, r) /\ UNCHANGED <<work, joins, cl, net, start>>
  BY DEF CommitUnreachable, NoCoord, coordVars, Quiet
<1>2. part[c][p] \in PartRecs /\ part[c][p].commit \in Int /\ part[c][p].retry \in Int
  BY ReadTypes DEF PartRecs
<1>3. x \in Int /\ 0 \in Int
  BY <1>2, MaxOfTwo
<1> HIDE DEF x
<1>4. r \in PartRecs
  BY <1>2, <1>3 DEF PartRecs
<1> HIDE DEF r
<1>5. QED
  BY <1>1, <1>4, SetPartStep

\* The postponed commits are sent.
LEMMA RetryClient ==
    ASSUME GroupInv, NEW c \in Clients, ProcessRetryQueue(c) PROVE ClientInv'
<1> DEFINE P == {p \in Partitions : part[c][p].retry # 0}
           offs == [p \in P |-> part[c][p].retry]
           new == [p \in Partitions |-> [part[c][p] EXCEPT !.retry = 0]]
<1>1. /\ Phase(c, "work") /\ Live(c) = {} /\ net' = net \union {Request(c, "retry", offs)}
      /\ part' = [part EXCEPT ![c] = new] /\ UNCHANGED <<work, joins, cl, start>>
  BY DEF ProcessRetryQueue, NoCoord, coordVars, Workload
<1>2. \A p \in Partitions : part[c][p] \in PartRecs
  BY GroupTypes
<1>3. \A p \in Partitions : part[c][p].retry \in Int /\ [part[c][p] EXCEPT !.retry = 0] \in PartRecs
  BY <1>2 DEF PartRecs
<1>4. offs \in [P -> Int] /\ P \in SUBSET Partitions
  BY <1>3
<1>5. offs \in PartialOffsets
  BY <1>4 DEF PartialOffsets
<1>6. new \in [Partitions -> PartRecs]
  BY <1>3
<1> HIDE DEF offs, new, P
<1>7. part' \in [Clients -> [Partitions -> PartRecs]]
  BY <1>1, <1>6, GroupTypes
<1>8. QED
  BY <1>1, <1>5, <1>7, RequestStep DEF GroupInv

\* The request of a commit.
LEMMA CommitRequest ==
    ASSUME GroupInv, NEW r \in net
    PROVE  /\ r \in RequestRecs(joins) /\ r.client \in Clients /\ r.offs \in PartialOffsets
           /\ \A p \in DOMAIN r.offs : p \in Partitions /\ r.offs[p] \in Int
           /\ r.live => Phase(r.client, "work") /\ r.mid = cl[r.client].mid
<1>1. r \in RequestRecs(joins)
  BY GroupTypes
<1>2. r.client \in Clients /\ r.offs \in PartialOffsets
  BY <1>1 DEF RequestRecs
<1>3. \A p \in DOMAIN r.offs : p \in Partitions /\ r.offs[p] \in Int
  BY <1>2 DEF PartialOffsets
<1>4. QED
  BY <1>1, <1>2, <1>3 DEF GroupInv, ClientInv, LiveInv, Phase

\* A position is postponed.
LEMMA PostponedForms ==
    ASSUME NEW x \in PartRecs, NEW o \in Int
    PROVE  LET y == Postponed(x, o)
           IN  /\ y \in PartRecs
               /\ y.conn = x.conn /\ y.fetch = x.fetch /\ y.queue = x.queue /\ y.dead = x.dead
               /\ y.offs = x.offs /\ y.commit = x.commit /\ y.retry \in {x.retry, o}
<1> DEFINE m == Max({x.retry, o})
<1>1. x.retry \in Int
  BY DEF PartRecs
<1>2. m \in Int /\ m \in {x.retry, o}
  BY <1>1, MaxOfTwo
<1>3. Postponed(x, o) = [x EXCEPT !.retry = m]
  BY DEF Postponed
<1> HIDE DEF m
<1>4. QED
  BY <1>2, <1>3 DEF PartRecs

\* Positions and batches are kept; c.offsets and the retry map take the request's offsets.
LEMMA AnsweredForms ==
    ASSUME NEW x \in PartRecs, NEW r, NEW p, NEW res, NEW again \in BOOLEAN,
           p \in DOMAIN r.offs => r.offs[p] \in Int
    PROVE  LET y == Answered(x, r, p, res, again)
           IN  /\ y \in PartRecs
               /\ y.conn = x.conn /\ y.fetch = x.fetch /\ y.queue = x.queue /\ y.dead = x.dead
               /\ y.offs = x.offs \/ (p \in DOMAIN r.offs /\ y.offs = r.offs[p])
               /\ y.retry = x.retry \/ (p \in DOMAIN r.offs /\ y.retry = r.offs[p])
               /\ y.commit \in {0, x.commit}
<1> DEFINE y == Answered(x, r, p, res, again)
<1>1. CASE p \notin DOMAIN r.offs \/ (res = "OK" /\ r.kind = "retry")
  BY <1>1 DEF Answered
<1>2. CASE ~(p \notin DOMAIN r.offs \/ (res = "OK" /\ r.kind = "retry")) /\ res = "OK"
  <2>1. r.offs[p] \in Int /\ 0 \in Int /\ p \in DOMAIN r.offs /\ y = [x EXCEPT !.offs = r.offs[p], !.commit = 0]
    BY <1>2 DEF Answered
  <2>2. [x EXCEPT !.offs = r.offs[p], !.commit = 0] \in PartRecs
    BY <2>1 DEF PartRecs
  <2>3. /\ y.conn = x.conn /\ y.fetch = x.fetch /\ y.queue = x.queue /\ y.dead = x.dead
        /\ y.offs = r.offs[p] /\ y.retry = x.retry /\ y.commit = 0
    BY <2>1 DEF PartRecs
  <2>4. QED
    BY <2>1, <2>2, <2>3
<1>3. CASE ~(p \notin DOMAIN r.offs \/ (res = "OK" /\ r.kind = "retry")) /\ res # "OK"
  <2> DEFINE z == Postponed(x, r.offs[p])
             k == IF r.kind = "retry" \/ again THEN z.commit ELSE 0
  <2>1. y = [z EXCEPT !.commit = k] /\ p \in DOMAIN r.offs /\ r.offs[p] \in Int
    BY <1>3 DEF Answered
  <2>2. /\ z \in PartRecs
        /\ z.conn = x.conn /\ z.fetch = x.fetch /\ z.queue = x.queue /\ z.dead = x.dead
        /\ z.offs = x.offs /\ z.commit = x.commit /\ z.retry \in {x.retry, r.offs[p]}
    BY <2>1, PostponedForms
  <2> HIDE DEF z
  <2>3. k \in Int /\ k \in {0, x.commit}
    BY <2>2 DEF PartRecs
  <2> HIDE DEF k
  <2>4. [z EXCEPT !.commit = k] \in PartRecs
    BY <2>2, <2>3 DEF PartRecs
  <2>5. /\ y.conn = z.conn /\ y.fetch = z.fetch /\ y.queue = z.queue /\ y.dead = z.dead
        /\ y.offs = z.offs /\ y.retry = z.retry /\ y.commit = k
    BY <2>1, <2>2 DEF PartRecs
  <2>6. QED
    BY <2>1, <2>2, <2>3, <2>4, <2>5
<1>4. QED
  BY <1>1, <1>2, <1>3

\* An answer reaches the client whose connection is open.
LEMMA AnswerParts ==
    ASSUME GroupInv, NEW r \in net, NEW res, Answer(r.client, r, res)
    PROVE  /\ net' = net \ {r}
           /\ ~r.live => cl' = cl /\ part' = part
           /\ r.live => /\ \E b \in BOOLEAN : cl' = [cl EXCEPT ![r.client] = [cl[r.client] EXCEPT !.sig = b]]
                        /\ \E again \in BOOLEAN :
                             part' = [part EXCEPT ![r.client] = [p \in Partitions |->
                                         Answered(part[r.client][p], r, p, res, again)]]
<1> DEFINE c == r.client
<1>1. CASE ~r.live
  BY <1>1 DEF Answer
<1>2. CASE r.live
  <2>1. cl[c] \in ClientRecs(joins)
    BY GroupTypes, CommitRequest
  <2>2. (cl[c].sig \/ res \in Fenced) \in BOOLEAN
    OBVIOUS
  <2>3. cl' = [cl EXCEPT ![c] = [cl[c] EXCEPT !.sig = (cl[c].sig \/ res \in Fenced)]]
    BY <1>2 DEF Answer, SetClient
  <2>4. \E again \in BOOLEAN :
          part' = [part EXCEPT ![c] = [p \in Partitions |-> Answered(part[c][p], r, p, res, again)]]
    BY <1>2 DEF Answer
  <2>5. QED
    BY <1>2, <2>2, <2>3, <2>4 DEF Answer
<1>3. QED
  BY <1>1, <1>2

\* An answer keeps the client at work on the same assignment.
LEMMA AnswerStep ==
    ASSUME GroupInv, NEW r \in net, NEW res, Answer(r.client, r, res), UNCHANGED <<work, joins, start>>
    PROVE  ClientInv'
<1> DEFINE c == r.client
<1>1. c \in Clients /\ cl[c] \in ClientRecs(joins) /\ net' = net \ {r} /\ net' \in SUBSET RequestRecs(joins)
  BY GroupTypes, CommitRequest, AnswerParts
<1>2. CASE ~r.live
  BY <1>1, <1>2, AnswerParts, GroupTypes, PartStep DEF GroupInv
<1>3. CASE r.live
  <2>1. PICK b \in BOOLEAN : cl' = [cl EXCEPT ![c] = [cl[c] EXCEPT !.sig = b]]
    BY <1>3, AnswerParts
  <2>2. PICK again \in BOOLEAN :
          part' = [part EXCEPT ![c] = [p \in Partitions |-> Answered(part[c][p], r, p, res, again)]]
    BY <1>3, AnswerParts
  <2> DEFINE k == [cl[c] EXCEPT !.sig = b]
  <2>3. k \in ClientRecs(joins) /\ k.phase = cl[c].phase /\ k.mid = cl[c].mid
    BY <1>1 DEF ClientRecs
  <2>4. Phase(c, "work")
    BY <1>3, CommitRequest
  <2> HIDE DEF k
  <2>5. \A p \in Partitions : Answered(part[c][p], r, p, res, again) \in PartRecs
    BY <1>1, GroupTypes, CommitRequest, AnsweredForms
  <2>6. part' \in [Clients -> [Partitions -> PartRecs]]
    BY <1>1, <2>2, <2>5, GroupTypes
  <2>7. \A x \in net' : x.live => x \in net /\ (x.client = c => k.phase = "work" /\ k.mid = cl[c].mid)
    BY <1>1, <2>3, <2>4 DEF Phase
  <2>8. ~Standalone => k.phase \notin {"register", "add"}
    BY <2>3, <2>4 DEF Phase
  <2>9. joins <= joins' /\ start' \in [Partitions -> Nat] /\ joins \in Nat
    BY GroupTypes
  <2> HIDE DEF c
  <2>10. cl' = [cl EXCEPT ![c] = k]
    BY <2>1 DEF k
  <2>11. QED
    BY <1>1, <2>3, <2>6, <2>7, <2>8, <2>9, <2>10, ClientStep DEF GroupInv
<1>4. QED
  BY <1>2, <1>3

\* Commits at the broker.
LEMMA CommitClient ==
    ASSUME GroupInv, NEW r \in net, HandleBatchCommit(r) \/ CommitWriteFails(r) PROVE ClientInv'
<1>1. UNCHANGED <<work, joins, start>>
  BY DEF HandleBatchCommit, CommitWriteFails, Workload
<1>2. \E res : Answer(r.client, r, res)
  BY DEF HandleBatchCommit, CommitWriteFails
<1>3. QED
  BY <1>1, <1>2, AnswerStep

\* A commit whose answer is lost is postponed while the request travels on.
LEMMA LostParts ==
    ASSUME GroupInv, NEW r \in net, CommitLost(r)
    PROVE  /\ r.live /\ UNCHANGED <<work, coordVars, start, handled, cl>>
           /\ net' = (net \ {r}) \union {[r EXCEPT !.live = FALSE]}
           /\ [r EXCEPT !.live = FALSE] \in RequestRecs(joins)
           /\ ~[r EXCEPT !.live = FALSE].live
           /\ [r EXCEPT !.live = FALSE].mid = r.mid /\ [r EXCEPT !.live = FALSE].offs = r.offs
           /\ part' = [part EXCEPT ![r.client] = [p \in Partitions |->
                   IF p \in DOMAIN r.offs THEN Postponed(part[r.client][p], r.offs[p]) ELSE part[r.client][p]]]
<1>1. r \in RequestRecs(joins)
  BY CommitRequest
<1>2. /\ [r EXCEPT !.live = FALSE] \in RequestRecs(joins) /\ ~[r EXCEPT !.live = FALSE].live
      /\ [r EXCEPT !.live = FALSE].mid = r.mid /\ [r EXCEPT !.live = FALSE].offs = r.offs
  BY <1>1 DEF RequestRecs
<1>3. QED
  BY <1>2 DEF CommitLost, NoCoord, Workload

\* The client's side of a lost answer.
LEMMA CommitLostClient ==
    ASSUME GroupInv, NEW r \in net, CommitLost(r) PROVE ClientInv'
<1> DEFINE c == r.client
           new == [r EXCEPT !.live = FALSE]
<1>1. c \in Clients /\ net' \in SUBSET RequestRecs(joins) /\ \A q \in net' : q.live => q \in net
  <2>1. net' = (net \ {r}) \union {new} /\ new \in RequestRecs(joins) /\ ~new.live
    BY LostParts
  <2> HIDE DEF new
  <2>2. QED
    BY <2>1, CommitRequest, GroupTypes
<1>2. \A p \in Partitions :
        (IF p \in DOMAIN r.offs THEN Postponed(part[c][p], r.offs[p]) ELSE part[c][p]) \in PartRecs
  BY <1>1, GroupTypes, CommitRequest, PostponedForms
<1>3. part' \in [Clients -> [Partitions -> PartRecs]]
  <2> DEFINE f == [p \in Partitions |->
                 IF p \in DOMAIN r.offs THEN Postponed(part[c][p], r.offs[p]) ELSE part[c][p]]
  <2>1. f \in [Partitions -> PartRecs]
    BY <1>2
  <2>2. part' = [part EXCEPT ![c] = f]
    BY LostParts
  <2> HIDE DEF f
  <2>3. QED
    BY <1>1, <2>1, <2>2, GroupTypes
<1>4. UNCHANGED <<work, joins, cl, start>>
  BY LostParts DEF coordVars
<1>5. QED
  BY <1>1, <1>3, <1>4, GroupTypes, PartStep DEF GroupInv

-----------------------------------------------------------------------------
(* ClientInv is preserved: sessions, rebalances, crashes.                  *)

\* A fenced heartbeat asks for a rebalance.
LEMMA HeartbeatClient ==
    ASSUME GroupInv, NEW c \in Clients, Heartbeat(c) PROVE ClientInv'
<1> DEFINE k == [cl[c] EXCEPT !.sig = TRUE, !.beats = FALSE]
<1>1. /\ Phase(c, "work") /\ UNCHANGED <<work, joins, part, net, start>>
      /\ cl' = cl \/ cl' = [cl EXCEPT ![c] = k]
  BY DEF Heartbeat, SetClient, Quiet
<1>2. k \in ClientRecs(joins)
  BY GroupTypes DEF ClientRecs
<1>3. k.phase = cl[c].phase /\ k.mid = cl[c].mid
  BY GroupTypes DEF ClientRecs
<1> HIDE DEF k
<1>4. CASE cl' = cl
  BY <1>1, <1>4, GroupTypes, PartStep DEF GroupInv
<1>5. CASE cl' = [cl EXCEPT ![c] = k]
  <2>1. \A x \in net' : x.live => x \in net /\ (x.client = c => k.phase = "work" /\ k.mid = cl[c].mid)
    BY <1>1, <1>3 DEF Phase
  <2>2. ~Standalone => k.phase \notin {"register", "add"}
    BY <1>1, <1>3 DEF Phase
  <2>3. joins <= joins' /\ joins \in Nat /\ net' \in SUBSET RequestRecs(joins')
    BY <1>1, GroupTypes
  <2>4. QED
    BY <1>1, <1>2, <1>5, <2>1, <2>2, <2>3, GroupTypes, ClientStep DEF GroupInv
<1>6. QED
  BY <1>1, <1>4, <1>5

\* Hanging up closes a client's requests and leaves the others.
LEMMA HangupForms ==
    ASSUME GroupInv, NEW c \in Clients
    PROVE  /\ Hangup(c, net) \in SUBSET RequestRecs(joins)
           /\ \A q \in Hangup(c, net) :
                 /\ q.live => q \in net /\ q.client # c
                 /\ \E r \in net : q.mid = r.mid /\ q.offs = r.offs
<1>1. \A r \in net :
        /\ r \in RequestRecs(joins) /\ [r EXCEPT !.live = FALSE] \in RequestRecs(joins)
        /\ ~[r EXCEPT !.live = FALSE].live
        /\ [r EXCEPT !.live = FALSE].mid = r.mid
        /\ [r EXCEPT !.live = FALSE].offs = r.offs
  BY GroupTypes DEF RequestRecs
<1>2. \A q \in Hangup(c, net) : \E r \in net : q = IF r.client = c THEN [r EXCEPT !.live = FALSE] ELSE r
  BY DEF Hangup
<1>3. QED
  BY <1>1, <1>2

\* Leaving work ends the workers and closes the requests.
LEMMA StopStep ==
    ASSUME GroupInv, NEW c \in Clients, NEW k \in ClientRecs(joins), k.phase \in {"join", "closed"},
           cl' = [cl EXCEPT ![c] = k], part' = [part EXCEPT ![c] = NoParts],
           NEW extra \in SUBSET RequestRecs(joins), \A q \in extra : ~q.live,
           net' = Hangup(c, net) \union extra, UNCHANGED <<work, joins, start>>
    PROVE  ClientInv'
<1>1. net' \in SUBSET RequestRecs(joins') /\ \A q \in net' : q.live => q \in net /\ q.client # c
  BY HangupForms
<1>2. part' \in [Clients -> [Partitions -> PartRecs]]
  BY GroupTypes, NoPartType
<1>3. /\ cl' \in [Clients -> ClientRecs(joins')] /\ cl'[c] = k
      /\ \A d \in Clients : d # c => cl'[d] = cl[d]
  BY GroupTypes
<1>4. ClientType'
  BY <1>1, <1>2, <1>3, GroupTypes DEF ClientType
<1>5. \A q \in net' : q.client \in Clients
  BY <1>1 DEF RequestRecs
<1>6. LiveInv'
  BY <1>1, <1>3, <1>5 DEF GroupInv, ClientInv, LiveInv
<1>7. ModeInv'
  BY <1>3 DEF GroupInv, ClientInv, ModeInv, Standalone, Does
<1>8. QED
  BY <1>4, <1>6, <1>7 DEF ClientInv

\* A rebalance begins, or the client closes.
LEMMA StopClient ==
    ASSUME GroupInv, NEW c \in Clients, BeginRebalance(c) \/ Close(c) PROVE ClientInv'
<1>1. CASE BeginRebalance(c)
  <2> DEFINE k == [Rejoin(c) EXCEPT !.sig = FALSE, !.beats = FALSE]
  <2>1. /\ cl' = [cl EXCEPT ![c] = k] /\ part' = [part EXCEPT ![c] = NoParts]
        /\ net' = Hangup(c, net) \union {} /\ UNCHANGED <<work, joins, start>>
    BY <1>1 DEF BeginRebalance, SetClient, NoCoord, coordVars, Workload
  <2>2. Rejoin(c) \in ClientRecs(joins) /\ Rejoin(c).phase = "join"
    BY GroupTypes, ClientForms
  <2>3. k \in ClientRecs(joins)
    BY <2>2 DEF ClientRecs
  <2>4. k.phase = "join"
    BY <2>2 DEF ClientRecs
  <2> HIDE DEF k
  <2>5. {} \in SUBSET RequestRecs(joins) /\ \A q \in {} : ~q.live
    OBVIOUS
  <2>6. QED
    BY <2>1, <2>3, <2>4, <2>5, StopStep
<1>2. CASE Close(c)
  <2>1. /\ cl' = [cl EXCEPT ![c] = Gone] /\ part' = [part EXCEPT ![c] = NoParts]
        /\ net' = Hangup(c, net) \union Leave(c) /\ UNCHANGED <<work, joins, start>>
    BY <1>2 DEF Close, SetClient, NoCoord, coordVars, Workload
  <2>2. /\ Gone \in ClientRecs(joins) /\ Gone.phase = "closed"
        /\ Leave(c) \in SUBSET RequestRecs(joins) /\ \A q \in Leave(c) : ~q.live
    BY GroupTypes, ClientForms
  <2>3. QED
    BY <2>1, <2>2, StopStep
<1>3. QED
  BY <1>1, <1>2

\* Steps of the broker and of time that no client sees.
LEMMA BrokerClient ==
    ASSUME GroupInv,
           \/ BrokerStep \/ SessionLapse \/ Recover
           \/ \E r \in net : LeaveArrives(r)
           \/ \E p \in Partitions : Retention(p)
    PROVE  ClientInv'
<1>1. CASE BrokerStep
  <2>1. UNCHANGED <<work, joins, cl, part, net, start>>
    BY <1>1 DEF BrokerStep, ExpireScan, ExpireApply, LifecycleWrite, LifecycleFinish, LifecycleWriteFails,
                DeleteGroup, LifecycleBegin, CompactMetadata, Quiet
  <2>2. QED
    BY <2>1, GroupTypes, PartStep DEF GroupInv
<1>2. CASE SessionLapse \/ Recover
  <2>1. UNCHANGED <<work, joins, cl, part, net, start>>
    BY <1>2 DEF SessionLapse, Recover, CoordinatorRecover, Quiet
  <2>2. QED
    BY <2>1, GroupTypes, PartStep DEF GroupInv
<1>3. ASSUME NEW r \in net, LeaveArrives(r) PROVE ClientInv'
  <2>1. UNCHANGED <<work, joins, cl, part, start>> /\ net' = net \ {r}
    BY <1>3 DEF LeaveArrives, HandleLeave, Workload
  <2>2. QED
    BY <2>1, GroupTypes, PartStep DEF GroupInv
<1>4. ASSUME NEW p \in Partitions, Retention(p) PROVE ClientInv'
  <2>1. UNCHANGED <<work, joins, cl, part, net>> /\ start' = [start EXCEPT ![p] = @ + 1]
    BY <1>4 DEF Retention, NoCoord, coordVars
  <2>2. start' \in [Partitions -> Nat]
    BY <2>1, GroupTypes
  <2>3. QED
    BY <2>1, <2>2, GroupTypes, PartStep DEF GroupInv
<1>5. QED
  BY <1>1, <1>2, <1>3, <1>4

\* What is in flight when the broker dies: at most one open request of a client.
LEMMA CrashRetry ==
    ASSUME GroupInv, NEW c \in Clients, NEW p \in Partitions
    PROVE  LET m == Max(InFlight(c, p) \union {part[c][p].retry})
           IN  /\ m \in Int
               /\ m # part[c][p].retry => \E r \in Live(c) : p \in DOMAIN r.offs /\ m = r.offs[p]
<1> DEFINE L == {q \in Live(c) : p \in DOMAIN q.offs}
           s == {r.offs[p] : r \in L}
           t == part[c][p].retry
<1>1. part[c][p] \in PartRecs /\ t \in Int
  BY GroupTypes DEF PartRecs
<1>2. \A q, r \in L : q = r
  BY DEF Live, GroupInv, ClientInv, LiveInv
<1>3. \A r \in L : r \in net /\ r \in Live(c) /\ p \in DOMAIN r.offs /\ r.offs[p] \in Int
  <2>1. \A r \in L : r \in net /\ r \in Live(c) /\ p \in DOMAIN r.offs
    BY DEF Live
  <2>2. \A r \in net : r.offs \in PartialOffsets
    BY GroupTypes DEF RequestRecs
  <2>3. \A f \in PartialOffsets : \A q \in DOMAIN f : f[q] \in Int
    BY DEF PartialOffsets
  <2>4. QED
    BY <2>1, <2>2, <2>3
<1>4. ASSUME L = {} PROVE Max(s \union {t}) = t
  <2>1. s \union {t} = {t, t}
    BY <1>4
  <2>2. Max({t, t}) = t
    BY <1>1, MaxOfTwo
  <2>3. QED
    BY <2>1, <2>2
<1>5. ASSUME NEW r \in L
      PROVE  /\ Max(s \union {t}) \in Int
             /\ Max(s \union {t}) # t => \E q \in Live(c) : p \in DOMAIN q.offs /\ Max(s \union {t}) = q.offs[p]
  <2> DEFINE x == r.offs[p]
  <2>1. x \in Int /\ r \in Live(c) /\ p \in DOMAIN r.offs
    BY <1>3, <1>5
  <2>2. s \union {t} = {x, t}
    BY <1>2, <1>5
  <2>3. Max({x, t}) \in {x, t}
    BY <1>1, <2>1, MaxOfTwo
  <2> DEFINE m == Max(s \union {t})
  <2>4. m \in {x, t}
    BY <2>2, <2>3
  <2>5. m \in Int
    BY <1>1, <2>1, <2>4
  <2>6. m # t => m = r.offs[p]
    BY <2>4
  <2> HIDE DEF m
  <2>7. m # t => \E q \in Live(c) : p \in DOMAIN q.offs /\ m = q.offs[p]
    BY <2>1, <2>6
  <2>8. QED
    BY <2>5, <2>7 DEF m
<1>6. InFlight(c, p) = s
  BY DEF InFlight
<1>7. QED
  BY <1>1, <1>4, <1>5, <1>6

\* A crash ends every connection; what was in flight is postponed.
LEMMA CrashParts ==
    ASSUME GroupInv, Crash, NEW c \in Clients, NEW p \in Partitions
    PROVE  /\ part'[c][p] \in PartRecs
           /\ part'[c][p].conn = Closed /\ part'[c][p].fetch = part[c][p].fetch
           /\ part'[c][p].offs = part[c][p].offs /\ part'[c][p].queue = part[c][p].queue
           /\ part'[c][p].commit = part[c][p].commit /\ part'[c][p].dead = part[c][p].dead
           /\ part'[c][p].retry # part[c][p].retry =>
                 \E r \in Live(c) : p \in DOMAIN r.offs /\ part'[c][p].retry = r.offs[p]
<1> DEFINE x == part[c][p]
           m == Max(InFlight(c, p) \union {x.retry})
           y == [x EXCEPT !.conn = Closed, !.retry = m]
<1>1. part'[c][p] = y
  <2>1. part'[c][p] = Severed(x, InFlight(c, p))
    BY DEF Crash
  <2>2. Severed(x, InFlight(c, p)) = y
    BY DEF Severed
  <2>3. QED
    BY <2>1, <2>2
<1>2. m \in Int /\ (m # x.retry => \E r \in Live(c) : p \in DOMAIN r.offs /\ m = r.offs[p])
  BY CrashRetry
<1>3. x \in PartRecs
  BY GroupTypes
<1>4. Closed \in Int
  BY DEF Closed
<1> HIDE DEF x, m
<1>5. y \in PartRecs
  BY <1>2, <1>3, <1>4 DEF PartRecs
<1>6. /\ y.conn = Closed /\ y.fetch = x.fetch /\ y.offs = x.offs /\ y.queue = x.queue
      /\ y.commit = x.commit /\ y.dead = x.dead /\ y.retry = m
  BY <1>3 DEF PartRecs
<1> HIDE DEF y
<1>7. QED
  BY <1>1, <1>2, <1>5, <1>6 DEF x

\* The client's side of a crash.
LEMMA CrashClient ==
    ASSUME GroupInv, Crash PROVE ClientInv'
<1>1. /\ UNCHANGED <<work, joins, start>> /\ net' = {}
      /\ cl' = [c \in Clients |-> IF cl[c].phase \in {"register", "add", "answer"} THEN Rejoin(c) ELSE cl[c]]
  BY DEF Crash, CoordinatorCrash, Workload
<1>2. \A c \in Clients : Rejoin(c) \in ClientRecs(joins) /\ Rejoin(c).phase = "join"
  BY GroupTypes, ClientForms
<1>3. cl' \in [Clients -> ClientRecs(joins)] /\ \A c \in Clients : cl'[c].phase \notin {"register", "add"}
  BY <1>1, <1>2, GroupTypes
<1>4. part' \in [Clients -> [Partitions -> PartRecs]]
  <2>1. \A c \in Clients : \A p \in Partitions : part'[c][p] \in PartRecs
    BY CrashParts
  <2>2. part' = [c \in Clients |-> [p \in Partitions |-> part'[c][p]]]
    BY DEF Crash
  <2>3. QED
    BY <2>1, <2>2
<1>5. ClientType'
  BY <1>1, <1>3, <1>4, GroupTypes DEF ClientType
<1>6. LiveInv' /\ ModeInv'
  BY <1>1, <1>3 DEF LiveInv, ModeInv
<1>7. QED
  BY <1>5, <1>6 DEF ClientInv

-----------------------------------------------------------------------------
(* The coordinator's invariant along the whole specification.              *)

\* A step that leaves the coordinator alone keeps its invariant.
LEMMA UntouchedCoord ==
    ASSUME GroupInv, NoCoord, UNCHANGED work PROVE CoordInv'
  BY CoordFrame DEF NoCoord, coordVars, GroupInv

\* A client's step leaves the coordinator alone, joins, registers the group or only refreshes a
\* session.
LEMMA MainCoord ==
    ASSUME GroupInv, NEW c \in Clients, Main(c) PROVE CoordInv'
<1>1. CASE HandleJoin(c) \/ RaftAssignments(c) \/ JoinRespond(c) \/ HandleResume(c) \/ SyncGroup(c)
           \/ FetchOffset(c) \/ AssignmentReady(c) \/ BeginRebalance(c)
  <2>1. CASE HandleJoin(c) \/ RaftAssignments(c) \/ JoinRespond(c) \/ FetchOffset(c)
    BY <2>1, UntouchedCoord DEF HandleJoin, RaftAssignments, JoinRespond, FetchOffset, Quiet, Workload
  <2>2. CASE AssignmentReady(c)
    <3>1. NoCoord /\ Quiet
      BY <2>2, Zenon DEF AssignmentReady
    <3>2. QED
      BY <3>1, UntouchedCoord DEF Quiet
  <2>3. CASE BeginRebalance(c)
    BY <2>3, UntouchedCoord DEF BeginRebalance, Workload
  <2>4. CASE HandleResume(c)
    BY <2>4, CoordFrame DEF HandleResume, Quiet, GroupInv
  <2>5. CASE SyncGroup(c)
    BY <2>5, CoordFrame DEF SyncGroup, Workload, GroupInv
  <2>6. QED
    BY <1>1, <2>1, <2>2, <2>3, <2>4, <2>5
<1>2. CASE RegisterGroup(c)
  <2>1. Standalone /\ up /\ work' = work
    BY <1>2 DEF RegisterGroup, Phase, GroupInv, ClientInv, ModeInv, Quiet
  <2>2. CASE Exists /\ Idle
    BY <1>2, <2>2, CoordFrame DEF RegisterGroup, NoCoord, coordVars, Quiet, GroupInv
  <2>3. CASE ~(Exists /\ Idle)
    <3>1. LifecycleBegin("register")
      BY <1>2, <2>3 DEF RegisterGroup
    <3>2. ~Exists
      BY <2>3, <3>1 DEF LifecycleBegin
    <3>3. QED
      BY <2>1, <3>1, <3>2, BeginStep DEF GroupInv
  <2>4. QED
    BY <2>2, <2>3
<1>3. CASE JoinAdd(c)
  BY <1>3, AddConsumerStep DEF JoinAdd, Quiet, GroupInv
<1>4. CASE RaftJoin(c)
  <2>1. /\ ~Standalone /\ UNCHANGED <<work, up, lifecycle, mlog, logDown, acked>>
        /\ \E twice \in BOOLEAN : ApplyJoin(<<c, joins + 1>>, twice)
    BY <1>4 DEF RaftJoin, Quiet
  <2>2. QED
    BY <2>1, ApplyJoinStep DEF GroupInv
<1>5. QED
  BY <1>1, <1>2, <1>3, <1>4 DEF Main

\* Reading, handling, sending and every fault of a client leave the coordinator alone.
LEMMA ClientsLeaveCoord ==
    ASSUME NEW c \in Clients,
           \/ ProcessRetryQueue(c) \/ ConsumerFault(c)
           \/ \E p \in Partitions : Reader(c, p) \/ Worker(c, p)
    PROVE  NoCoord /\ UNCHANGED work
<1>1. CASE ProcessRetryQueue(c)
  BY <1>1 DEF ProcessRetryQueue, Workload
<1>2. CASE JoinLost(c) \/ Close(c)
  BY <1>2 DEF JoinLost, Close, Quiet, Workload
<1>3. ASSUME NEW p \in Partitions, HandlerFails(c, p) PROVE NoCoord /\ UNCHANGED work
  <2>1. NoCoord /\ Quiet
    BY <1>3, Zenon DEF HandlerFails
  <2>2. QED
    BY <2>1 DEF Quiet
<1>4. ASSUME NEW p \in Partitions, ConnDrop(c, p) PROVE NoCoord /\ UNCHANGED work
  BY <1>4 DEF ConnDrop, Quiet
<1>5. ASSUME NEW p \in Partitions, Reader(c, p) PROVE NoCoord /\ UNCHANGED work
  <2>1. NoCoord /\ Quiet
    BY <1>5, Zenon DEF Reader, StreamOpen, Read, OutOfRange
  <2>2. QED
    BY <2>1 DEF Quiet
<1>6. ASSUME NEW p \in Partitions, Worker(c, p) PROVE NoCoord /\ UNCHANGED work
  <2>1. CASE Handle(c, p)
    BY <2>1, Zenon DEF Handle
  <2>2. CASE SendBatchCommit(c, p)
    BY <2>2, Zenon DEF SendBatchCommit, Workload
  <2>3. CASE CommitUnreachable(c, p)
    BY <2>3, Zenon DEF CommitUnreachable, Quiet
  <2>4. QED
    BY <1>6, <2>1, <2>2, <2>3 DEF Worker
<1>7. QED
  BY <1>1, <1>2, <1>3, <1>4, <1>5, <1>6 DEF ConsumerFault

\* So they keep its invariant.
LEMMA ClientCoord ==
    ASSUME GroupInv, NEW c \in Clients,
           \/ Heartbeat(c) \/ ProcessRetryQueue(c) \/ ConsumerFault(c)
           \/ \E p \in Partitions : Reader(c, p) \/ Worker(c, p)
    PROVE  CoordInv'
<1>1. CASE Heartbeat(c)
  BY <1>1, CoordFrame DEF Heartbeat, Quiet, GroupInv
<1>2. CASE ~Heartbeat(c)
  BY <1>2, ClientsLeaveCoord, UntouchedCoord
<1>3. QED
  BY <1>1, <1>2

\* The coordinator handles a request.
LEMMA RequestCoord ==
    ASSUME GroupInv, NEW r \in net,
           HandleBatchCommit(r) \/ CommitWriteFails(r) \/ CommitLost(r) \/ LeaveArrives(r)
    PROVE  CoordInv'
<1>1. r.offs \in PartialOffsets
  BY CommitRequest
<1>2. CASE HandleBatchCommit(r)
  <2> DEFINE v == CommitCheck(r.mid, r.gen, r.offs)
             res == IF v = "OK" /\ Changes(r.offs) /\ logDown THEN "unavailable" ELSE v
  <2>1. /\ up /\ UNCHANGED <<work, up, groupEpoch, lifecycle, logDown, joins>>
        /\ IF res = "OK" THEN CommitOffsets(r.offs) ELSE UNCHANGED <<group, mlog, acked>>
    BY <1>2 DEF HandleBatchCommit, Workload
  <2>2. CASE res = "OK"
    <3>1. v = "OK" /\ (Changes(r.offs) => ~logDown)
      BY <2>2
    <3>2. QED
      BY <1>1, <2>1, <2>2, <3>1, CommitStep DEF GroupInv
  <2>3. CASE res # "OK"
    BY <2>1, <2>3, CoordFrame DEF GroupInv
  <2>4. QED
    BY <2>2, <2>3
<1>3. CASE CommitWriteFails(r)
  BY <1>1, <1>3, CommitFailsStep DEF CommitWriteFails, Workload, GroupInv
<1>4. CASE CommitLost(r)
  BY <1>4, CoordFrame DEF CommitLost, NoCoord, coordVars, Workload, GroupInv
<1>5. CASE LeaveArrives(r)
  BY <1>5, LeaveStep DEF LeaveArrives, Workload, GroupInv
<1>6. QED
  BY <1>2, <1>3, <1>4, <1>5

\* The coordinator's own steps, a crash, a recovery, the passing of time.
LEMMA BrokerCoord ==
    ASSUME GroupInv,
           BrokerStep \/ SessionLapse \/ Crash \/ Recover \/ \E p \in Partitions : Retention(p)
    PROVE  CoordInv'
<1>1. CASE BrokerStep
  <2>1. UNCHANGED work
    BY <1>1 DEF BrokerStep, Quiet
  <2>2. CASE ExpireScan
    BY <2>1, <2>2, CoordFrame DEF ExpireScan, GroupInv
  <2>3. CASE ExpireApply
    BY <2>1, <2>3, ExpireStep DEF GroupInv
  <2>4. CASE LifecycleWrite \/ LifecycleWriteFails
    BY <2>1, <2>4, WriteStep DEF GroupInv
  <2>5. CASE LifecycleFinish
    BY <2>1, <2>5, FinishStep DEF GroupInv
  <2>6. CASE DeleteGroup
    BY <2>1, <2>6, DeleteStep DEF GroupInv
  <2>7. CASE CompactMetadata
    BY <2>1, <2>7, CompactStep DEF GroupInv
  <2>8. QED
    BY <1>1, <2>2, <2>3, <2>4, <2>5, <2>6, <2>7 DEF BrokerStep
<1>2. CASE SessionLapse
  BY <1>2, CoordFrame DEF SessionLapse, Quiet, GroupInv
<1>3. CASE Crash
  BY <1>3, CrashStep DEF Crash, Workload, GroupInv
<1>4. CASE Recover
  BY <1>4, RecoverStep DEF Recover, Quiet, GroupInv
<1>5. ASSUME NEW p \in Partitions, Retention(p) PROVE CoordInv'
  BY <1>5, CoordFrame DEF Retention, NoCoord, coordVars, GroupInv
<1>6. QED
  BY <1>1, <1>2, <1>3, <1>4, <1>5

\* Every step of the specification keeps the invariant.
LEMMA GroupInvNext ==
    ASSUME GroupInv, [Next]_vars PROVE GroupInv'
<1>1. CASE UNCHANGED vars
  <2>1. CoordInv'
    BY <1>1, CoordFrame DEF vars, coordVars, GroupInv
  <2>2. ClientInv'
    BY <1>1, GroupTypes, PartStep DEF vars, coordVars, GroupInv
  <2>3. QED
    BY <2>1, <2>2 DEF GroupInv
<1>2. CASE BrokerStep \/ SessionLapse \/ Recover \/ \E p \in Partitions : Retention(p)
  BY <1>2, BrokerCoord, BrokerClient DEF GroupInv
<1>3. CASE Crash
  BY <1>3, BrokerCoord, CrashClient DEF GroupInv
<1>4. ASSUME NEW c \in Clients, Main(c) PROVE GroupInv'
  <2>1. CoordInv'
    BY <1>4, MainCoord
  <2>2. ClientInv'
    BY <1>4, <2>1, HandleJoinClient, RegisterClient, JoinAddClient, RaftJoinClient, AnswerClient, ResumeClient,
       SyncClient, FetchClient, ReadyClient, StopClient DEF Main
  <2>3. QED
    BY <2>1, <2>2 DEF GroupInv
<1>5. ASSUME NEW c \in Clients, Heartbeat(c) \/ ProcessRetryQueue(c) \/ ConsumerFault(c) PROVE GroupInv'
  <2>1. CoordInv'
    BY <1>5, ClientCoord
  <2>2. ClientInv'
    BY <1>5, HeartbeatClient, RetryClient, AnswerClient, StopClient, HandlerFailsClient, ReaderClient
       DEF ConsumerFault
  <2>3. QED
    BY <2>1, <2>2 DEF GroupInv
<1>6. ASSUME NEW c \in Clients, NEW p \in Partitions, Reader(c, p) \/ Worker(c, p) PROVE GroupInv'
  <2>1. CoordInv'
    BY <1>6, ClientCoord
  <2>2. ClientInv'
    BY <1>6, StreamOpenClient, ReaderClient, HandleClient, SendClient, UnreachableClient DEF Reader, Worker
  <2>3. QED
    BY <2>1, <2>2 DEF GroupInv
<1>7. ASSUME NEW r \in net, HandleBatchCommit(r) \/ CommitWriteFails(r) \/ CommitLost(r) \/ LeaveArrives(r)
      PROVE  GroupInv'
  <2>1. CoordInv'
    BY <1>7, RequestCoord
  <2>2. ClientInv'
    BY <1>7, CommitClient, CommitLostClient, BrokerClient
  <2>3. QED
    BY <2>1, <2>2 DEF GroupInv
<1>8. QED
  BY <1>1, <1>2, <1>3, <1>4, <1>5, <1>6, <1>7 DEF Next

\* The invariant holds before the first client joins.
LEMMA GroupInvInit ==
    ASSUME Init PROVE GroupInv
<1>1. NoOffsets \in Offsets /\ NoGroup \in GroupType /\ NoGroup.epoch = 0 /\ NoGroup.rev = 0
      /\ NoGroup.offs = NoOffsets /\ DOMAIN NoGroup.members = {}
  BY EmptyGroups
<1>2. CoordInv
  <2>1. /\ up = TRUE /\ group = NoGroup /\ groupEpoch = 0 /\ lifecycle = NoLifecycle /\ mlog = {}
        /\ logDown = FALSE /\ joins = 0 /\ acked = NoOffsets
    BY DEF Init
  <2>2. CoordType
    BY <1>1, <2>1 DEF CoordType, NoLifecycle
  <2>3. Idle /\ ~Exists /\ lifecycle.op = "none" /\ ~lifecycle.written
    BY <1>1, <2>1 DEF Idle, Exists, NoLifecycle
  <2>4. MemberInv /\ LifecycleInv
    BY <1>1, <2>1, <2>3 DEF MemberInv, LifecycleInv
  <2>5. Lifecycles(mlog) = {} /\ OffsetRecords(mlog) = {}
    BY <2>1 DEF Lifecycles, OffsetRecords
  <2>6. LogInv /\ SnapInv /\ SnapsAgree(mlog) /\ AckedInv
    BY <1>1, <2>1, <2>3, <2>5 DEF LogInv, SnapInv, SnapsAgree, AckedInv
  <2>7. QED
    BY <2>2, <2>4, <2>6 DEF CoordInv
<1>3. ClientInv
  <2>1. /\ cl = [c \in Clients |-> NewClient] /\ part = [c \in Clients |-> NoParts] /\ net = {}
        /\ start = [p \in Partitions |-> 0] /\ joins = 0
    BY DEF Init
  <2>2. NewClient \in ClientRecs(0)
    <3>1. <<>> \in PartialOffsets
      <4>1. <<>> \in [{} -> Int]
        OBVIOUS
      <4>2. QED
        BY <4>1 DEF PartialOffsets
    <3>2. QED
      BY <3>1 DEF NewClient, ClientRecs, KnownIds, NoMember, Phases
  <2>3. ClientType
    BY <2>1, <2>2, NoPartType DEF ClientType
  <2>4. LiveInv /\ ModeInv
    BY <2>1 DEF LiveInv, ModeInv, NewClient
  <2>5. QED
    BY <2>3, <2>4 DEF ClientInv
<1>4. QED
  BY <1>2, <1>3 DEF GroupInv

\* The invariant of the coordinator and its clients, along every behaviour.
THEOREM GroupInvariant == Spec => []GroupInv
<1>1. Init => GroupInv
  BY GroupInvInit
<1>2. GroupInv /\ [Next]_vars => GroupInv'
  BY GroupInvNext
<1>3. QED
  BY <1>1, <1>2, PTL DEF Spec

\* However members join, resume, leave, expire and are forgotten by a restart, the assignments in
\* force partition the topic evenly (rebalanceRange).
THEOREM AssignmentsAlwaysCover == Spec => []AssignmentsCover
<1>1. GroupInv => AssignmentsCover
  BY CoordCovers DEF GroupInv
<1>2. QED
  BY <1>1, GroupInvariant, PTL

\* The metadata log a crash leaves behind can be replayed, whichever writes failed half-way and
\* whatever was compacted (recoverConsumerMetadata).
THEOREM MetadataAlwaysRecoverable == Spec => []MetadataRecoverable
<1>1. GroupInv => MetadataRecoverable
  BY AgreeingLogRecovers DEF GroupInv
<1>2. QED
  BY <1>1, GroupInvariant, PTL

\* Acknowledged commits survive later commits, crashes and the replay of the metadata log
\* (writeOffsetSnapshot, materializeConsumerMetadata).
THEOREM CommitsAlwaysDurable == Spec => []AckedCommitsDurable
<1>1. GroupInv => AckedCommitsDurable
  BY CoordDurable DEF GroupInv
<1>2. QED
  BY <1>1, GroupInvariant, PTL

-----------------------------------------------------------------------------
(* How the group changes.                                                  *)

\* The IDs a step hands out.
NewIds == JoinedIds(joins') \ JoinedIds(joins)

\* Its members change: some go, and new ones have IDs nobody had before.
Regroups ==
    /\ Exists /\ group'.epoch = group.epoch /\ group'.offs = group.offs
    /\ DOMAIN group'.members \subseteq DOMAIN group.members \union NewIds

\* Another group, or none, takes the place of one without members.
Replaces ==
    /\ DOMAIN group.members = {} /\ group'.offs = NoOffsets
    /\ DOMAIN group'.members \subseteq NewIds

\* A member's commit is accepted.
Advances ==
    \E r \in net :
        /\ CommitCheck(r.mid, r.gen, r.offs) = "OK" /\ group' = Merged(r.offs)
        /\ UNCHANGED <<handled, start>>

\* A restart reads it back from the metadata log.
Restores == ~up /\ Standalone /\ group' = Materialize(mlog)

\* New IDs are new.
LEMMA NewIdsAreNew ==
    ASSUME GroupInv, NEW c \in Clients, joins' = joins + 1
    PROVE  <<c, joins + 1>> \in NewIds /\ <<c, joins + 1>> \in JoinedIds(joins')
  BY MembersJoined DEF NewIds, GroupInv

\* Adding, removing and expiring members.
LEMMA MembershipMoves ==
    ASSUME GroupInv
    PROVE  /\ \A c \in Clients : JoinAdd(c) => UNCHANGED group \/ Regroups
           /\ \A c \in Clients : RaftJoin(c) => Regroups \/ Replaces
           /\ \A r \in net : LeaveArrives(r) => UNCHANGED group \/ Regroups
           /\ ExpireApply => UNCHANGED group \/ Regroups
<1> DEFINE D == DOMAIN group.members
<1>1. group \in GroupType /\ joins \in Nat /\ joins + 1 \in Nat /\ D \subseteq JoinedIds(joins)
      /\ JoinedIds(joins) \subseteq JoinedIds(joins + 1)
  BY MembersJoined DEF GroupInv
<1>2. \A n \in Nat : \A S \in SUBSET JoinedIds(n), g \in GroupType :
        /\ WithMembers(g, S) \in GroupType /\ WithMembers(g, S).epoch = g.epoch
        /\ WithMembers(g, S).offs = g.offs /\ DOMAIN WithMembers(g, S).members = S
  BY WithMembersFields
<1>3. ASSUME NEW c \in Clients, JoinAdd(c) PROVE UNCHANGED group \/ Regroups
  <2> DEFINE m == <<c, joins + 1>>
             S == D \union {m}
  <2>1. joins' = joins + 1 /\ (UNCHANGED group \/ (Exists /\ group' = WithMembers(group, S)))
    BY <1>3 DEF JoinAdd, AddConsumer, MayAdd
  <2>2. m \in NewIds /\ S \in SUBSET JoinedIds(joins + 1)
    BY <1>1, <2>1, NewIdsAreNew
  <2>3. S \subseteq D \union NewIds
    BY <2>2
  <2> HIDE DEF S
  <2>4. QED
    BY <1>1, <1>2, <2>1, <2>2, <2>3 DEF Regroups
<1>4. ASSUME NEW c \in Clients, RaftJoin(c) PROVE Regroups \/ Replaces
  <2> DEFINE m == <<c, joins + 1>>
             e == groupEpoch + 1
             g == IF Exists THEN group ELSE NewGroup(e)
             S == DOMAIN g.members \union {m}
             h == WithMembers(g, S)
             k == WithMembers(h, DOMAIN h.members)
  <2>1. joins' = joins + 1 /\ group' \in {h, k}
    BY <1>4 DEF RaftJoin, ApplyJoin
  <2>2. e \in Nat
    BY GroupTypes
  <2>3. NewGroup(e) \in GroupType /\ DOMAIN NewGroup(e).members = {} /\ NewGroup(e).offs = NoOffsets
    BY <2>2, EmptyGroups
  <2>4. /\ g \in GroupType
        /\ Exists => g = group
        /\ ~Exists => DOMAIN g.members = {} /\ g.offs = NoOffsets
    BY <1>1, <2>3
  <2> HIDE DEF g
  <2>5. ~Exists => D = {}
    BY DEF GroupInv, CoordInv, MemberInv
  <2>6. m \in NewIds /\ DOMAIN g.members \subseteq D
    BY <2>1, <2>4, <2>5, NewIdsAreNew
  <2>7. S \in SUBSET JoinedIds(joins + 1) /\ S \subseteq D \union NewIds /\ (~Exists => S \subseteq NewIds)
    BY <1>1, <2>1, <2>4, <2>6, NewIdsAreNew
  <2> HIDE DEF S
  <2>8. h \in GroupType /\ h.epoch = g.epoch /\ h.offs = g.offs /\ DOMAIN h.members = S
    BY <1>1, <1>2, <2>4, <2>7
  <2> HIDE DEF h
  <2>9. k.epoch = g.epoch /\ k.offs = g.offs /\ DOMAIN k.members = S
    BY <1>1, <1>2, <2>7, <2>8
  <2> HIDE DEF k
  <2>10. group'.epoch = g.epoch /\ group'.offs = g.offs /\ DOMAIN group'.members = S
    BY <2>1, <2>8, <2>9
  <2>11. QED
    BY <2>4, <2>5, <2>7, <2>10 DEF Regroups, Replaces
<1>5. ASSUME NEW r \in net, LeaveArrives(r) PROVE UNCHANGED group \/ Regroups
  <2> DEFINE S == D \ {r.mid}
  <2>1. UNCHANGED group \/ (Exists /\ group' = WithMembers(group, S))
    BY <1>5 DEF LeaveArrives, HandleLeave, Validate
  <2>2. S \in SUBSET JoinedIds(joins) /\ S \subseteq D \union NewIds
    BY <1>1
  <2> HIDE DEF S
  <2>3. QED
    BY <1>1, <1>2, <2>1, <2>2 DEF Regroups
<1>6. ASSUME ExpireApply PROVE UNCHANGED group \/ Regroups
  <2> DEFINE S == D \ scan.ids
  <2>1. UNCHANGED group \/ (Exists /\ group' = WithMembers(group, S))
    BY <1>6 DEF ExpireApply
  <2>2. S \in SUBSET JoinedIds(joins) /\ S \subseteq D \union NewIds
    BY <1>1
  <2> HIDE DEF S
  <2>3. QED
    BY <1>1, <1>2, <2>1, <2>2 DEF Regroups
<1>7. QED
  BY <1>3, <1>4, <1>5, <1>6

\* Registrations and deletions replace a group without members.
LEMMA LifecycleMoves ==
    ASSUME GroupInv
    PROVE  /\ LifecycleFinish => Replaces
           /\ DeleteGroup => UNCHANGED group \/ Replaces
<1>1. NoGroup.offs = NoOffsets /\ DOMAIN NoGroup.members = {}
  BY EmptyGroups
<1>2. ASSUME LifecycleFinish PROVE Replaces
  <2>1. lifecycle.epoch \in Nat /\ lifecycle.op \in {"none", "register", "delete"}
    BY DEF GroupInv, CoordInv, CoordType
  <2>2. ~Idle
    BY <1>2 DEF LifecycleFinish, Idle, NoLifecycle
  <2>3. DOMAIN group.members = {}
    BY <2>1, <2>2 DEF GroupInv, CoordInv, LifecycleInv, MemberInv
  <2> DEFINE g == NewGroup(lifecycle.epoch)
  <2>4. g.offs = NoOffsets /\ DOMAIN g.members = {}
    BY <1>1, <2>1, EmptyGroups
  <2>5. group' \in {g, NoGroup}
    BY <1>2 DEF LifecycleFinish
  <2> HIDE DEF g
  <2>6. QED
    BY <1>1, <2>3, <2>4, <2>5 DEF Replaces
<1>3. ASSUME DeleteGroup PROVE UNCHANGED group \/ Replaces
  BY <1>1, <1>3 DEF DeleteGroup, LifecycleBegin, Replaces
<1>4. QED
  BY <1>2, <1>3

\* The group changes in no other way.
LEMMA GroupMoves ==
    ASSUME GroupInv, [Next]_vars
    PROVE  UNCHANGED group \/ Regroups \/ Replaces \/ Advances \/ Restores
<1>1. CASE UNCHANGED vars
  BY <1>1 DEF vars, coordVars
<1>2. CASE BrokerStep
  BY <1>2, MembershipMoves, LifecycleMoves
     DEF BrokerStep, ExpireScan, LifecycleWrite, LifecycleWriteFails, CompactMetadata
<1>3. CASE SessionLapse \/ Crash \/ \E p \in Partitions : Retention(p)
  BY <1>3 DEF SessionLapse, Crash, CoordinatorCrash, Retention, NoCoord, coordVars
<1>4. CASE Recover
  BY <1>4 DEF Recover, CoordinatorRecover, Restores
<1>5. ASSUME NEW c \in Clients, Main(c) PROVE UNCHANGED group \/ Regroups \/ Replaces
  <2>1. CASE JoinAdd(c) \/ RaftJoin(c)
    BY <2>1, MembershipMoves
  <2>2. CASE HandleJoin(c) \/ RegisterGroup(c) \/ RaftAssignments(c) \/ JoinRespond(c) \/ FetchOffset(c)
    BY <2>2 DEF HandleJoin, RegisterGroup, LifecycleBegin, RaftAssignments, JoinRespond, FetchOffset,
                NoCoord, coordVars
  <2>3. CASE HandleResume(c) \/ SyncGroup(c)
    BY <2>3 DEF HandleResume, SyncGroup
  <2>4. CASE AssignmentReady(c)
    <3>1. NoCoord
      BY <2>4, Zenon DEF AssignmentReady
    <3>2. QED
      BY <3>1 DEF NoCoord, coordVars
  <2>5. CASE BeginRebalance(c)
    BY <2>5 DEF BeginRebalance, NoCoord, coordVars
  <2>6. QED
    BY <1>5, <2>1, <2>2, <2>3, <2>4, <2>5 DEF Main
<1>6. ASSUME NEW c \in Clients,
             \/ Heartbeat(c) \/ ProcessRetryQueue(c) \/ ConsumerFault(c)
             \/ \E p \in Partitions : Reader(c, p) \/ Worker(c, p)
      PROVE  UNCHANGED group
  <2>1. CASE Heartbeat(c)
    BY <2>1 DEF Heartbeat
  <2>2. CASE ~Heartbeat(c)
    <3>1. NoCoord
      BY <1>6, <2>2, ClientsLeaveCoord
    <3>2. QED
      BY <3>1 DEF NoCoord, coordVars
  <2>3. QED
    BY <2>1, <2>2
<1>7. ASSUME NEW r \in net, HandleBatchCommit(r) PROVE UNCHANGED group \/ Advances
  <2>1. handled' = handled /\ start' = start
    BY <1>7 DEF HandleBatchCommit, Workload
  <2>2. UNCHANGED group \/ (CommitCheck(r.mid, r.gen, r.offs) = "OK" /\ group' = Merged(r.offs))
    BY <1>7 DEF HandleBatchCommit, CommitOffsets
  <2>3. QED
    BY <2>1, <2>2 DEF Advances
<1>8. ASSUME NEW r \in net, CommitWriteFails(r) \/ CommitLost(r) PROVE UNCHANGED group
  BY <1>8 DEF CommitWriteFails, CommitLost, NoCoord, coordVars
<1>9. ASSUME NEW r \in net, LeaveArrives(r) PROVE UNCHANGED group \/ Regroups
  BY <1>9, MembershipMoves
<1>10. QED
  BY <1>1, <1>2, <1>3, <1>4, <1>5, <1>6, <1>7, <1>8, <1>9 DEF Next

\* A group disappears under a running coordinator only while nobody is in it: the tombstone's
\* writer holds lifecyclePending, behind which AddConsumer refuses (DeleteInactiveGroupsForTopic).
THEOREM GroupsDeletedEmpty == Spec => DeletedWhenEmpty
<1>1. GroupInv /\ [Next]_vars =>
        [Exists /\ group'.epoch = 0 /\ up /\ up' => DOMAIN group.members = {}]_<<group, up>>
  <2>1. SUFFICES ASSUME GroupInv, [Next]_vars, Exists, group'.epoch = 0, up
                 PROVE  DOMAIN group.members = {}
    OBVIOUS
  <2>2. \A r \in net : group' = Merged(r.offs) /\ CommitCheck(r.mid, r.gen, r.offs) = "OK"
            => group'.epoch = group.epoch
    <3>1. SUFFICES ASSUME NEW r \in net, group' = Merged(r.offs), CommitCheck(r.mid, r.gen, r.offs) = "OK"
                   PROVE  group'.epoch = group.epoch
      OBVIOUS
    <3>2. r.offs \in PartialOffsets
      BY <2>1, CommitRequest
    <3>3. \A p \in DOMAIN r.offs : ~(r.offs[p] < group.offs[p])
      BY <3>1, CommitAccepted
    <3>4. QED
      BY <2>1, <3>1, <3>2, <3>3, MergedFields DEF GroupInv
  <2>3. QED
    BY <2>1, <2>2, GroupMoves DEF Regroups, Replaces, Advances, Restores, Exists
<1>2. QED
  BY <1>1, GroupInvariant, PTL DEF Spec, DeletedWhenEmpty
=============================================================================
