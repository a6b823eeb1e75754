-------------------------- MODULE TransactionProofs --------------------------
(***************************************************************************)
(* Theorems about the transactions of a standalone broker, for every       *)
(* number of partitions, producers, epochs and staged messages and every   *)
(* combination of faults: END_TXN's answers stand, the last stable offset  *)
(* never moves back, a read_committed reader sees a transaction whole or   *)
(* not at all, and offsets are committed only with the output.             *)
(***************************************************************************)
EXTENDS BrokerProofs

-----------------------------------------------------------------------------
(* What the manager keeps of an id, and how it moves on.                   *)

States == {None, "open", "committing", "committed", "aborted"}
Numbered == Partitions \X (Nat \ {0})

IsTx(tx) == tx = [f \in {"state", "epoch", "ready", "expired", "msgs", "offs"} |-> tx[f]]
TxOk(tx) ==
    /\ IsTx(tx)
    /\ tx.state \in States /\ tx.epoch \in Int /\ tx.epoch <= MaxEpoch /\ -1 <= tx.epoch
    /\ tx.state = None <=> tx.epoch = -1
    /\ tx.ready \in BOOLEAN /\ tx.expired \in BOOLEAN
    /\ tx.msgs \in Seq(Numbered)
    /\ tx.expired => Terminal(tx)
    /\ tx.ready => tx.state = "aborted"

\* x may follow t without the outcome "committed": a new session, the use of one, staging, abort,
\* PrepareCommit, expiry.  A decision to commit stays, with its messages, until it is recorded.
Later(t, x) ==
    \/ x.epoch > t.epoch /\ t.state # "committing" /\ x.state # "committed"
    \/ /\ x.epoch = t.epoch
       /\ \/ t.ready /\ x.state # "committed"
          \/ t.state = "open" /\ ~x.ready /\ x.state = "aborted"
          \/ t.state = "open" /\ x.state \in {"open", "committing"} /\ Range(t.msgs) \subseteq Range(x.msgs)
          \/ t.state = "committing" /\ x.state = "committing" /\ Range(x.msgs) = Range(t.msgs)
          \/ t.state \in {"committed", "aborted"} /\ ~t.ready /\ x.state = t.state /\ ~x.ready
          \/ t.state = None /\ x.state = None

\* The same with the record of a commit.
Moves(t, x) ==
    Later(t, x) \/ (t.state = "committing" /\ x.epoch = t.epoch /\ x.state = "committed")

\* What an id's record says of one of its epochs: the decision to commit has been taken; it has been
\* carried out; the epoch can commit nothing any more; its session has been used.
Past(tx, e) == tx.epoch > e \/ (tx.epoch = e /\ tx.state \in {"committing", "committed"})
Finished(tx, e) == tx.epoch > e \/ (tx.epoch = e /\ tx.state = "committed")
Dead(tx, e) == tx.epoch > e \/ (tx.epoch = e /\ tx.state = "aborted" /\ ~tx.ready)
Used(tx, e) == tx.epoch > e \/ (tx.epoch = e /\ ~tx.ready)

\* Nothing happens.
LEMMA LaterSame ==
    ASSUME NEW t, TxOk(t)
    PROVE  Later(t, t)
  BY DEF TxOk, States, Later, Terminal

\* One step after the other.
LEMMA LaterTwice ==
    ASSUME NEW t, TxOk(t), NEW x, TxOk(x), NEW y, TxOk(y), Later(t, x), Later(x, y)
    PROVE  Later(t, y)
<1>1. /\ t.epoch \in Int /\ x.epoch \in Int /\ y.epoch \in Int
      /\ (t.ready => t.state = "aborted") /\ (x.ready => x.state = "aborted") /\ (y.ready => y.state = "aborted")
  BY DEF TxOk
<1>2. CASE x.epoch > t.epoch
  BY <1>1, <1>2 DEF Later, None
<1>3. CASE x.epoch = t.epoch /\ y.epoch > x.epoch
  BY <1>1, <1>3 DEF Later, None
<1>4. CASE x.epoch = t.epoch /\ y.epoch = x.epoch
  BY <1>1, <1>4 DEF Later, None
<1>5. QED
  BY <1>1, <1>2, <1>3, <1>4 DEF Later

\* What is said of an epoch stays true.
LEMMA MovesOn ==
    ASSUME NEW t, TxOk(t), NEW x, TxOk(x), Moves(t, x), NEW e \in Int
    PROVE  /\ t.epoch <= x.epoch
           /\ Past(t, e) => Past(x, e)
           /\ Finished(t, e) => Finished(x, e)
           /\ Dead(t, e) => Dead(x, e)
           /\ Used(t, e) => Used(x, e)
           /\ Later(t, x) /\ Past(t, e) /\ Finished(x, e) => Finished(t, e)
           /\ Later(t, x) /\ x.state = "committed" => t.state = "committed" /\ t.epoch = x.epoch
           /\ Past(t, e) /\ x.epoch = e /\ x.state = "committing" =>
                t.epoch = e /\ t.state = "committing" /\ Range(x.msgs) = Range(t.msgs)
           /\ Used(t, e) /\ t.epoch = x.epoch /\ x.epoch = e /\ x.state \in {"open", "committing"} =>
                t.state \in {"open", "committing"} /\ Range(t.msgs) \subseteq Range(x.msgs)
  BY DEF TxOk, States, Later, Moves, Past, Finished, Dead, Used, None

\* Nothing but the record's fields matters.
LEMMA IsTxFacts ==
    ASSUME NEW t, IsTx(t)
    PROVE  /\ DOMAIN t = {"state", "epoch", "ready", "expired", "msgs", "offs"}
           /\ t.state = "committing" => PrepareCommit(t) = t
           /\ PrepareCommit(PrepareCommit(t)) = PrepareCommit(t)
           /\ Stripped(Stripped(t)) = Stripped(t)
           /\ IsTx(NoTxn) /\ IsTx(NewSession(t)) /\ IsTx(Begin(t)) /\ IsTx(PrepareCommit(t))
           /\ IsTx(BuildAborted(t)) /\ IsTx(BuildCommitted(t)) /\ IsTx(Tombstone(t)) /\ IsTx(Stripped(t))
           /\ (\A m : IsTx(AddMessage(t, m))) /\ \A g : IsTx(AddOffsets(t, g))
<1>1. /\ DOMAIN t = {"state", "epoch", "ready", "expired", "msgs", "offs"}
      /\ t.state = "committing" => PrepareCommit(t) = t
      /\ PrepareCommit(PrepareCommit(t)) = PrepareCommit(t)
  BY DEF IsTx, PrepareCommit
<1>2. Stripped(Stripped(t)) = Stripped(t) /\ IsTx(Stripped(t))
  BY DEF IsTx, Stripped
<1>3. IsTx(NoTxn) /\ IsTx(NewSession(t)) /\ IsTx(Begin(t))
  BY DEF IsTx, NoTxn, NewSession, Begin
<1>4. IsTx(PrepareCommit(t)) /\ IsTx(BuildAborted(t)) /\ IsTx(BuildCommitted(t))
  BY DEF IsTx, PrepareCommit, BuildAborted, BuildCommitted
<1>5. IsTx(Tombstone(t))
  BY DEF IsTx, Tombstone
<1>6. \A m : IsTx(AddMessage(t, m))
  BY DEF IsTx, AddMessage
<1>7. \A g : IsTx(AddOffsets(t, g))
  BY DEF IsTx, AddOffsets
<1>8. QED
  BY <1>1, <1>2, <1>3, <1>4, <1>5, <1>6, <1>7

\* Manager.txns after each operation: the record is sound and follows the one before.
LEMMA Snapshots ==
    ASSUME NEW t, TxOk(t)
    PROVE  /\ TxOk(NoTxn)
           /\ MayInit(t) => TxOk(NewSession(t)) /\ Later(t, NewSession(t))
           /\ MayBegin(t) => TxOk(Begin(t)) /\ Later(t, Begin(t))
           /\ t.state = "open" => \A m \in Numbered : TxOk(AddMessage(t, m)) /\ Later(t, AddMessage(t, m))
           /\ t.state = "open" => \A g : TxOk(AddOffsets(t, g)) /\ Later(t, AddOffsets(t, g))
           /\ t.state \in {"open", "committing"} => TxOk(PrepareCommit(t)) /\ Later(t, PrepareCommit(t))
           /\ t.state = "open" => TxOk(BuildAborted(t)) /\ Later(t, BuildAborted(t))
           /\ t.state = "committing" => TxOk(BuildCommitted(t)) /\ Moves(t, BuildCommitted(t))
           /\ Terminal(t) => TxOk(Tombstone(t)) /\ Later(t, Tombstone(t)) /\ Tombstone(t).state = t.state
                               /\ Tombstone(t).epoch = t.epoch
           /\ ~(References(t) /\ ~t.expired /\ t.state \in {"open", "committing"}) =>
                TxOk(Stripped(t)) /\ Later(t, Stripped(t))
<1> DEFINE e == << >>
<1>1. e \in Seq(Numbered) /\ Range(e) = {}
  BY DEF Range
<1>2. EpochBound \in Int /\ EpochBound <= MaxEpoch /\ MaxEpoch \in Nat /\ 0 <= EpochBound
  BY TxnConstants DEF EpochBound
<1>3. /\ IsTx(t) /\ DOMAIN t = {"state", "epoch", "ready", "expired", "msgs", "offs"}
      /\ t.msgs \in Seq(Numbered) /\ t.epoch \in Int /\ t.state \in States
      /\ t.epoch <= MaxEpoch /\ -1 <= t.epoch /\ (t.state = None <=> t.epoch = -1)
      /\ t.ready \in BOOLEAN /\ t.expired \in BOOLEAN
      /\ (t.expired => t.state \in {"committed", "aborted"}) /\ (t.ready => t.state = "aborted")
  BY IsTxFacts DEF TxOk, Terminal
<1>4. ASSUME NEW m \in Numbered PROVE Append(t.msgs, m) \in Seq(Numbered) /\ Range(t.msgs) \subseteq Range(Append(t.msgs, m))
  <2> HIDE DEF Numbered
  <2>1. Append(t.msgs, m) \in Seq(Numbered)
    BY <1>3
  <2>2. \A i \in DOMAIN t.msgs : i \in DOMAIN Append(t.msgs, m) /\ Append(t.msgs, m)[i] = t.msgs[i]
    BY <1>3
  <2>3. QED
    BY <2>1, <2>2 DEF Range
<1>5. TxOk(NoTxn)
  <2>1. /\ NoTxn.state = None /\ NoTxn.epoch = -1 /\ NoTxn.ready = FALSE /\ NoTxn.expired = FALSE
        /\ NoTxn.msgs = e
    BY DEF NoTxn
  <2> DEFINE x == NoTxn
  <2>2. IsTx(x)
    BY <1>3, IsTxFacts
  <2> HIDE DEF e, x
  <2>3. x.state = None /\ x.epoch = -1 /\ ~x.ready /\ ~x.expired /\ x.msgs = e /\ x.ready \in BOOLEAN /\ x.expired \in BOOLEAN
    BY <2>1 DEF x
  <2>4. x.epoch \in Int /\ x.epoch <= MaxEpoch /\ -1 <= x.epoch /\ x.state \in States
    BY <1>2, <2>3 DEF States
  <2>5. TxOk(x)
    BY <1>1, <2>2, <2>3, <2>4 DEF TxOk
  <2>6. QED
    BY <2>5 DEF x
<1>6. ASSUME MayInit(t) PROVE TxOk(NewSession(t)) /\ Later(t, NewSession(t))
  <2> DEFINE x == NewSession(t)
  <2>1. /\ x.state = "aborted" /\ x.epoch = t.epoch + 1 /\ x.ready = TRUE /\ x.expired = FALSE /\ x.msgs = e
    BY DEF NewSession, NoTxn
  <2>2. IsTx(x) /\ t.epoch < EpochBound /\ t.state # "committing"
    BY <1>3, <1>6, IsTxFacts DEF MayInit
  <2> HIDE DEF x, e
  <2>3. x.epoch \in Int /\ x.epoch <= MaxEpoch /\ -1 <= x.epoch /\ x.epoch # -1 /\ x.epoch > t.epoch
    BY <1>2, <1>3, <2>1, <2>2
  <2>4. x.state \in States /\ x.state # None /\ x.state # "committed" /\ x.ready \in BOOLEAN /\ x.expired \in BOOLEAN
    BY <2>1 DEF States, None
  <2>5. TxOk(x)
    BY <1>1, <2>1, <2>2, <2>3, <2>4 DEF TxOk
  <2>6. Later(t, x)
    BY <2>2, <2>3, <2>4 DEF Later
  <2>7. QED
    BY <2>5, <2>6 DEF x
<1>7. ASSUME MayBegin(t) PROVE TxOk(Begin(t)) /\ Later(t, Begin(t))
  <2> DEFINE x == Begin(t)
  <2>1. /\ x.state = "open" /\ x.epoch = t.epoch /\ x.ready = FALSE /\ x.expired = FALSE /\ x.msgs = e
    BY DEF Begin, NoTxn
  <2>2. IsTx(x) /\ t.ready
    BY <1>3, <1>7, IsTxFacts DEF MayBegin
  <2> HIDE DEF x, e
  <2>3. TxOk(x) /\ Later(t, x)
    BY <1>1, <1>2, <1>3, <2>1, <2>2 DEF TxOk, States, None, Later
  <2>4. QED
    BY <2>3 DEF x
<1>8. ASSUME t.state = "open", NEW m \in Numbered PROVE TxOk(AddMessage(t, m)) /\ Later(t, AddMessage(t, m))
  <2> DEFINE x == AddMessage(t, m)
             a == Append(t.msgs, m)
  <2>1. a \in Seq(Numbered) /\ Range(t.msgs) \subseteq Range(a)
    BY <1>4, <1>8
  <2>2. /\ x.state = t.state /\ x.epoch = t.epoch /\ x.ready = t.ready /\ x.expired = t.expired /\ x.msgs = a
    BY <1>3 DEF AddMessage
  <2>3. IsTx(x)
    BY <1>3, IsTxFacts
  <2> HIDE DEF x, a
  <2>4. TxOk(x) /\ Later(t, x)
    BY <1>3, <1>8, <2>1, <2>2, <2>3 DEF TxOk, States, None, Later, Terminal
  <2>5. QED
    BY <2>4 DEF x
<1>9. ASSUME t.state = "open", NEW g PROVE TxOk(AddOffsets(t, g)) /\ Later(t, AddOffsets(t, g))
  <2> DEFINE x == AddOffsets(t, g)
  <2>1. /\ x.state = t.state /\ x.epoch = t.epoch /\ x.ready = t.ready /\ x.expired = t.expired /\ x.msgs = t.msgs
    BY <1>3 DEF AddOffsets
  <2>2. IsTx(x)
    BY <1>3, IsTxFacts
  <2> HIDE DEF x
  <2>3. TxOk(x) /\ Later(t, x)
    BY <1>3, <1>9, <2>1, <2>2 DEF TxOk, States, None, Later, Terminal
  <2>4. QED
    BY <2>3 DEF x
<1>10. ASSUME t.state \in {"open", "committing"}, NEW x, IsTx(x), x.epoch = t.epoch, x.ready = t.ready,
              x.expired = t.expired, x.msgs = t.msgs, x.state \in {"committing", "committed", "aborted"}
       PROVE  /\ TxOk(x) /\ (x.state = "committing" => Later(t, x))
              /\ t.state = "open" /\ x.state = "aborted" => Later(t, x)
              /\ t.state = "committing" /\ x.state = "committed" => Moves(t, x)
  <2>1. TxOk(x)
    BY <1>3, <1>10 DEF TxOk, States, None, Terminal
  <2>2. QED
    BY <1>3, <1>10, <2>1 DEF Later, Moves
<1>11. t.state \in {"open", "committing"} => TxOk(PrepareCommit(t)) /\ Later(t, PrepareCommit(t))
  <2> DEFINE x == PrepareCommit(t)
  <2>1. /\ x.state = "committing" /\ x.epoch = t.epoch /\ x.ready = t.ready /\ x.expired = t.expired /\ x.msgs = t.msgs
    BY <1>3 DEF PrepareCommit
  <2>2. IsTx(x)
    BY <1>3, IsTxFacts
  <2> HIDE DEF x
  <2>3. t.state \in {"open", "committing"} => TxOk(x) /\ Later(t, x)
    BY <1>10, <2>1, <2>2
  <2>4. QED
    BY <2>3 DEF x
<1>12. t.state = "open" => TxOk(BuildAborted(t)) /\ Later(t, BuildAborted(t))
  <2> DEFINE x == BuildAborted(t)
  <2>1. /\ x.state = "aborted" /\ x.epoch = t.epoch /\ x.ready = t.ready /\ x.expired = t.expired /\ x.msgs = t.msgs
    BY <1>3 DEF BuildAborted
  <2>2. IsTx(x)
    BY <1>3, IsTxFacts
  <2> HIDE DEF x
  <2>3. t.state = "open" => TxOk(x) /\ Later(t, x)
    BY <1>10, <2>1, <2>2
  <2>4. QED
    BY <2>3 DEF x
<1>13. t.state = "committing" => TxOk(BuildCommitted(t)) /\ Moves(t, BuildCommitted(t))
  <2> DEFINE x == BuildCommitted(t)
  <2>1. /\ x.state = "committed" /\ x.epoch = t.epoch /\ x.ready = t.ready /\ x.expired = t.expired /\ x.msgs = t.msgs
    BY <1>3 DEF BuildCommitted
  <2>2. IsTx(x)
    BY <1>3, IsTxFacts
  <2> HIDE DEF x
  <2>3. t.state = "committing" => TxOk(x) /\ Moves(t, x)
    BY <1>10, <2>1, <2>2
  <2>4. QED
    BY <2>3 DEF x
<1>14. ASSUME Terminal(t)
       PROVE  TxOk(Tombstone(t)) /\ Later(t, Tombstone(t)) /\ Tombstone(t).state = t.state /\ Tombstone(t).epoch = t.epoch
  <2> DEFINE x == Tombstone(t)
  <2>1. /\ x.state = t.state /\ x.epoch = t.epoch /\ x.ready = FALSE /\ x.expired = TRUE /\ x.msgs = e
    BY <1>3 DEF Tombstone
  <2>2. IsTx(x) /\ t.state \in {"committed", "aborted"}
    BY <1>3, <1>14, IsTxFacts DEF Terminal
  <2> HIDE DEF x, e
  <2>3. TxOk(x) /\ Later(t, x)
    BY <1>1, <1>3, <2>1, <2>2 DEF TxOk, States, None, Later, Terminal
  <2>4. QED
    BY <2>1, <2>3 DEF x
<1>15. ASSUME ~(References(t) /\ ~t.expired /\ t.state \in {"open", "committing"})
       PROVE  TxOk(Stripped(t)) /\ Later(t, Stripped(t))
  <2> DEFINE x == Stripped(t)
  <2>1. /\ x.state = t.state /\ x.epoch = t.epoch /\ x.ready = t.ready /\ x.expired = t.expired /\ x.msgs = e
    BY <1>3 DEF Stripped
  <2>2. IsTx(x) /\ (t.state \in {"open", "committing"} => t.msgs = e)
    BY <1>3, <1>15, IsTxFacts DEF References
  <2> HIDE DEF x, e
  <2>3. TxOk(x) /\ Later(t, x)
    BY <1>1, <1>3, <2>1, <2>2 DEF TxOk, States, None, Later, Terminal
  <2>4. QED
    BY <2>3 DEF x
<1>16. QED
  BY <1>5, <1>6, <1>7, <1>8, <1>9, <1>11, <1>12, <1>13, <1>14, <1>15

-----------------------------------------------------------------------------
(* The manager's memory, the journal, the unacknowledged record, what was  *)
(* decided, what clients know and what they were told.                     *)

\* Memory is what the journal says, or ahead of it by a PrepareCommit that could not be journaled.
Follows(x, t) == t = x \/ (x.state = "open" /\ t = PrepareCommit(x))
StateOk(x, t) == TxOk(x) /\ TxOk(t) /\ Follows(x, t)

\* An unacknowledged record t behind x: the journal may become t at a restart.
TailFor(x, t) ==
    TxOk(t) /\ (Later(x, t) \/ (x.state = "committing" /\ t.state = "committed" /\ t.epoch = x.epoch))

\* The decisions d about an id with journal record x: only what was prepared is committed, and a
\* prepared epoch keeps its messages until its outcome is recorded.
DecidedOk(d, x) ==
    /\ d = [e \in Epochs |-> d[e]]
    /\ \A e \in Epochs :
         /\ d[e].gen \in Nat /\ d[e].msgs \subseteq Numbered /\ IsFiniteSet(d[e].msgs)
         /\ d[e].gen # 0 => Past(x, e)
         /\ d[e].gen # 0 /\ x.epoch = e /\ x.state = "committing" => d[e].msgs = Range(x.msgs)
Committed(d, x) == x.state = "committed" => x.epoch \in Epochs /\ d[x.epoch].gen # 0

\* A client k: what it has sent is staged, and part of the decision once there is one.
ClientOk(k, d, x) ==
    /\ DOMAIN k = {"at", "epoch", "sent"} /\ k.epoch \in Int
    /\ k.sent \subseteq Numbered /\ IsFiniteSet(k.sent)
    /\ k.epoch <= x.epoch
    /\ k.at = "ready" => k.sent = {}
    /\ k.at \in {"open", "abort", "commit"} =>
         /\ Used(x, k.epoch)
         /\ x.epoch = k.epoch /\ x.state \in {"open", "committing"} => k.sent \subseteq Range(x.msgs)
         /\ k.epoch \in Epochs /\ d[k.epoch].gen # 0 => k.sent \subseteq d[k.epoch].msgs

\* The answers w about an id.
ToldOk(w, d, x) ==
    /\ w = [e \in Epochs |-> w[e]]
    /\ \A e \in Epochs :
         /\ w[e].what = "committed" => d[e].gen # 0 /\ w[e].msgs \subseteq d[e].msgs /\ Finished(x, e)
         /\ w[e].what = "aborted" => d[e].gen = 0 /\ Dead(x, e)

\* What is carried out is the id's durable decision.
JobFor(i) ==
    /\ txns[i] = journal[i] /\ journal[i].state = "committing"
    /\ journal[i].epoch \in Epochs /\ decided[i][journal[i].epoch].gen # 0
    /\ job[i].by \in TxnClients => IdOf(job[i].by) = i /\ client[job[i].by].epoch = journal[i].epoch

StateInv == \A i \in Ids : StateOk(journal[i], txns[i])
TailInv ==
    tail # << >> => \E i \in Ids : \E t : tail = <<i, t>> /\ TailFor(journal[i], t) /\ Committed(decided[i], t)
DecidedInv ==
    /\ decided = [i \in Ids |-> decided[i]]
    /\ \A i \in Ids : DecidedOk(decided[i], journal[i]) /\ Committed(decided[i], journal[i])
ClientInv ==
    /\ client = [c \in TxnClients |-> client[c]]
    /\ \A c \in TxnClients : ClientOk(client[c], decided[IdOf(c)], journal[IdOf(c)])
ToldInv ==
    /\ told = [i \in Ids |-> told[i]]
    /\ \A i \in Ids : ToldOk(told[i], decided[i], journal[i])
WorkInv == \A i \in Ids : Locked(i) => JobFor(i)
QuietInv ==
    /\ up \in {"down", "recover"} => \A i \in Ids : txns[i] = journal[i]
    /\ up = "down" => tail = << >>
    /\ (up = "down" \/ (up = "recover" /\ topic.fenced)) => \A i \in Ids : ~Locked(i)
CoreInv == StateInv /\ TailInv /\ DecidedInv /\ ClientInv /\ ToldInv /\ WorkInv /\ QuietInv

\* What is kept of an id when its record moves on.
LEMMA DecidedKept ==
    ASSUME NEW x, TxOk(x), NEW y, TxOk(y), Moves(x, y), NEW d, DecidedOk(d, x)
    PROVE  DecidedOk(d, y)
<1>1. ASSUME NEW e \in Epochs, d[e].gen # 0
      PROVE  Past(y, e) /\ (y.epoch = e /\ y.state = "committing" => d[e].msgs = Range(y.msgs))
  <2>1. e \in Int
    BY TxnConstants DEF Epochs
  <2>2. Past(x, e) /\ (x.epoch = e /\ x.state = "committing" => d[e].msgs = Range(x.msgs))
    BY <1>1 DEF DecidedOk
  <2>3. QED
    BY <2>1, <2>2, MovesOn
<1>2. QED
  BY <1>1 DEF DecidedOk

\* An outcome that nothing but the carrying out records.
LEMMA CommittedKept ==
    ASSUME NEW x, TxOk(x), NEW y, TxOk(y), Later(x, y), NEW d, Committed(d, x)
    PROVE  Committed(d, y)
<1>1. y.state = "committed" => x.state = "committed" /\ x.epoch = y.epoch
  BY MovesOn DEF Moves
<1>2. QED
  BY <1>1 DEF Committed

\* The same for a client.
LEMMA ClientKept ==
    ASSUME NEW x, TxOk(x), NEW y, TxOk(y), Moves(x, y), NEW d, NEW k, ClientOk(k, d, x)
    PROVE  ClientOk(k, d, y)
<1>1. k.epoch \in Int /\ k.epoch <= x.epoch /\ x.epoch \in Int /\ y.epoch \in Int
  BY DEF ClientOk, TxOk
<1>2. x.epoch <= y.epoch
  BY MovesOn
<1>3. ASSUME k.at \in {"open", "abort", "commit"}
      PROVE  Used(y, k.epoch) /\ (y.epoch = k.epoch /\ y.state \in {"open", "committing"} => k.sent \subseteq Range(y.msgs))
  <2>1. /\ Used(x, k.epoch)
        /\ x.epoch = k.epoch /\ x.state \in {"open", "committing"} => k.sent \subseteq Range(x.msgs)
    BY <1>3 DEF ClientOk
  <2>2. Used(y, k.epoch)
    BY <1>1, <2>1, MovesOn
  <2>3. ASSUME y.epoch = k.epoch, y.state \in {"open", "committing"}
        PROVE  k.sent \subseteq Range(y.msgs)
    <3>1. x.epoch = k.epoch
      BY <1>1, <1>2, <2>3
    <3>2. x.state \in {"open", "committing"} /\ Range(x.msgs) \subseteq Range(y.msgs)
      BY <1>1, <2>1, <2>3, <3>1, MovesOn
    <3>3. QED
      BY <2>1, <3>1, <3>2
  <2>4. QED
    BY <2>2, <2>3
<1>4. QED
  BY <1>1, <1>2, <1>3 DEF ClientOk

\* And for the answers.
LEMMA ToldKept ==
    ASSUME NEW x, TxOk(x), NEW y, TxOk(y), Moves(x, y), NEW d, NEW w, ToldOk(w, d, x)
    PROVE  ToldOk(w, d, y)
<1>1. \A e \in Epochs : (Finished(x, e) => Finished(y, e)) /\ (Dead(x, e) => Dead(y, e))
  <2>1. \A e \in Epochs : e \in Int
    BY TxnConstants DEF Epochs
  <2>2. QED
    BY <2>1, MovesOn
<1>2. QED
  BY <1>1 DEF ToldOk

\* What syncTransactionState may be given for an id: a later record, or the outcome of what is journaled.
MaySync(i, tx) ==
    /\ TxOk(tx)
    /\ \/ Later(txns[i], tx)
       \/ txns[i] = journal[i] /\ txns[i].state = "committing" /\ tx = BuildCommitted(txns[i])

\* A journal append that succeeds.
LEMMA Synced ==
    ASSUME TxnInv, StateInv, NEW i \in Ids, NEW tx, MaySync(i, tx), Sync(i, tx), work' = work
    PROVE  /\ Ids' = Ids /\ tail' = << >>
           /\ journal'[i] = tx /\ txns'[i] = tx
           /\ \A k \in Ids \ {i} : journal'[k] = journal[k] /\ txns'[k] = txns[k]
           /\ \A k \in Ids : StateOk(journal'[k], txns'[k])
           /\ Later(txns[i], tx) => Later(journal[i], tx)
           /\ Moves(journal[i], tx)
<1>1. Ids' = Ids
  BY DEF Ids, Does
<1>2. /\ txns' = [k \in Ids |-> IF k = i THEN tx ELSE txns[k]] /\ tail' = << >>
      /\ journal' = [k \in Ids |-> IF k = i THEN tx ELSE journal[k]]
  BY DEF TxnInv, TxnsOk, Sync
<1>3. \A k \in Ids : TxOk(journal[k]) /\ TxOk(txns[k]) /\ Follows(journal[k], txns[k])
  BY DEF StateInv, StateOk
<1>4. Later(journal[i], txns[i]) /\ TxOk(tx)
  BY <1>3, LaterSame, Snapshots DEF Follows, MaySync
<1>5. \A k \in Ids : StateOk(journal'[k], txns'[k])
  BY <1>2, <1>3, <1>4 DEF StateOk, Follows
<1>6. Later(txns[i], tx) => Later(journal[i], tx)
  BY <1>3, <1>4, LaterTwice
<1>7. Moves(journal[i], tx)
  <2>1. CASE Later(txns[i], tx)
    BY <1>6, <2>1 DEF Moves
  <2>2. CASE txns[i] = journal[i] /\ txns[i].state = "committing" /\ tx = BuildCommitted(txns[i])
    BY <1>3, <2>2, Snapshots
  <2>3. QED
    BY <2>1, <2>2 DEF MaySync
<1>8. QED
  BY <1>1, <1>2, <1>5, <1>6, <1>7

\* Pruning that deletes no tombstone: the journal becomes the manager's memory, with one more tombstone.
LEMMA PruneMoves ==
    ASSUME TxnInv, CoreInv, NEW i \in Ids, PruneExpired(i), forgot' = {}
    PROVE  /\ Ids' = Ids /\ tail' = << >> /\ UNCHANGED <<up, work, logVars, job, client, goff, told, decided>>
           /\ \A k \in Ids : journal'[k] = txns'[k] /\ TxOk(journal'[k]) /\ Later(journal[k], journal'[k])
           /\ \A k \in Ids : txns'[k] = txns[k] \/ (k = i /\ Terminal(txns[k]) /\ txns'[k] = Tombstone(txns[k]))
<1>1. /\ work' = work /\ tail' = << >> /\ UNCHANGED <<up, logVars, job, client, goff, told, decided>>
      /\ Terminal(txns[i]) /\ journal' = txns' /\ txns' = [txns EXCEPT ![i] = Pruned(@)]
  BY DEF PruneExpired
<1>2. Ids' = Ids
  BY <1>1 DEF Ids, Does
<1>3. ~txns[i].expired
  BY DEF PruneExpired
<1>4. txns' = [k \in Ids |-> IF k = i THEN Tombstone(txns[k]) ELSE txns[k]]
  BY <1>1, <1>3 DEF Pruned, TxnInv, TxnsOk
<1>5. \A k \in Ids : TxOk(journal[k]) /\ TxOk(txns[k]) /\ Later(journal[k], txns[k])
  BY LaterSame, Snapshots DEF CoreInv, StateInv, StateOk, Follows
<1>6. TxOk(Tombstone(txns[i])) /\ Later(txns[i], Tombstone(txns[i]))
  BY <1>1, <1>5, Snapshots
<1>7. \A k \in Ids : TxOk(txns'[k]) /\ Later(txns[k], txns'[k])
  BY <1>4, <1>5, <1>6, LaterSame
<1>8. \A k \in Ids : Later(journal[k], txns'[k])
  BY <1>5, <1>7, LaterTwice
<1>9. QED
  BY <1>1, <1>2, <1>4, <1>7, <1>8

\* A journal append that fails, with what it may leave in the file.
LEMMA SyncFailed ==
    ASSUME TxnInv, StateInv, NEW i \in Ids, NEW tx, MaySync(i, tx), NEW left, SyncFails(i, tx, left), work' = work,
           \/ left = txns[i]
           \/ left = tx /\ txns[i].state \in {"open", "committing"} /\ tx = PrepareCommit(txns[i])
    PROVE  /\ Ids' = Ids /\ journal' = journal /\ tail' \in {<< >>, <<i, tx>>}
           /\ \A k \in Ids : StateOk(journal'[k], txns'[k])
           /\ \A k \in Ids \ {i} : txns'[k] = txns[k]
           /\ left = txns[i] => txns'[i] = txns[i]
           /\ TailFor(journal[i], tx)
<1>1. Ids' = Ids
  BY DEF Ids, Does
<1>2. txns' = [k \in Ids |-> IF k = i THEN left ELSE txns[k]] /\ journal' = journal /\ tail' \in {<< >>, <<i, tx>>}
  BY DEF TxnInv, TxnsOk, SyncFails
<1>3. \A k \in Ids : TxOk(journal[k]) /\ TxOk(txns[k]) /\ Follows(journal[k], txns[k])
  BY DEF StateInv, StateOk
<1>4. Later(journal[i], txns[i])
  BY <1>3, LaterSame, Snapshots DEF Follows
<1>5. TxOk(tx)
  BY DEF MaySync
<1>6. StateOk(journal[i], left)
  <2>1. CASE left = txns[i]
    BY <1>3, <2>1 DEF StateOk
  <2>2. CASE left = tx /\ txns[i].state \in {"open", "committing"} /\ tx = PrepareCommit(txns[i])
    <3>1. IsTx(txns[i]) /\ IsTx(journal[i])
      BY <1>3 DEF TxOk
    <3>2. Follows(journal[i], left)
      <4>1. CASE txns[i] = journal[i]
        BY <2>2, <3>1, <4>1, IsTxFacts DEF Follows
      <4>2. CASE journal[i].state = "open" /\ txns[i] = PrepareCommit(journal[i])
        BY <2>2, <3>1, <4>2, IsTxFacts DEF Follows
      <4>3. QED
        BY <1>3, <4>1, <4>2 DEF Follows
    <3>3. QED
      BY <1>3, <1>5, <2>2, <3>2 DEF StateOk
  <2>3. QED
    BY <2>1, <2>2
<1>7. \A k \in Ids : StateOk(journal'[k], txns'[k])
  BY <1>2, <1>3, <1>6 DEF StateOk
<1>8. TailFor(journal[i], tx)
  <2>1. CASE Later(txns[i], tx)
    BY <1>3, <1>4, <1>5, <2>1, LaterTwice DEF TailFor
  <2>2. CASE txns[i] = journal[i] /\ txns[i].state = "committing" /\ tx = BuildCommitted(txns[i])
    <3>1. tx.state = "committed" /\ tx.epoch = txns[i].epoch
      BY <1>3, <2>2, IsTxFacts DEF BuildCommitted, TxOk
    <3>2. QED
      BY <1>5, <2>2, <3>1 DEF TailFor
  <2>3. QED
    BY <2>1, <2>2 DEF MaySync
<1>9. QED
  BY <1>1, <1>2, <1>7, <1>8

\* The records move on.
JournalMoves ==
    /\ Ids' = Ids /\ work' = work
    /\ \A k \in Ids : TxOk(journal[k]) /\ TxOk(journal'[k]) /\ Moves(journal[k], journal'[k])

\* The decisions of a step that takes none.
LEMMA DecidedSame ==
    ASSUME DecidedInv, JournalMoves, UNCHANGED decided, \A k \in Ids : Committed(decided[k], journal'[k])
    PROVE  DecidedInv'
<1>1. \A k \in Ids : DecidedOk(decided[k], journal'[k])
  BY DecidedKept DEF DecidedInv, JournalMoves
<1>2. QED
  BY <1>1 DEF DecidedInv, JournalMoves

\* An id is some producer's.
LEMMA IdOfIds == \A c \in TxnClients : IdOf(c) \in Ids
  BY DEF IdOf, Ids

\* The clients of a step that changes at most one of them.
LEMMA ClientSame ==
    ASSUME ClientInv, JournalMoves, UNCHANGED decided, NEW c, NEW r, client' = [client EXCEPT ![c] = r],
           c \in TxnClients => ClientOk(r, decided[IdOf(c)], journal'[IdOf(c)])
    PROVE  ClientInv'
<1>1. client' = [b \in TxnClients |-> IF b = c THEN r ELSE client[b]]
  BY DEF ClientInv
<1>2. \A b \in TxnClients : IdOf(b)' = IdOf(b) /\ IdOf(b) \in Ids
  BY IdOfIds DEF JournalMoves, IdOf, Does
<1>3. \A b \in TxnClients : ClientOk(client[b], decided[IdOf(b)], journal'[IdOf(b)])
  BY <1>2, ClientKept DEF ClientInv, JournalMoves
<1>4. \A b \in TxnClients : ClientOk(client'[b], decided'[IdOf(b)], journal'[IdOf(b)])
  BY <1>1, <1>3
<1>5. client' = [b \in TxnClients |-> client'[b]]
  BY <1>1
<1>6. QED
  BY <1>2, <1>4, <1>5 DEF ClientInv

\* The answers of a step that gives none.
LEMMA ToldSame ==
    ASSUME ToldInv, JournalMoves, UNCHANGED <<told, decided>>
    PROVE  ToldInv'
<1>1. \A k \in Ids : ToldOk(told[k], decided[k], journal'[k])
  BY ToldKept DEF ToldInv, JournalMoves
<1>2. QED
  BY <1>1 DEF ToldInv, JournalMoves

\* The answer to one client.
LEMMA ToldOne ==
    ASSUME ToldInv, JournalMoves, UNCHANGED decided, NEW c \in TxnClients, NEW what, Tell(c, what),
           client[c].epoch \in Epochs =>
             LET i == IdOf(c)
                 e == client[c].epoch
             IN  \/ what = "committed" /\ decided[i][e].gen # 0 /\ client[c].sent \subseteq decided[i][e].msgs
                      /\ Finished(journal'[i], e)
                 \/ what = "aborted" /\ decided[i][e].gen = 0 /\ Dead(journal'[i], e)
    PROVE  ToldInv'
<1> DEFINE i == IdOf(c)
           e == client[c].epoch
           y == [what |-> what, msgs |-> client[c].sent]
<1>1. \A k \in Ids : ToldOk(told[k], decided[k], journal'[k])
  BY ToldKept DEF ToldInv, JournalMoves
<1>2. i \in Ids
  BY IdOfIds
<1>3. told' = [told EXCEPT ![i] = [told[i] EXCEPT ![e] = y]]
  BY DEF Tell
<1>4. y.what = what /\ y.msgs = client[c].sent
  OBVIOUS
<1> HIDE DEF y, i, e
<1> DEFINE w == [told[i] EXCEPT ![e] = y]
<1>5. told' = [k \in Ids |-> IF k = i THEN w ELSE told[k]]
  BY <1>3 DEF ToldInv
<1>6. w = [f \in Epochs |-> IF f = e THEN y ELSE told[i][f]]
  BY <1>1, <1>2 DEF ToldOk
<1> HIDE DEF w
<1>7. ToldOk(w, decided[i], journal'[i])
  <2>1. ASSUME NEW f \in Epochs
        PROVE /\ w[f].what = "committed" => decided[i][f].gen # 0 /\ w[f].msgs \subseteq decided[i][f].msgs /\ Finished(journal'[i], f)
              /\ w[f].what = "aborted" => decided[i][f].gen = 0 /\ Dead(journal'[i], f)
    <3>1. CASE f = e
      BY <1>4, <1>6, <2>1, <3>1 DEF i, e
    <3>2. CASE f # e
      BY <1>1, <1>2, <1>6, <2>1, <3>2 DEF ToldOk
    <3>3. QED
      BY <3>1, <3>2
  <2>2. w = [f \in Epochs |-> w[f]]
    BY <1>6
  <2>3. QED
    BY <2>1, <2>2 DEF ToldOk
<1>8. \A k \in Ids : ToldOk(told'[k], decided'[k], journal'[k])
  BY <1>1, <1>5, <1>7
<1>9. told' = [k \in Ids |-> told'[k]]
  BY <1>5
<1>10. QED
  BY <1>8, <1>9 DEF ToldInv, JournalMoves

\* The elements of a sequence are finitely many.
LEMMA RangeFinite ==
    ASSUME NEW S, NEW s \in Seq(S)
    PROVE  IsFiniteSet(Range(s))
<1> DEFINE n == Len(s)
<1>1. n \in Nat /\ DOMAIN s = 1 .. n /\ s \in [1 .. n -> S]
  OBVIOUS
<1> HIDE DEF n
<1>2. IsFiniteSet(1 .. n)
  BY <1>1, FS_Interval
<1>3. s \in Surjection(1 .. n, Range(s))
  BY <1>1 DEF Surjection, Range
<1>4. QED
  BY <1>2, <1>3, FS_Surjection

\* PrepareCommit's record is in the journal, and the decision is what it holds.
LEMMA PreparedOk ==
    ASSUME DecidedInv, ClientInv, ToldInv, JournalMoves, topic.gen \in Nat \ {0}, NEW i \in Ids, NEW tx, NEW by,
           Prepared(i, tx, by), journal'[i] = tx, tx.state = "committing",
           \A k \in Ids : Committed(decided[k], journal'[k])
    PROVE  /\ DecidedInv' /\ (UNCHANGED told => ToldInv')
           /\ \A c \in TxnClients : ClientOk(client[c], decided'[IdOf(c)], journal'[IdOf(c)])
           /\ tx.epoch \in Epochs /\ decided'[i][tx.epoch].gen = topic.gen
           /\ \A k \in Ids : \A e \in Epochs :
                decided'[k][e] = decided[k][e] \/ (k = i /\ e = tx.epoch /\ decided'[k][e].gen = topic.gen)
<1> DEFINE e == tx.epoch
           y == [gen |-> topic.gen, msgs |-> Range(tx.msgs)]
           d == [decided[i] EXCEPT ![e] = y]
<1>1. decided' = [decided EXCEPT ![i] = d]
  BY DEF Prepared
<1>2. y.gen = topic.gen /\ y.msgs = Range(tx.msgs)
  OBVIOUS
<1> HIDE DEF y
<1>3. \A k \in Ids : DecidedOk(decided[k], journal'[k])
  BY DecidedKept DEF DecidedInv, JournalMoves
<1>4. TxOk(tx) /\ e \in Epochs
  BY TxnConstants DEF JournalMoves, TxOk, Epochs, None
<1>5. d = [f \in Epochs |-> IF f = e THEN y ELSE decided[i][f]]
  BY <1>3 DEF DecidedOk
<1> HIDE DEF d, e
<1>6. decided' = [k \in Ids |-> IF k = i THEN d ELSE decided[k]]
  BY <1>1 DEF DecidedInv
<1>7. y.msgs \subseteq Numbered /\ IsFiniteSet(y.msgs)
  <2>1. tx.msgs \in Seq(Numbered)
    BY <1>4 DEF TxOk
  <2>2. Range(tx.msgs) \subseteq Numbered
    <3> HIDE DEF Numbered
    <3>1. QED
      BY <2>1 DEF Range
  <2>3. IsFiniteSet(Range(tx.msgs))
    BY <2>1, RangeFinite
  <2>4. QED
    BY <1>2, <2>2, <2>3
<1>8. DecidedOk(d, tx)
  <2>1. ASSUME NEW f \in Epochs
        PROVE  /\ d[f].gen \in Nat /\ d[f].msgs \subseteq Numbered /\ IsFiniteSet(d[f].msgs)
               /\ d[f].gen # 0 => Past(tx, f)
               /\ d[f].gen # 0 /\ tx.epoch = f /\ tx.state = "committing" => d[f].msgs = Range(tx.msgs)
    <3>1. CASE f = e
      <4>1. d[f] = y
        BY <1>5, <2>1, <3>1
      <4>2. Past(tx, f)
        BY <3>1 DEF Past, e
      <4>3. QED
        BY <1>2, <1>7, <4>1, <4>2
    <3>2. CASE f # e
      <4>1. d[f] = decided[i][f]
        BY <1>5, <2>1, <3>2
      <4>2. QED
        BY <1>3, <2>1, <4>1 DEF DecidedOk
    <3>3. QED
      BY <3>1, <3>2
  <2>2. d = [f \in Epochs |-> d[f]]
    BY <1>5
  <2>3. QED
    BY <2>1, <2>2 DEF DecidedOk
<1>9. d[e].gen = topic.gen /\ d[e].msgs = Range(tx.msgs) /\ \A f \in Epochs \ {e} : d[f] = decided[i][f]
  BY <1>2, <1>4, <1>5
<1>10. DecidedInv'
  <2>1. \A k \in Ids : DecidedOk(decided'[k], journal'[k]) /\ Committed(decided'[k], journal'[k])
    <3>1. Committed(d, tx)
      BY DEF Committed
    <3>2. QED
      BY <1>3, <1>6, <1>8, <3>1
  <2>2. decided' = [k \in Ids |-> decided'[k]]
    BY <1>6
  <2>3. QED
    BY <2>1, <2>2 DEF DecidedInv, JournalMoves
<1>11. ToldOk(told[i], d, tx)
  <2>1. ToldOk(told[i], decided[i], tx)
    BY ToldKept DEF ToldInv, JournalMoves
  <2>2. told[i][e].what # "committed" /\ told[i][e].what # "aborted"
    BY <1>4, <2>1 DEF ToldOk, Finished, Dead, e, TxOk
  <2>3. QED
    BY <1>9, <2>1, <2>2 DEF ToldOk
<1>12. UNCHANGED told => ToldInv'
  <2>1. \A k \in Ids : ToldOk(told[k], decided'[k], journal'[k])
    BY <1>6, <1>11, ToldKept DEF ToldInv, JournalMoves
  <2>2. QED
    BY <2>1 DEF ToldInv, JournalMoves
<1>13. ASSUME NEW c \in TxnClients PROVE ClientOk(client[c], decided'[IdOf(c)], journal'[IdOf(c)])
  <2>1. ClientOk(client[c], decided[IdOf(c)], journal'[IdOf(c)]) /\ IdOf(c) \in Ids
    BY IdOfIds, ClientKept DEF ClientInv, JournalMoves
  <2>2. CASE IdOf(c) # i
    BY <1>6, <2>1, <2>2
  <2>3. CASE IdOf(c) = i
    <3>1. ClientOk(client[c], decided[i], tx) /\ decided'[i] = d
      BY <1>6, <2>1, <2>3
    <3>2. client[c].at \in {"open", "abort", "commit"} /\ client[c].epoch = e => client[c].sent \subseteq d[e].msgs
      BY <1>9, <3>1 DEF ClientOk, e
    <3>3. client[c].at \in {"open", "abort", "commit"} /\ client[c].epoch \in Epochs /\ d[client[c].epoch].gen # 0 =>
             client[c].sent \subseteq d[client[c].epoch].msgs
      BY <1>9, <3>1, <3>2 DEF ClientOk
    <3>4. ClientOk(client[c], d, tx)
      BY <3>1, <3>3 DEF ClientOk
    <3>5. QED
      BY <2>3, <3>1, <3>4
  <2>4. QED
    BY <2>2, <2>3
<1>14. QED
  BY <1>4, <1>6, <1>9, <1>10, <1>12, <1>13 DEF e

\* An outcome is only recorded by the job that carries the decision out, or by a restart that finds
\* its unacknowledged record; a decision is only taken for what the journal has as committing.
Concludes(k) ==
    /\ journal[k].state = "committing" /\ journal'[k].epoch = journal[k].epoch /\ journal'[k].state = "committed"
    /\ Doing(k) = "decide" \/ \E t : tail = <<k, t>> /\ t.state = "committed"
CoreMoves ==
    /\ Ids' = Ids /\ work' = work
    /\ \A k \in Ids : Later(journal[k], journal'[k]) \/ Concludes(k)
    /\ \A k \in Ids : \A t : tail' = <<k, t>> /\ t.state = "committed" /\ journal'[k].state = "committing" =>
         Doing(k) = "decide" \/ (tail' = tail /\ journal'[k] = journal[k])
    /\ \A k \in Ids : \A e \in Epochs :
         \/ decided'[k][e] = decided[k][e]
         \/ decided'[k][e].gen = topic.gen /\ journal'[k].state = "committing" /\ journal'[k].epoch = e

\* What of the invariant does not concern the clients.
TableInv == StateInv /\ TailInv /\ DecidedInv /\ QuietInv

\* The ids a step does not concern.
OthersKept(i) == \A k \in Ids \ {i} : Locked(k) => txns'[k] = journal'[k] /\ journal'[k] = journal[k]

\* A command that stages something of an id that no job has locked.
LEMMA StagingStep ==
    ASSUME TxnInv, CoreInv, up = "up", UNCHANGED <<up, work, topic, job, decided>>,
           NEW i \in Ids, ~Locked(i), NEW tx, TxOk(tx), Later(txns[i], tx), NEW left,
           Sync(i, tx) \/ SyncFails(i, tx, left),
           \/ left = txns[i]
           \/ left = tx /\ txns[i].state \in {"open", "committing"} /\ tx = PrepareCommit(txns[i])
    PROVE  TableInv' /\ JournalMoves /\ CoreMoves /\ OthersKept(i)
<1>1. MaySync(i, tx)
  BY DEF MaySync
<1>2. \A k \in Ids : StateOk(journal[k], txns[k]) /\ TxOk(journal[k])
  BY DEF CoreInv, StateInv, StateOk
<1>3. \A k \in Ids : Committed(decided[k], journal[k])
  BY DEF CoreInv, DecidedInv
<1>4. CASE Sync(i, tx)
  <2>1. /\ Ids' = Ids /\ tail' = << >>
        /\ \A k \in Ids : StateOk(journal'[k], txns'[k]) /\ TxOk(journal'[k])
        /\ \A k \in Ids \ {i} : journal'[k] = journal[k] /\ txns'[k] = txns[k]
        /\ \A k \in Ids : Later(journal[k], journal'[k])
    BY <1>1, <1>2, <1>4, Synced, LaterSame DEF CoreInv, StateOk
  <2>2. JournalMoves
    BY <1>2, <2>1 DEF JournalMoves, Moves
  <2>3. \A k \in Ids : Committed(decided[k], journal'[k])
    BY <1>2, <1>3, <2>1, CommittedKept
  <2>4. DecidedInv'
    BY <2>2, <2>3, DecidedSame DEF CoreInv
  <2>5. StateInv'
    BY <2>1 DEF StateInv, StateOk, Follows
  <2>6. TailInv' /\ QuietInv'
    BY <2>1 DEF TailInv, QuietInv
  <2>7. OthersKept(i)
    BY <2>1 DEF OthersKept, CoreInv, WorkInv, JobFor
  <2>8. CoreMoves
    BY <2>1 DEF CoreMoves
  <2>9. QED
    BY <2>2, <2>4, <2>5, <2>6, <2>7, <2>8 DEF TableInv
<1>5. CASE SyncFails(i, tx, left)
  <2>1. /\ Ids' = Ids /\ journal' = journal /\ tail' \in {<< >>, <<i, tx>>}
        /\ \A k \in Ids : StateOk(journal'[k], txns'[k])
        /\ \A k \in Ids \ {i} : txns'[k] = txns[k]
        /\ TailFor(journal[i], tx)
    BY <1>1, <1>5, SyncFailed DEF CoreInv
  <2>2. \A k \in Ids : Later(journal[k], journal'[k])
    BY <1>2, <2>1, LaterSame
  <2>3. JournalMoves
    BY <1>2, <2>1, <2>2 DEF JournalMoves, Moves
  <2>4. DecidedInv'
    BY <1>3, <2>1, <2>3, DecidedSame DEF CoreInv
  <2>5. StateInv'
    BY <2>1 DEF StateInv
  <2>6. Later(journal[i], tx)
    <3>1. TxOk(txns[i]) /\ Later(journal[i], txns[i])
      BY <1>2, LaterSame, Snapshots DEF StateOk, Follows
    <3>2. QED
      BY <1>2, <3>1, LaterTwice
  <2>7. TailInv'
    <3>1. Committed(decided[i], tx)
      BY <1>2, <1>3, <2>6, CommittedKept
    <3>2. QED
      BY <2>1, <3>1 DEF TailInv
  <2>8. QuietInv'
    BY <2>1 DEF QuietInv
  <2>9. OthersKept(i)
    BY <2>1 DEF OthersKept, CoreInv, WorkInv, JobFor
  <2>10. CoreMoves
    <3>1. tx.state = "committed" => journal[i].state = "committed"
      BY <1>2, <2>6, MovesOn DEF Moves
    <3>2. ASSUME NEW k \in Ids, NEW t, tail' = <<k, t>>, t.state = "committed" PROVE journal'[k].state # "committing"
      <4>1. k = i /\ t = tx
        BY <2>1, <3>2
      <4>2. QED
        BY <2>1, <3>1, <3>2, <4>1
    <3>3. QED
      BY <2>1, <2>2, <3>2 DEF CoreMoves
  <2>11. QED
    BY <2>3, <2>4, <2>5, <2>7, <2>8, <2>9, <2>10 DEF TableInv
<1>6. QED
  BY <1>4, <1>5

\* A step that leaves the table alone.
LEMMA TableSame ==
    ASSUME CoreInv, UNCHANGED <<up, work, topic, txns, journal, tail, job, decided>>
    PROVE  TableInv' /\ JournalMoves /\ CoreMoves /\ \A i : OthersKept(i)
<1>1. Ids' = Ids
  BY DEF Ids, Does
<1>2. \A k \in Ids : TxOk(journal[k]) /\ Later(journal[k], journal[k])
  BY LaterSame DEF CoreInv, StateInv, StateOk
<1>3. TableInv'
  BY <1>1 DEF TableInv, CoreInv, StateInv, TailInv, DecidedInv, QuietInv, Locked
<1>4. \A i : OthersKept(i)
  BY DEF OthersKept, CoreInv, WorkInv, JobFor
<1>5. QED
  BY <1>1, <1>2, <1>3, <1>4 DEF JournalMoves, Moves, CoreMoves

\* The rest of a command.
LEMMA Commanded ==
    ASSUME CoreInv, TableInv', JournalMoves, NEW c \in TxnClients, ~Locked(IdOf(c)), OthersKept(IdOf(c)),
           UNCHANGED <<job, decided>>, NEW r, client' = [client EXCEPT ![c] = r],
           ClientOk(r, decided[IdOf(c)], journal'[IdOf(c)]), ToldInv'
    PROVE  CoreInv'
<1>1. ClientInv'
  BY ClientSame DEF CoreInv
<1>2. \A b \in TxnClients : IdOf(b)' = IdOf(b)
  BY DEF JournalMoves, IdOf, Does
<1>3. ASSUME NEW k \in Ids, Locked(k) PROVE JobFor(k)'
  <2>1. k # IdOf(c) /\ JobFor(k)
    BY <1>3 DEF CoreInv, WorkInv
  <2>2. txns'[k] = journal'[k] /\ journal'[k] = journal[k]
    BY <1>3, <2>1 DEF OthersKept
  <2>3. job[k].by \in TxnClients => client'[job[k].by] = client[job[k].by]
    BY <2>1 DEF JobFor, CoreInv, ClientInv
  <2>4. QED
    BY <1>2, <2>1, <2>2, <2>3 DEF JobFor
<1>4. WorkInv'
  BY <1>3 DEF WorkInv, Locked, JournalMoves
<1>5. QED
  BY <1>1, <1>4 DEF CoreInv, TableInv

\* Memory differs from the journal only in a commit that could not be journaled.
LEMMA Journaled ==
    ASSUME NEW x, NEW t, StateOk(x, t)
    PROVE  TxOk(x) /\ TxOk(t) /\ Later(x, t) /\ (t.state # "committing" => t = x) /\ t.epoch = x.epoch
<1>1. PrepareCommit(x).state = "committing" /\ PrepareCommit(x).epoch = x.epoch
  <2>1. DOMAIN x = {"state", "epoch", "ready", "expired", "msgs", "offs"}
    BY IsTxFacts DEF StateOk, TxOk
  <2>2. QED
    BY <2>1 DEF PrepareCommit
<1>2. QED
  BY <1>1, LaterSame, Snapshots DEF StateOk, Follows

\* A client whose command was not answered.
LEMMA ClientStays ==
    ASSUME CoreInv, JournalMoves, NEW c \in TxnClients
    PROVE  /\ client = [client EXCEPT ![c] = client[c]]
           /\ ClientOk(client[c], decided[IdOf(c)], journal'[IdOf(c)])
<1>1. client = [client EXCEPT ![c] = client[c]]
  BY DEF CoreInv, ClientInv
<1>2. QED
  BY <1>1, IdOfIds, ClientKept DEF CoreInv, ClientInv, JournalMoves

\* The client's next state.
LEMMA ClientAt ==
    ASSUME NEW k, NEW d, NEW x, ClientOk(k, d, x), NEW a
    PROVE  LET r == [k EXCEPT !.at = a]
           IN  /\ r.at = a /\ r.epoch = k.epoch /\ r.sent = k.sent
               /\ a = "new" => ClientOk(r, d, x)
               /\ k.at \in {"open", "abort", "commit"} /\ a \in {"open", "abort", "commit"} => ClientOk(r, d, x)
               /\ k.at = "ready" /\ a = "open" /\ Used(x, k.epoch) => ClientOk(r, d, x)
<1> DEFINE r == [k EXCEPT !.at = a]
<1>1. r.at = a /\ r.epoch = k.epoch /\ r.sent = k.sent /\ DOMAIN r = {"at", "epoch", "sent"}
  BY DEF ClientOk
<1> HIDE DEF r
<1>2. /\ a = "new" => ClientOk(r, d, x)
      /\ k.at \in {"open", "abort", "commit"} /\ a \in {"open", "abort", "commit"} => ClientOk(r, d, x)
      /\ k.at = "ready" /\ a = "open" /\ Used(x, k.epoch) => ClientOk(r, d, x)
  BY <1>1 DEF ClientOk
<1>3. QED
  BY <1>1, <1>2 DEF r

\* INIT_PRODUCER_ID
LEMMA InitProducerCore ==
    ASSUME TxnInv, CoreInv, NEW c \in TxnClients, InitProducerID(c)
    PROVE  CoreInv' /\ CoreMoves
<1> DEFINE i == IdOf(c)
           tx == NewSession(txns[i])
<1>1. i \in Ids /\ StateOk(journal[i], txns[i])
  BY IdOfIds DEF CoreInv, StateInv
<1>2. TxOk(tx) /\ Later(txns[i], tx)
  BY <1>1, Snapshots, Journaled DEF InitProducerID
<1>3. /\ up = "up" /\ ~Locked(i) /\ UNCHANGED <<up, work, topic, job, decided, told>>
      /\ Sync(i, tx) \/ SyncFails(i, tx, txns[i])
  BY DEF InitProducerID, Serving, logVars
<1>4. TableInv' /\ JournalMoves /\ CoreMoves /\ OthersKept(i)
  BY <1>1, <1>2, <1>3, StagingStep
<1>5. ToldInv'
  BY <1>3, <1>4, ToldSame DEF CoreInv
<1>6. CASE UNCHANGED client
  BY <1>3, <1>4, <1>5, <1>6, ClientStays, Commanded
<1>7. CASE ~UNCHANGED client
  <2> DEFINE r == [at |-> "ready", epoch |-> tx.epoch, sent |-> {}]
  <2>1. Sync(i, tx) /\ client' = [client EXCEPT ![c] = r]
    BY <1>7 DEF InitProducerID, Answered, SetClient
  <2>2. journal'[i] = tx
    BY <1>1, <1>2, <2>1, <1>3, Synced DEF CoreInv, MaySync
  <2>3. journal'[i].epoch = tx.epoch /\ tx.epoch \in Int
    BY <1>2, <2>2, Snapshots DEF TxOk
  <2>4. r.at = "ready" /\ r.epoch = tx.epoch /\ r.sent = {} /\ DOMAIN r = {"at", "epoch", "sent"}
    OBVIOUS
  <2> HIDE DEF r, tx, i
  <2>5. ClientOk(r, decided[i], journal'[i])
    BY <2>3, <2>4, FS_EmptySet DEF ClientOk
  <2>6. QED
    BY <1>3, <1>4, <1>5, <2>1, <2>5, Commanded DEF i
<1>8. QED
  BY <1>6, <1>7

\* BEGIN_TXN
LEMMA BeginCore ==
    ASSUME TxnInv, CoreInv, NEW c \in TxnClients, BeginTxn(c)
    PROVE  CoreInv' /\ CoreMoves
<1> DEFINE i == IdOf(c)
           tx == Begin(txns[i])
<1>1. i \in Ids /\ StateOk(journal[i], txns[i])
  BY IdOfIds DEF CoreInv, StateInv
<1>2. TxOk(tx) /\ Later(txns[i], tx)
  BY <1>1, Snapshots, Journaled DEF BeginTxn
<1>3. /\ up = "up" /\ ~Locked(i) /\ UNCHANGED <<up, work, topic, job, decided, told>>
      /\ Sync(i, tx) \/ SyncFails(i, tx, txns[i])
  BY DEF BeginTxn, Serving, logVars
<1>4. TableInv' /\ JournalMoves /\ CoreMoves /\ OthersKept(i)
  BY <1>1, <1>2, <1>3, StagingStep
<1>5. ToldInv'
  BY <1>3, <1>4, ToldSame DEF CoreInv
<1>6. CASE UNCHANGED client
  BY <1>3, <1>4, <1>5, <1>6, ClientStays, Commanded
<1>7. CASE ~UNCHANGED client
  <2> DEFINE r == [client[c] EXCEPT !.at = "open"]
  <2>1. Sync(i, tx) /\ client' = [client EXCEPT ![c] = r] /\ client[c].at = "ready" /\ tx.epoch = client[c].epoch
        /\ tx.state = "open" /\ ~tx.ready
    BY <1>7 DEF BeginTxn, Answered, SetClient, Owns, Begin, NoTxn
  <2>2. journal'[i] = tx
    BY <1>1, <1>2, <2>1, <1>3, Synced DEF CoreInv, MaySync
  <2>3. Used(journal'[i], client[c].epoch)
    BY <2>1, <2>2 DEF Terminal, Used
  <2>4. ClientOk(r, decided[i], journal'[i])
    BY <1>4, <2>1, <2>3, ClientStays, ClientAt
  <2> HIDE DEF r, tx
  <2>5. QED
    BY <1>3, <1>4, <1>5, <2>1, <2>4, Commanded
<1>8. QED
  BY <1>6, <1>7

\* BEGIN_TXN of a used session, and commands that are refused.
LEMMA RefusedCore ==
    ASSUME TxnInv, CoreInv, NEW c \in TxnClients, BeginRefused(c) \/ TxnRefused(c)
    PROVE  CoreInv' /\ CoreMoves
<1> DEFINE i == IdOf(c)
           r == [client[c] EXCEPT !.at = "new"]
<1>1. /\ ~Locked(i) /\ UNCHANGED <<up, work, topic, job, txns, journal, tail, decided, told>>
      /\ client' = [client EXCEPT ![c] = r]
  BY DEF BeginRefused, TxnRefused, Serving, logVars, SetClient
<1>2. TableInv' /\ JournalMoves /\ CoreMoves /\ OthersKept(i)
  BY <1>1, TableSame
<1>3. ToldInv'
  BY <1>1, <1>2, ToldSame DEF CoreInv
<1>4. ClientOk(r, decided[i], journal'[i])
  BY <1>2, ClientStays, ClientAt
<1> HIDE DEF r
<1>5. QED
  BY <1>1, <1>2, <1>3, <1>4, Commanded

\* TXN_PUBLISH
LEMMA TxnPublishCore ==
    ASSUME TxnInv, CoreInv, NEW c \in TxnClients, NEW p \in Partitions, TxnPublish(c, p)
    PROVE  CoreInv' /\ CoreMoves
<1> DEFINE i == IdOf(c)
           k == client[c]
           seq == 1 + Cardinality({m \in k.sent : m[1] = p})
           x == <<p, seq>>
           tx == AddMessage(txns[i], x)
<1>1. i \in Ids /\ StateOk(journal[i], txns[i])
  BY IdOfIds DEF CoreInv, StateInv
<1>2. ClientOk(k, decided[i], journal[i])
  BY DEF CoreInv, ClientInv
<1>3. x \in Numbered
  <2>1. IsFiniteSet({m \in k.sent : m[1] = p})
    BY <1>2, FS_Subset DEF ClientOk
  <2>2. seq \in Nat \ {0}
    BY <2>1, FS_CardinalityType
  <2>3. QED
    BY <2>2 DEF Numbered
<1>4. /\ up = "up" /\ ~Locked(i) /\ UNCHANGED <<up, work, topic, job, decided, told>>
      /\ Sync(i, tx) \/ SyncFails(i, tx, txns[i])
      /\ txns[i].state = "open" /\ k.at = "open" /\ txns[i].epoch = k.epoch
      /\ \/ UNCHANGED client
         \/ Sync(i, tx) /\ client' = [client EXCEPT ![c] = [k EXCEPT !.sent = @ \cup {x}]]
  BY DEF TxnPublish, Serving, logVars, Owns, Answered, SetClient
<1> HIDE DEF x, seq
<1>5. TxOk(tx) /\ Later(txns[i], tx)
  BY <1>1, <1>3, <1>4, Snapshots, Journaled
<1>6. TableInv' /\ JournalMoves /\ CoreMoves /\ OthersKept(i)
  BY <1>1, <1>4, <1>5, StagingStep
<1>7. ToldInv'
  BY <1>4, <1>6, ToldSame DEF CoreInv
<1>8. CASE UNCHANGED client
  BY <1>4, <1>6, <1>7, <1>8, ClientStays, Commanded
<1>9. CASE Sync(i, tx) /\ client' = [client EXCEPT ![c] = [k EXCEPT !.sent = @ \cup {x}]]
  <2> DEFINE r == [k EXCEPT !.sent = @ \cup {x}]
  <2>1. journal'[i] = tx
    BY <1>1, <1>4, <1>5, <1>9, Synced DEF CoreInv, MaySync
  <2>2. txns[i] = journal[i] /\ txns[i].msgs \in Seq(Numbered) /\ DOMAIN txns[i] = {"state", "epoch", "ready", "expired", "msgs", "offs"}
    BY <1>1, <1>4, Journaled, IsTxFacts DEF TxOk
  <2>3. tx.state = "open" /\ tx.epoch = k.epoch /\ tx.msgs = Append(txns[i].msgs, x)
    BY <1>4, <2>2 DEF AddMessage
  <2>4. journal'[i] = tx
    BY <2>1, <2>3 DEF Terminal
  <2>5. Range(tx.msgs) = Range(txns[i].msgs) \cup {x}
    <3> DEFINE s == txns[i].msgs
    <3>1. s \in Seq(Numbered) /\ Append(s, x) \in Seq(Numbered)
      <4> HIDE DEF Numbered, s
      <4>1. s \in Seq(Numbered)
        BY <2>2 DEF s
      <4>2. QED
        BY <1>3, <4>1
    <3> HIDE DEF s, Numbered
    <3>2. /\ DOMAIN s = 1 .. Len(s) /\ DOMAIN Append(s, x) = 1 .. Len(s) + 1 /\ Len(s) \in Nat
          /\ \A n \in 1 .. Len(s) : Append(s, x)[n] = s[n]
          /\ Append(s, x)[Len(s) + 1] = x
      BY <3>1
    <3>3. \A n \in 1 .. Len(s) + 1 : n \in 1 .. Len(s) \/ n = Len(s) + 1
      BY <3>2
    <3>4. \A y : y \in Range(Append(s, x)) <=> y \in Range(s) \cup {x}
      BY <3>2, <3>3 DEF Range
    <3>5. Range(Append(s, x)) = Range(s) \cup {x}
      BY <3>4
    <3>6. QED
      BY <2>3, <3>5 DEF s
  <2>6. k.sent \subseteq Range(txns[i].msgs)
    BY <1>2, <1>4, <2>2 DEF ClientOk
  <2>7. k.epoch \in Epochs => decided[i][k.epoch].gen = 0
    BY <1>1, <1>4, <2>2 DEF CoreInv, DecidedInv, DecidedOk, Past, TxOk, StateOk
  <2>8. r.at = "open" /\ r.epoch = k.epoch /\ r.sent = k.sent \cup {x} /\ DOMAIN r = {"at", "epoch", "sent"}
    BY <1>2, <1>4 DEF ClientOk
  <2> HIDE DEF r, tx
  <2>9. IsFiniteSet(r.sent) /\ r.sent \subseteq Numbered
    BY <1>2, <1>3, <2>8, FS_AddElement DEF ClientOk
  <2>10. ~tx.ready
    BY <1>5, <2>3 DEF TxOk
  <2>11. ClientOk(r, decided[i], tx)
    BY <1>2, <2>3, <2>5, <2>6, <2>7, <2>8, <2>9, <2>10 DEF ClientOk, Used
  <2>12. QED
    BY <1>4, <1>6, <1>7, <1>9, <2>4, <2>11, Commanded DEF r
<1>10. QED
  BY <1>4, <1>8, <1>9

\* SEND_OFFSETS_TO_TXN
LEMMA SendOffsetsCore ==
    ASSUME TxnInv, CoreInv, NEW c \in TxnClients, SendOffsets(c)
    PROVE  CoreInv' /\ CoreMoves
<1> DEFINE i == IdOf(c)
           tx == AddOffsets(txns[i], group.gen)
<1>1. i \in Ids /\ StateOk(journal[i], txns[i])
  BY IdOfIds DEF CoreInv, StateInv
<1>2. /\ up = "up" /\ ~Locked(i) /\ UNCHANGED <<up, work, topic, job, decided, told, client>>
      /\ Sync(i, tx) \/ SyncFails(i, tx, txns[i])
      /\ txns[i].state = "open"
  BY DEF SendOffsets, Serving, logVars
<1>3. TxOk(tx) /\ Later(txns[i], tx)
  BY <1>1, <1>2, Snapshots, Journaled
<1>4. TableInv' /\ JournalMoves /\ CoreMoves /\ OthersKept(i)
  BY <1>1, <1>2, <1>3, StagingStep
<1>5. ToldInv'
  BY <1>2, <1>4, ToldSame DEF CoreInv
<1>6. QED
  BY <1>2, <1>4, <1>5, ClientStays, Commanded

\* END_TXN result=abort
LEMMA EndTxnAbortCore ==
    ASSUME TxnInv, CoreInv, NEW c \in TxnClients, EndTxnAbort(c)
    PROVE  CoreInv' /\ CoreMoves
<1> DEFINE i == IdOf(c)
           k == client[c]
           tx == IF MayAbort(txns[i]) THEN BuildAborted(txns[i]) ELSE txns[i]
           new == [k EXCEPT !.at = "new"]
           again == [k EXCEPT !.at = "abort"]
<1>1. i \in Ids /\ StateOk(journal[i], txns[i]) /\ ClientOk(k, decided[i], journal[i])
  BY IdOfIds DEF CoreInv, StateInv, ClientInv
<1>2. /\ up = "up" /\ ~Locked(i) /\ UNCHANGED <<up, work, topic, job, decided>>
      /\ k.at \in {"open", "abort", "commit"} /\ txns[i].epoch = k.epoch /\ tx.state = "aborted"
      /\ \/ MayAbort(txns[i]) /\ Sync(i, tx) /\ (client' = [client EXCEPT ![c] = new] \/ UNCHANGED client)
         \/ MayAbort(txns[i]) /\ SyncFails(i, tx, txns[i]) /\ client' = [client EXCEPT ![c] = again]
         \/ ~MayAbort(txns[i]) /\ UNCHANGED <<txns, journal, tail>> /\ client' = [client EXCEPT ![c] = new]
      /\ IF client'[c].at = "new" THEN Tell(c, "aborted") ELSE UNCHANGED told
  BY DEF EndTxnAbort, Serving, logVars, Owns, Answered, SetClient
<1>3. MayAbort(txns[i]) => TxOk(tx) /\ Later(txns[i], tx)
  BY <1>1, Snapshots, Journaled DEF MayAbort
<1>4. TableInv' /\ JournalMoves /\ CoreMoves /\ OthersKept(i)
  BY <1>1, <1>2, <1>3, StagingStep, TableSame
<1>5. TxOk(txns[i]) /\ txns[i].state \in {"open", "aborted"}
  BY <1>1, <1>2, Journaled DEF MayAbort
<1>6. txns[i] = journal[i]
  BY <1>5, <1>1, Journaled
<1>7. k.epoch \in Epochs => decided[i][k.epoch].gen = 0
  BY <1>1, <1>2, <1>5, <1>6 DEF CoreInv, DecidedInv, DecidedOk, Past, TxOk, StateOk
<1>8. ClientOk(new, decided[i], journal'[i]) /\ ClientOk(again, decided[i], journal'[i])
      /\ ClientOk(k, decided[i], journal'[i]) /\ client = [client EXCEPT ![c] = k]
  BY <1>2, <1>4, ClientStays, ClientAt
<1>9. new.at = "new" /\ again.at = "abort" /\ k.at # "new" /\ client = [b \in TxnClients |-> client[b]]
  BY <1>1, <1>2 DEF ClientOk, CoreInv, ClientInv
<1>10. client'[c].at = "new" => Dead(journal'[i], k.epoch)
  <2>1. CASE MayAbort(txns[i]) /\ Sync(i, tx)
    <3>1. journal'[i] = tx
      BY <1>1, <1>2, <1>3, <2>1, Synced DEF CoreInv, MaySync
    <3>2. tx.state = "aborted" /\ tx.epoch = k.epoch /\ ~tx.ready
      <4>1. /\ txns[i].state = "open" /\ ~txns[i].ready /\ tx = BuildAborted(txns[i])
            /\ DOMAIN txns[i] = {"state", "epoch", "ready", "expired", "msgs", "offs"}
        BY <1>5, <2>1, IsTxFacts DEF MayAbort, TxOk
      <4>2. QED
        BY <1>2, <4>1 DEF BuildAborted
    <3>3. journal'[i].state = "aborted" /\ journal'[i].epoch = k.epoch
      BY <1>3, <2>1, <3>1, <3>2, Snapshots
    <3>4. ~journal'[i].ready
      BY <1>3, <2>1, <3>1, <3>2, IsTxFacts DEF Tombstone, TxOk
    <3>5. QED
      BY <3>3, <3>4 DEF Dead
  <2>2. CASE MayAbort(txns[i]) /\ SyncFails(i, tx, txns[i]) /\ client' = [client EXCEPT ![c] = again]
    BY <1>9, <2>2
  <2>3. CASE ~MayAbort(txns[i]) /\ UNCHANGED <<txns, journal, tail>>
    <3>1. Used(journal[i], k.epoch)
      BY <1>1, <1>2 DEF ClientOk
    <3>2. QED
      BY <1>2, <1>5, <1>6, <2>3, <3>1 DEF Used, Dead, TxOk
  <2>4. QED
    BY <1>2, <2>1, <2>2, <2>3
<1>11. ToldInv'
  <2>1. CASE client'[c].at = "new"
    BY <1>2, <1>4, <1>7, <1>10, <2>1, ToldOne DEF CoreInv
  <2>2. CASE client'[c].at # "new"
    BY <1>2, <1>4, <2>2, ToldSame DEF CoreInv
  <2>3. QED
    BY <2>1, <2>2
<1> HIDE DEF new, again, tx
<1>12. QED
  BY <1>2, <1>4, <1>8, <1>11, Commanded

\* END_TXN result=commit, retried after the outcome was recorded.
LEMMA EndTxnCommittedCore ==
    ASSUME TxnInv, CoreInv, NEW c \in TxnClients, EndTxnCommitted(c)
    PROVE  CoreInv' /\ CoreMoves
<1> DEFINE i == IdOf(c)
           k == client[c]
           r == [k EXCEPT !.at = "new"]
<1>1. i \in Ids /\ StateOk(journal[i], txns[i]) /\ ClientOk(k, decided[i], journal[i])
  BY IdOfIds DEF CoreInv, StateInv, ClientInv
<1>2. /\ ~Locked(i) /\ UNCHANGED <<up, work, topic, job, txns, journal, tail, decided>>
      /\ client' = [client EXCEPT ![c] = r] /\ Tell(c, "committed")
      /\ k.at = "commit" /\ txns[i].epoch = k.epoch /\ txns[i].state = "committed"
  BY DEF EndTxnCommitted, Serving, logVars, SetClient, Owns
<1>3. TableInv' /\ JournalMoves /\ CoreMoves /\ OthersKept(i)
  BY <1>2, TableSame
<1>4. txns[i] = journal[i]
  BY <1>1, <1>2, Journaled
<1>5. decided[i][k.epoch].gen # 0 /\ k.epoch \in Epochs
  BY <1>1, <1>2, <1>4 DEF CoreInv, DecidedInv, Committed
<1>6. k.sent \subseteq decided[i][k.epoch].msgs /\ Finished(journal'[i], k.epoch)
  BY <1>1, <1>2, <1>4, <1>5 DEF ClientOk, Finished
<1>7. ToldInv'
  BY <1>2, <1>3, <1>5, <1>6, ToldOne DEF CoreInv
<1>8. ClientOk(r, decided[i], journal'[i])
  BY <1>3, ClientStays, ClientAt
<1> HIDE DEF r
<1>9. QED
  BY <1>2, <1>3, <1>7, <1>8, Commanded

\* END_TXN result=commit
LEMMA EndTxnCommitCore ==
    ASSUME TxnInv, TopicOk, CoreInv, NEW c \in TxnClients, EndTxnCommit(c)
    PROVE  CoreInv' /\ CoreMoves
<1> DEFINE i == IdOf(c)
           k == client[c]
           tx == PrepareCommit(txns[i])
           r == [k EXCEPT !.at = "commit"]
<1>1. i \in Ids /\ StateOk(journal[i], txns[i]) /\ ClientOk(k, decided[i], journal[i]) /\ TxOk(txns[i])
  BY IdOfIds, Journaled DEF CoreInv, StateInv, ClientInv
<1>2. /\ up = "up" /\ ~Locked(i) /\ UNCHANGED <<up, work, topic, told>>
      /\ k.at \in {"open", "commit"} /\ txns[i].epoch = k.epoch /\ txns[i].state \in {"open", "committing"}
      /\ client' = [client EXCEPT ![c] = r]
      /\ (Sync(i, tx) /\ Prepared(i, tx, c)) \/ (SyncFails(i, tx, tx) /\ UNCHANGED <<job, decided>>)
  BY DEF EndTxnCommit, MayCommit, Serving, logVars, Owns, SetClient
<1>3. TxOk(tx) /\ Later(txns[i], tx)
  BY <1>1, <1>2, Snapshots
<1>4. tx.state = "committing" /\ tx.epoch = k.epoch
  BY <1>1, <1>2, IsTxFacts DEF PrepareCommit, TxOk
<1> HIDE DEF r, tx
<1>5. ASSUME NEW d, NEW x, ClientOk(k, d, x) PROVE ClientOk(r, d, x) /\ r.epoch = k.epoch
  BY <1>2, <1>5, ClientAt DEF r
<1>6. CASE SyncFails(i, tx, tx) /\ UNCHANGED <<job, decided>>
  <2>1. TableInv' /\ JournalMoves /\ CoreMoves /\ OthersKept(i)
    BY <1>1, <1>2, <1>3, <1>6, StagingStep DEF tx
  <2>2. ToldInv'
    BY <1>2, <1>6, <2>1, ToldSame DEF CoreInv
  <2>3. ClientOk(r, decided[i], journal'[i])
    BY <1>5, <2>1, ClientStays
  <2>4. QED
    BY <1>2, <1>6, <2>1, <2>2, <2>3, Commanded
<1>7. CASE Sync(i, tx) /\ Prepared(i, tx, c)
  <2>1. /\ Ids' = Ids /\ tail' = << >>
        /\ \A n \in Ids : StateOk(journal'[n], txns'[n]) /\ TxOk(journal'[n])
        /\ journal'[i] = tx /\ txns'[i] = tx
        /\ \A n \in Ids \ {i} : journal'[n] = journal[n] /\ txns'[n] = txns[n]
        /\ \A n \in Ids : Later(journal[n], journal'[n])
    BY <1>1, <1>2, <1>3, <1>7, Synced, LaterSame DEF CoreInv, MaySync, StateInv, StateOk
  <2>2. journal'[i] = tx
    BY <2>1
  <2>3. JournalMoves
    BY <1>2, <2>1 DEF JournalMoves, Moves, CoreInv, StateInv, StateOk
  <2>4. \A n \in Ids : Committed(decided[n], journal'[n])
    BY <2>1, CommittedKept DEF CoreInv, DecidedInv, StateInv, StateOk
  <2>5. /\ DecidedInv' /\ ToldInv'
        /\ \A b \in TxnClients : ClientOk(client[b], decided'[IdOf(b)], journal'[IdOf(b)])
        /\ tx.epoch \in Epochs /\ decided'[i][tx.epoch].gen = topic.gen
        /\ \A n \in Ids : \A e \in Epochs :
             decided'[n][e] = decided[n][e] \/ (n = i /\ e = tx.epoch /\ decided'[n][e].gen = topic.gen)
    BY <1>1, <1>2, <1>4, <1>7, <2>2, <2>3, <2>4, PreparedOk DEF CoreInv, TopicOk
  <2>6. \A b \in TxnClients : IdOf(b)' = IdOf(b)
    BY <1>2 DEF IdOf, Does
  <2>7. client' = [b \in TxnClients |-> IF b = c THEN r ELSE client[b]]
    BY <1>2 DEF CoreInv, ClientInv
  <2>8. ClientInv'
    <3>1. \A b \in TxnClients : ClientOk(client'[b], decided'[IdOf(b)], journal'[IdOf(b)])
      BY <1>5, <2>5, <2>7
    <3>2. client' = [b \in TxnClients |-> client'[b]]
      BY <2>7
    <3>3. QED
      BY <2>6, <3>1, <3>2 DEF ClientInv
  <2>9. StateInv' /\ TailInv' /\ QuietInv'
    BY <1>2, <2>1 DEF StateInv, StateOk, Follows, TailInv, QuietInv
  <2>10. job' = [n \in Ids |-> IF n = i THEN [todo |-> Todo(i, tx), by |-> c] ELSE job[n]]
    BY <1>7 DEF Prepared, SetJob, TxnInv, JobsOk
  <2>11. WorkInv'
    <3>1. ASSUME NEW n \in Ids \ {i}, job'[n] # NoJob PROVE JobFor(n)'
      <4>1. job'[n] = job[n] /\ JobFor(n)
        BY <2>10, <3>1 DEF CoreInv, WorkInv, Locked
      <4>2. journal'[n] = journal[n] /\ txns'[n] = journal'[n]
        BY <2>1, <4>1 DEF JobFor
      <4>3. decided'[n][journal[n].epoch] = decided[n][journal[n].epoch]
        BY <2>5, <4>1 DEF JobFor
      <4>4. job[n].by \in TxnClients => job[n].by # c /\ client'[job[n].by] = client[job[n].by]
        BY <2>7, <4>1 DEF JobFor
      <4>5. QED
        BY <2>6, <4>1, <4>2, <4>3, <4>4 DEF JobFor
    <3>2. ASSUME NEW n \in Ids, n = i PROVE JobFor(n)'
      <4>1. job'[i].by = c
        BY <1>1, <2>10
      <4>2. client'[c].epoch = tx.epoch
        BY <1>1, <1>4, <1>5, <2>7
      <4>3. topic.gen # 0
        BY DEF TopicOk
      <4>4. QED
        BY <1>1, <1>4, <2>1, <2>2, <2>5, <2>6, <3>2, <4>1, <4>2, <4>3 DEF JobFor
    <3>3. QED
      BY <2>1, <3>1, <3>2 DEF WorkInv, Locked
  <2>12. CoreMoves
    BY <1>2, <1>4, <2>1, <2>2, <2>5 DEF CoreMoves
  <2>13. QED
    BY <2>5, <2>8, <2>9, <2>11, <2>12 DEF CoreInv
<1>8. QED
  BY <1>2, <1>6, <1>7

\* Every command of a transactional producer.
LEMMA CommandCore ==
    ASSUME TxnInv, TopicOk, CoreInv, TxnCommand \/ Rebalance
    PROVE  CoreInv' /\ CoreMoves
<1>1. CASE TxnCommand
  BY <1>1, InitProducerCore, BeginCore, RefusedCore, TxnPublishCore, SendOffsetsCore, EndTxnAbortCore,
     EndTxnCommitCore, EndTxnCommittedCore DEF TxnCommand
<1>2. CASE Rebalance
  <2>1. UNCHANGED <<up, work, topic, txns, journal, tail, job, client, told, decided>>
    BY <1>2 DEF Rebalance, logVars
  <2>2. TableInv' /\ JournalMoves /\ CoreMoves /\ \A i : OthersKept(i)
    BY <2>1, TableSame
  <2>3. \A b \in TxnClients : IdOf(b)' = IdOf(b)
    BY <2>1 DEF IdOf, Does
  <2>4. ClientInv' /\ WorkInv' /\ ToldInv'
    BY <2>1, <2>2, <2>3 DEF CoreInv, ClientInv, WorkInv, ToldInv, JobFor, Locked, JournalMoves
  <2>5. QED
    BY <2>2, <2>4 DEF CoreInv, TableInv
<1>3. QED
  BY <1>1, <1>2

\* Steps that leave the transactions alone, on a broker that does not stop or is killed.
LEMMA CoreFrame ==
    ASSUME CoreInv, UNCHANGED <<work, txns, journal, tail, job, client, told, decided>>,
           (up' = up /\ topic' = topic) \/ up' \in {"up", "killed"}
    PROVE  CoreInv' /\ CoreMoves
<1>1. Ids' = Ids /\ \A b : IdOf(b)' = IdOf(b)
  BY DEF Ids, IdOf, Does
<1>2. \A k \in Ids : Later(journal[k], journal[k])
  BY LaterSame DEF CoreInv, StateInv, StateOk
<1>3. QuietInv'
  BY <1>1 DEF CoreInv, QuietInv, Locked
<1>4. StateInv' /\ TailInv' /\ DecidedInv'
  BY <1>1 DEF CoreInv, StateInv, TailInv, DecidedInv
<1>5. ClientInv' /\ ToldInv' /\ WorkInv'
  BY <1>1 DEF CoreInv, ClientInv, ToldInv, WorkInv, Locked, JobFor
<1>6. CoreMoves
  BY <1>1, <1>2 DEF CoreMoves
<1>7. QED
  BY <1>3, <1>4, <1>5, <1>6 DEF CoreInv

\* A job that goes on or is given up.
LEMMA JobCore ==
    ASSUME TxnInv, CoreInv, UNCHANGED <<up, work, topic, txns, journal, tail, client, told, decided>>,
           NEW i \in Ids, Locked(i), Advance(i) \/ GiveUpJob(i)
    PROVE  CoreInv' /\ CoreMoves
<1>1. TableInv' /\ JournalMoves /\ CoreMoves
  <2>1. Ids' = Ids
    BY DEF Ids, Does
  <2>2. \A k \in Ids : TxOk(journal[k]) /\ Later(journal[k], journal[k])
    BY LaterSame DEF CoreInv, StateInv, StateOk
  <2>3. QuietInv'
    BY <2>1 DEF CoreInv, QuietInv, Locked
  <2>4. StateInv' /\ TailInv' /\ DecidedInv'
    BY <2>1 DEF CoreInv, StateInv, TailInv, DecidedInv
  <2>5. QED
    BY <2>1, <2>2, <2>3, <2>4 DEF TableInv, JournalMoves, CoreMoves, Moves
<1>2. \A b : IdOf(b)' = IdOf(b)
  BY DEF IdOf, Does
<1>3. \A k \in Ids : job'[k] = NoJob \/ (Locked(k) /\ job'[k].by = job[k].by)
  <2>1. job = [k \in Ids |-> job[k]] /\ \A k \in Ids : DOMAIN job[k] = {"todo", "by"}
    BY DEF TxnInv, JobsOk, JobOk
  <2>2. CASE GiveUpJob(i)
    BY <2>1, <2>2 DEF GiveUpJob, SetJob, Locked
  <2>3. CASE Advance(i)
    <3> DEFINE j == [job[i] EXCEPT !.todo = Tail(@)]
    <3>1. j.by = job[i].by
      BY <2>1
    <3> HIDE DEF j
    <3>2. job' = [k \in Ids |-> IF k = i THEN j ELSE job[k]]
      BY <2>1, <2>3 DEF Advance, SetJob, j
    <3>3. QED
      BY <3>1, <3>2 DEF Locked
  <2>4. QED
    BY <2>2, <2>3
<1>4. ASSUME NEW k \in Ids, job'[k] # NoJob PROVE JobFor(k)'
  <2>1. JobFor(k) /\ job'[k].by = job[k].by
    BY <1>3, <1>4 DEF CoreInv, WorkInv
  <2>2. QED
    BY <1>2, <2>1 DEF JobFor
<1>5. WorkInv'
  BY <1>1, <1>4 DEF WorkInv, Locked, JournalMoves
<1>6. ClientInv' /\ ToldInv'
  BY <1>1, <1>2 DEF CoreInv, ClientInv, ToldInv, JournalMoves
<1>7. QED
  BY <1>1, <1>5, <1>6 DEF CoreInv, TableInv

\* commitTransactionDecision
LEMMA DecideCore ==
    ASSUME TxnInv, CoreInv, NEW i \in Ids, DecideCommitted(i)
    PROVE  CoreInv' /\ CoreMoves
<1> DEFINE tx == BuildCommitted(txns[i])
           c == job[i].by
           k == client[c]
           r == [k EXCEPT !.at = "new"]
<1>1. /\ Doing(i) = "decide" /\ Locked(i) /\ job' = [job EXCEPT ![i] = NoJob]
      /\ UNCHANGED <<up, work, topic, decided>>
      /\ Sync(i, tx) \/ SyncFails(i, tx, txns[i])
      /\ \/ UNCHANGED <<client, told>>
         \/ /\ Sync(i, tx) /\ c \in TxnClients /\ k.at = "commit"
            /\ client' = [client EXCEPT ![c] = r] \/ UNCHANGED client
            /\ IF client'[c].at = "new" THEN Tell(c, "committed") ELSE UNCHANGED told
  BY DEF DecideCommitted, GiveUpJob, SetJob, Doing, logVars, Answered, SetClient, None
<1>2. JobFor(i) /\ StateOk(journal[i], txns[i]) /\ TxOk(txns[i])
  BY <1>1, Journaled DEF CoreInv, WorkInv, StateInv
<1>3. TxOk(tx) /\ tx.state = "committed" /\ tx.epoch = txns[i].epoch
  <2>1. TxOk(tx) /\ DOMAIN txns[i] = {"state", "epoch", "ready", "expired", "msgs", "offs"}
    BY <1>2, Snapshots, IsTxFacts DEF JobFor, TxOk
  <2>2. QED
    BY <2>1 DEF BuildCommitted
<1>4. MaySync(i, tx)
  BY <1>2, <1>3 DEF MaySync, JobFor
<1>5. Committed(decided[i], tx)
  BY <1>2, <1>3 DEF Committed, JobFor
<1>6. \A n \in Ids : TxOk(journal[n]) /\ Committed(decided[n], journal[n]) /\ Later(journal[n], journal[n])
  BY LaterSame DEF CoreInv, StateInv, StateOk, DecidedInv
<1>7. up \notin {"down"} /\ ~(up = "recover" /\ topic.fenced)
  BY <1>1 DEF CoreInv, QuietInv
<1>8. Ids' = Ids /\ \A b : IdOf(b)' = IdOf(b)
  BY <1>1 DEF Ids, IdOf, Does
<1>9. job' = [n \in Ids |-> IF n = i THEN NoJob ELSE job[n]]
  BY <1>1 DEF TxnInv, JobsOk
<1>10. /\ JournalMoves /\ StateInv' /\ TailInv' /\ QuietInv' /\ OthersKept(i) /\ CoreMoves
       /\ \A n \in Ids : Committed(decided[n], journal'[n])
       /\ Sync(i, tx) => Finished(journal'[i], journal[i].epoch)
  <2>1. CASE Sync(i, tx)
    <3>1. /\ tail' = << >>
          /\ \A n \in Ids : StateOk(journal'[n], txns'[n]) /\ TxOk(journal'[n])
          /\ journal'[i] = tx /\ txns'[i] = tx
          /\ \A n \in Ids \ {i} : /\ Later(journal[n], journal'[n])
                                  /\ journal'[n] = journal[n] /\ txns'[n] = txns[n]
          /\ Moves(journal[i], journal'[i])
      BY <1>1, <1>4, <1>6, <2>1, Synced DEF CoreInv, StateOk
    <3>2. journal'[i].state = "committed" /\ journal'[i].epoch = journal[i].epoch
      BY <1>2, <1>3, <3>1, Snapshots DEF JobFor
    <3>3. \A n \in Ids : Committed(decided[n], journal'[n])
      <4>1. Committed(decided[i], journal'[i])
        BY <1>2, <3>2 DEF Committed, JobFor
      <4>2. \A n \in Ids \ {i} : Committed(decided[n], journal'[n])
        BY <1>6, <3>1, CommittedKept
      <4>3. QED
        BY <4>1, <4>2
    <3>4. JournalMoves
      BY <1>1, <1>6, <1>8, <3>1 DEF JournalMoves, Moves
    <3>5. StateInv' /\ TailInv'
      BY <1>8, <3>1 DEF StateInv, StateOk, Follows, TailInv
    <3>6. QuietInv'
      BY <1>1, <1>7, <1>8, <3>1 DEF QuietInv, CoreInv
    <3>7. OthersKept(i)
      BY <3>1 DEF OthersKept, CoreInv, WorkInv, JobFor
    <3>8. CoreMoves
      <4>1. Concludes(i)
        BY <1>1, <1>2, <3>2 DEF Concludes, JobFor
      <4>2. QED
        BY <1>1, <1>8, <3>1, <4>1 DEF CoreMoves
    <3>9. Finished(journal'[i], journal[i].epoch)
      BY <3>2 DEF Finished
    <3>10. QED
      BY <3>3, <3>4, <3>5, <3>6, <3>7, <3>8, <3>9
  <2>2. CASE SyncFails(i, tx, txns[i]) /\ ~Sync(i, tx)
    <3>1. /\ journal' = journal /\ tail' \in {<< >>, <<i, tx>>}
          /\ \A n \in Ids : StateOk(journal'[n], txns'[n])
          /\ \A n \in Ids : txns'[n] = txns[n]
          /\ TailFor(journal[i], tx)
      BY <1>1, <1>4, <2>2, SyncFailed DEF CoreInv
    <3>2. JournalMoves
      BY <1>1, <1>6, <1>8, <3>1 DEF JournalMoves, Moves
    <3>3. StateInv'
      BY <1>8, <3>1 DEF StateInv
    <3>4. TailInv'
      BY <1>1, <1>5, <1>8, <3>1 DEF TailInv
    <3>5. QuietInv'
      BY <1>1, <1>7, <1>8, <3>1 DEF QuietInv, CoreInv
    <3>6. OthersKept(i)
      BY <3>1 DEF OthersKept, CoreInv, WorkInv, JobFor
    <3>7. CoreMoves
      <4>1. ASSUME NEW n \in Ids, NEW t, tail' = <<n, t>> PROVE Doing(n) = "decide"
        <5>1. n = i
          BY <3>1, <4>1
        <5>2. QED
          BY <1>1, <5>1
      <4>2. QED
        BY <1>1, <1>6, <1>8, <3>1, <4>1 DEF CoreMoves
    <3>8. QED
      BY <1>6, <2>2, <3>1, <3>2, <3>3, <3>4, <3>5, <3>6, <3>7
  <2>3. QED
    BY <1>1, <2>1, <2>2
<1>11. DecidedInv'
  BY <1>1, <1>10, DecidedSame DEF CoreInv
<1>12. c \in TxnClients => /\ client = [client EXCEPT ![c] = k] /\ ClientOk(k, decided[IdOf(c)], journal'[IdOf(c)])
                           /\ ClientOk(r, decided[IdOf(c)], journal'[IdOf(c)])
  BY <1>10, ClientStays, ClientAt
<1>13. ClientInv'
  <2>1. CASE UNCHANGED client
    <3>1. client' = [client EXCEPT ![c] = client[c]]
      BY <2>1 DEF CoreInv, ClientInv
    <3>2. QED
      BY <1>1, <1>10, <1>12, <3>1, ClientSame DEF CoreInv
  <2>2. CASE client' = [client EXCEPT ![c] = r]
    <3> HIDE DEF r
    <3>1. QED
      BY <1>1, <1>10, <1>12, <2>2, ClientSame DEF CoreInv
  <2>3. QED
    BY <1>1, <2>1, <2>2
<1>14. ToldInv'
  <2>1. CASE UNCHANGED told
    BY <1>1, <1>10, <2>1, ToldSame DEF CoreInv
  <2>2. CASE ~UNCHANGED told
    <3>1. Sync(i, tx) /\ c \in TxnClients /\ k.at = "commit" /\ Tell(c, "committed")
      BY <1>1, <2>2
    <3>2. IdOf(c) = i /\ k.epoch = journal[i].epoch /\ decided[i][k.epoch].gen # 0
      BY <1>2, <3>1 DEF JobFor
    <3>3. ClientOk(k, decided[i], journal[i])
      BY <3>1, <3>2 DEF CoreInv, ClientInv
    <3>4. k.epoch \in Epochs => k.sent \subseteq decided[i][k.epoch].msgs /\ Finished(journal'[i], k.epoch)
      BY <1>10, <3>1, <3>2, <3>3 DEF ClientOk
    <3>5. QED
      BY <1>1, <1>10, <3>1, <3>2, <3>4, ToldOne DEF CoreInv
  <2>3. QED
    BY <2>1, <2>2
<1>15. WorkInv'
  <2>1. ASSUME NEW n \in Ids, job'[n] # NoJob PROVE JobFor(n)'
    <3>1. n # i /\ job'[n] = job[n] /\ JobFor(n) /\ Locked(n)
      BY <1>9, <2>1 DEF CoreInv, WorkInv, Locked
    <3>2. txns'[n] = journal'[n] /\ journal'[n] = journal[n]
      BY <1>10, <3>1 DEF OthersKept
    <3>3. job[n].by \in TxnClients => client'[job[n].by] = client[job[n].by]
      <4>1. ASSUME job[n].by \in TxnClients, c \in TxnClients PROVE job[n].by # c
        BY <1>2, <3>1, <4>1 DEF JobFor
      <4>2. client = [b \in TxnClients |-> client[b]]
        BY DEF CoreInv, ClientInv
      <4> HIDE DEF r, c
      <4>3. CASE client' = [client EXCEPT ![c] = r] /\ c \in TxnClients
        BY <4>1, <4>2, <4>3
      <4>4. CASE UNCHANGED client
        BY <4>4
      <4>5. QED
        BY <1>1, <4>3, <4>4 DEF c
    <3>4. QED
      BY <1>1, <1>8, <3>1, <3>2, <3>3 DEF JobFor
  <2>2. QED
    BY <1>8, <2>1 DEF WorkInv, Locked
<1>16. QED
  BY <1>10, <1>11, <1>13, <1>14, <1>15 DEF CoreInv

\* RecoverPreparedTransactions
LEMMA RecoverCore ==
    ASSUME TxnInv, TopicOk, CoreInv, NEW i \in Ids, RecoverTransaction(i)
    PROVE  CoreInv' /\ CoreMoves
<1> DEFINE tx == txns[i]
<1>1. /\ up = "recover" /\ ~topic.fenced /\ tx.state = "committing" /\ Prepared(i, tx, Recovery)
      /\ UNCHANGED <<up, work, topic, txns, journal, tail, client, told>>
  BY DEF RecoverTransaction, logVars
<1>2. \A n \in Ids : TxOk(journal[n]) /\ Committed(decided[n], journal[n]) /\ Later(journal[n], journal[n])
  BY LaterSame DEF CoreInv, StateInv, StateOk, DecidedInv
<1>3. Ids' = Ids /\ \A b : IdOf(b)' = IdOf(b)
  BY <1>1 DEF Ids, IdOf, Does
<1>4. JournalMoves
  BY <1>1, <1>2, <1>3 DEF JournalMoves, Moves
<1>5. journal'[i] = tx
  BY <1>1 DEF CoreInv, QuietInv
<1>6. topic.gen \in Nat \ {0}
  BY DEF TopicOk
<1>7. /\ DecidedInv' /\ ToldInv'
      /\ \A b \in TxnClients : ClientOk(client[b], decided'[IdOf(b)], journal'[IdOf(b)])
      /\ tx.epoch \in Epochs /\ decided'[i][tx.epoch].gen = topic.gen
      /\ \A n \in Ids : \A e \in Epochs :
           decided'[n][e] = decided[n][e] \/ (n = i /\ e = tx.epoch /\ decided'[n][e].gen = topic.gen)
  <2> HIDE DEF tx
  <2>1. QED
    BY <1>1, <1>2, <1>4, <1>5, <1>6, PreparedOk DEF CoreInv
<1>8. StateInv'
  BY <1>1, <1>3 DEF CoreInv, StateInv
<1>9. TailInv'
  <2>1. \A n \in Ids : \A t : Committed(decided[n], t) => Committed(decided'[n], t)
    BY <1>6, <1>7 DEF Committed
  <2>2. QED
    BY <1>1, <1>3, <2>1 DEF CoreInv, TailInv
<1>10. QuietInv'
  BY <1>1, <1>3 DEF CoreInv, QuietInv
<1>11. ClientInv'
  BY <1>1, <1>3, <1>7 DEF CoreInv, ClientInv
<1>12. WorkInv'
  <2>1. job' = [n \in Ids |-> IF n = i THEN [todo |-> Todo(i, tx), by |-> Recovery] ELSE job[n]]
    BY <1>1 DEF Prepared, SetJob, TxnInv, JobsOk
  <2>2. ASSUME NEW n \in Ids, job'[n] # NoJob PROVE JobFor(n)'
    <3>1. n = i
      BY <2>1, <2>2 DEF RecoverTransaction, Locked
    <3>2. job'[i].by = Recovery /\ Recovery \notin TxnClients
      BY <2>1, TxnConstants DEF Recovery
    <3>3. QED
      BY <1>1, <1>3, <1>5, <1>6, <1>7, <3>1, <3>2 DEF JobFor, CoreInv, QuietInv
  <2>3. QED
    BY <1>3, <2>2 DEF WorkInv, Locked
<1>13. CoreMoves
  BY <1>1, <1>2, <1>3, <1>5, <1>7 DEF CoreMoves
<1>14. QED
  BY <1>7, <1>8, <1>9, <1>10, <1>11, <1>12, <1>13 DEF CoreInv

\* A finished transaction becomes a tombstone.
LEMMA PruneCore ==
    ASSUME TxnInv, CoreInv, NEW i \in Ids, PruneExpired(i), forgot' = {}
    PROVE  CoreInv' /\ CoreMoves
<1>1. /\ Ids' = Ids /\ tail' = << >> /\ UNCHANGED <<up, work, topic, job, client, told, decided>>
      /\ \A k \in Ids : journal'[k] = txns'[k] /\ TxOk(journal'[k]) /\ Later(journal[k], journal'[k])
      /\ \A k \in Ids : txns'[k] = txns[k] \/ (k = i /\ Terminal(txns[k]))
  BY PruneMoves DEF logVars
<1>2. JournalMoves
  BY <1>1 DEF JournalMoves, Moves, CoreInv, StateInv, StateOk
<1>3. DecidedInv' /\ ToldInv'
  <2>1. \A k \in Ids : Committed(decided[k], journal'[k])
    BY <1>1, CommittedKept DEF CoreInv, DecidedInv, StateInv, StateOk
  <2>2. QED
    BY <1>1, <1>2, <2>1, DecidedSame, ToldSame DEF CoreInv
<1>4. \A b : IdOf(b)' = IdOf(b)
  BY <1>1 DEF IdOf, Does
<1>5. ClientInv'
  <2>1. \A b \in TxnClients : ClientOk(client[b], decided[IdOf(b)], journal'[IdOf(b)])
    BY <1>2, ClientStays
  <2>2. QED
    BY <1>1, <1>4, <2>1 DEF ClientInv, CoreInv
<1>6. StateInv' /\ TailInv' /\ QuietInv'
  BY <1>1 DEF StateInv, StateOk, Follows, TailInv, QuietInv, CoreInv, Locked
<1>7. WorkInv'
  <2>1. ASSUME NEW k \in Ids, Locked(k) PROVE JobFor(k)'
    <3>1. JobFor(k)
      BY <2>1 DEF CoreInv, WorkInv
    <3>2. txns'[k] = txns[k] /\ journal'[k] = journal[k]
      BY <1>1, <3>1 DEF JobFor, Terminal
    <3>3. QED
      BY <1>1, <1>4, <3>1, <3>2 DEF JobFor
  <2>2. QED
    BY <1>1, <2>1 DEF WorkInv, Locked
<1>8. CoreMoves
  BY <1>1 DEF CoreMoves
<1>9. QED
  BY <1>3, <1>5, <1>6, <1>7, <1>8 DEF CoreInv

\* Carrying a decision out, at END_TXN or at startup, and pruning.
LEMMA WorkCore ==
    ASSUME TxnInv, TopicOk, CoreInv, forgot' = {}, NEW i \in Ids,
           TxnApply(i) \/ ApplyFails(i) \/ RecoverTransaction(i) \/ PruneExpired(i)
    PROVE  CoreInv' /\ CoreMoves
<1>1. CASE ApplyTransaction(i) \/ PublishNext(i) \/ CommitTxnOffsets(i) \/ ApplyFails(i)
  <2>1. UNCHANGED <<up, work, topic, txns, journal, tail, client, told, decided>>
    BY <1>1 DEF ApplyTransaction, PublishNext, CommitTxnOffsets, ApplyFails, logVars, Store
  <2>2. Locked(i)
    BY <1>1 DEF ApplyTransaction, PublishNext, CommitTxnOffsets, ApplyFails, Doing, None
  <2>3. Advance(i) \/ GiveUpJob(i)
    BY <1>1 DEF ApplyTransaction, PublishNext, CommitTxnOffsets, ApplyFails
  <2>4. QED
    BY <2>1, <2>2, <2>3, JobCore
<1>2. QED
  BY <1>1, DecideCore, RecoverCore, PruneCore DEF TxnApply

\* The process dies, and what may be in the journal's file is found at the restart.
LEMMA CrashCore ==
    ASSUME TxnInv, CoreInv, Crash
    PROVE  CoreInv' /\ CoreMoves
<1>1. /\ up' = "down" /\ tail' = << >> /\ job' = [i \in Ids |-> NoJob] /\ UNCHANGED <<work, client, told, decided>>
      /\ txns' = [i \in Ids |-> journal'[i]]
  BY DEF Crash, LoadJournal
<1>2. PICK surfaced \in {{}, Range(<<tail>>) \ {<< >>}} :
        journal' = [i \in Ids |-> IF \E t \in surfaced : t[1] = i THEN (CHOOSE t \in surfaced : t[1] = i)[2] ELSE journal[i]]
  BY DEF Crash
<1>3. Range(<<tail>>) = {tail}
  BY DEF Range
<1>4. Ids' = Ids /\ \A b : IdOf(b)' = IdOf(b)
  BY <1>1 DEF Ids, IdOf, Does
<1>5. \A n \in Ids : TxOk(journal[n]) /\ Committed(decided[n], journal[n]) /\ Later(journal[n], journal[n])
  BY LaterSame DEF CoreInv, StateInv, StateOk, DecidedInv
<1>6. ASSUME NEW n \in Ids
      PROVE  \/ journal'[n] = journal[n]
             \/ \E t : tail = <<n, t>> /\ journal'[n] = t /\ TailFor(journal[n], t) /\ Committed(decided[n], t)
  <2>1. CASE \E t \in surfaced : t[1] = n
    <3>1. surfaced = {tail} /\ tail # << >> /\ tail[1] = n
      BY <1>2, <1>3, <2>1
    <3>2. journal'[n] = tail[2]
      BY <1>2, <2>1, <3>1
    <3>3. PICK i \in Ids : \E t : tail = <<i, t>> /\ TailFor(journal[i], t) /\ Committed(decided[i], t)
      BY <3>1 DEF CoreInv, TailInv
    <3>4. PICK t : tail = <<i, t>> /\ TailFor(journal[i], t) /\ Committed(decided[i], t)
      BY <3>3
    <3>5. QED
      BY <3>1, <3>2, <3>4
  <2>2. CASE ~\E t \in surfaced : t[1] = n
    BY <1>2, <2>2
  <2>3. QED
    BY <2>1, <2>2
<1>7. \A n \in Ids : TxOk(journal'[n]) /\ Moves(journal[n], journal'[n]) /\ Committed(decided[n], journal'[n])
  BY <1>5, <1>6 DEF TailFor, Moves
<1>8. JournalMoves
  BY <1>1, <1>4, <1>5, <1>7 DEF JournalMoves
<1>9. DecidedInv' /\ ToldInv'
  BY <1>1, <1>7, <1>8, DecidedSame, ToldSame DEF CoreInv
<1>10. ClientInv'
  <2>1. \A b \in TxnClients : ClientOk(client[b], decided[IdOf(b)], journal'[IdOf(b)])
    BY <1>8, ClientStays
  <2>2. QED
    BY <1>1, <1>4, <2>1 DEF ClientInv, CoreInv
<1>11. StateInv' /\ TailInv' /\ QuietInv' /\ WorkInv'
  BY <1>1, <1>4, <1>7 DEF StateInv, StateOk, Follows, TailInv, QuietInv, WorkInv, Locked
<1>12. CoreMoves
  <2>1. \A n \in Ids : Later(journal[n], journal'[n]) \/ Concludes(n)
    BY <1>5, <1>6 DEF TailFor, Concludes
  <2>2. QED
    BY <1>1, <1>4, <2>1 DEF CoreMoves
<1>13. QED
  BY <1>9, <1>10, <1>11, <1>12 DEF CoreInv

-----------------------------------------------------------------------------
(* What a step of a lifecycle command changes.                             *)

IsFiles(f) == DOMAIN f = {"logs", "marker"}
Shaped(s) ==
    LifeShape(s) /\ DOMAIN s.manifest = {"rev", "epoch", "parts", "gen"} /\ IsFiles(s.files)
TxSame(s, x) == x.txns = s.txns /\ x.journal = s.journal /\ x.tail = s.tail
LogSame(s, x) == x.log = s.log /\ x.producers = s.producers
TopicSame(s, x) == x.topic = s.topic
StoreSame(s, x) == x.manifest = s.manifest /\ x.files = s.files
GoffSame(s, x) == x.goff = s.goff

\* Other directories; the logs in the directories that are kept.
WithLogs(s, l) == [s EXCEPT !.files.logs = l]
Cut(s, l) == [p \in Partitions |-> IF p \in l THEN s.log[p] ELSE << >>]
RemovedFrom(s, kept, x) ==
    /\ Shaped(x) /\ TxSame(s, x) /\ GoffSame(s, x) /\ x.manifest = s.manifest /\ x.files = kept
    /\ x.topic.reg = FALSE /\ x.topic.fenced = s.topic.fenced /\ x.topic.gen = s.topic.gen + 1
    /\ x.topic.parts = s.topic.parts
    /\ x.log = Cut(s, kept.logs)
LogsAre(s, l, x) ==
    /\ Shaped(x) /\ TxSame(s, x) /\ LogSame(s, x) /\ TopicSame(s, x) /\ GoffSame(s, x)
    /\ x.manifest = s.manifest /\ x.files.logs = l /\ x.files.marker = s.files.marker

\* RemoveStorage
LEMMA RemoveFields ==
    ASSUME NEW s, Shaped(s), NEW kept, IsFiles(kept), NEW k
    PROVE  RemovedFrom(s, kept, RemoveStorage(s, kept, k))
<1> DEFINE a == Cut(s, kept.logs)
           b == [p \in Partitions |-> << >>]
           c == IF k THEN s.snap ELSE NoSnapshots
           x == [s EXCEPT !.topic.reg = FALSE, !.topic.gen = @ + 1, !.files = kept, !.log = a,
                          !.producers = b, !.index = Closed, !.snap = c]
<1>1. RemoveStorage(s, kept, k) = x
  BY DEF RemoveStorage, Cut
<1> HIDE DEF a, b, c
<1>2. /\ DOMAIN s = {"topic", "manifest", "files", "log", "producers", "index", "snap", "registered",
                     "goff", "txns", "journal", "tail"}
      /\ DOMAIN s.topic = {"reg", "fenced", "gen", "parts"}
      /\ DOMAIN s.manifest = {"rev", "epoch", "parts", "gen"}
  BY DEF Shaped, IsFiles, LifeShape, TopicFields
<1>3. /\ DOMAIN x = DOMAIN s /\ DOMAIN x.topic = DOMAIN s.topic /\ x.manifest = s.manifest /\ x.files = kept
      /\ x.log = a /\ TxSame(s, x) /\ GoffSame(s, x)
      /\ x.topic.reg = FALSE /\ x.topic.fenced = s.topic.fenced /\ x.topic.gen = s.topic.gen + 1
      /\ x.topic.parts = s.topic.parts
  BY <1>2 DEF TxSame, GoffSame
<1> HIDE DEF x
<1>4. Shaped(x)
  BY <1>2, <1>3 DEF Shaped, IsFiles, LifeShape, TopicFields
<1>5. QED
  BY <1>1, <1>3, <1>4 DEF a, RemovedFrom

\* Open
LEMMA OpenFields ==
    ASSUME NEW s, Shaped(s)
    PROVE  LET x == Open(s)
           IN  /\ Shaped(x) /\ TxSame(s, x) /\ GoffSame(s, x) /\ x.manifest = s.manifest /\ x.log = s.log
               /\ x.files.logs = s.files.logs \cup (1 .. s.manifest.parts) /\ x.files.marker = s.files.marker
               /\ x.topic.reg = TRUE /\ x.topic.fenced = s.topic.fenced /\ x.topic.gen = s.topic.gen
               /\ x.topic.parts = s.manifest.parts
               /\ x.producers = [p \in Partitions |-> RecoverProducers(s.log[p])]
<1> DEFINE b == [p \in Partitions |-> RecoverProducers(s.log[p])]
           f == s.files.logs \cup (1 .. s.manifest.parts)
           n == s.manifest.parts
           x == [s EXCEPT !.topic.reg = TRUE, !.topic.parts = n, !.files.logs = f, !.producers = b]
<1>2. /\ DOMAIN s = {"topic", "manifest", "files", "log", "producers", "index", "snap", "registered",
                     "goff", "txns", "journal", "tail"}
      /\ DOMAIN s.topic = {"reg", "fenced", "gen", "parts"}
      /\ DOMAIN s.manifest = {"rev", "epoch", "parts", "gen"} /\ DOMAIN s.files = {"logs", "marker"}
  BY DEF Shaped, IsFiles, LifeShape, TopicFields
<1>1. Open(s) = x
  BY <1>2 DEF Open
<1> HIDE DEF b, f, n
<1>3. /\ DOMAIN x = DOMAIN s /\ DOMAIN x.topic = DOMAIN s.topic /\ DOMAIN x.files = DOMAIN s.files
      /\ x.manifest = s.manifest /\ x.files.logs = f /\ x.files.marker = s.files.marker
      /\ x.log = s.log /\ TxSame(s, x) /\ GoffSame(s, x) /\ x.producers = b
      /\ x.topic.reg = TRUE /\ x.topic.fenced = s.topic.fenced /\ x.topic.gen = s.topic.gen
      /\ x.topic.parts = n
  BY <1>2 DEF TxSame, GoffSame
<1> HIDE DEF x
<1>4. Shaped(x)
  BY <1>2, <1>3 DEF Shaped, IsFiles, LifeShape, TopicFields
<1>5. QED
  BY <1>1, <1>3, <1>4 DEF b, f, n

\* The other steps.
LEMMA StepFields ==
    ASSUME NEW s, Shaped(s)
    PROVE  /\ LET x == CloseStream(s)
              IN  Shaped(x) /\ TxSame(s, x) /\ LogSame(s, x) /\ TopicSame(s, x) /\ StoreSame(s, x) /\ GoffSame(s, x)
           /\ LET x == CommitTruncation(s)
              IN  /\ Shaped(x) /\ TxSame(s, x) /\ LogSame(s, x) /\ GoffSame(s, x) /\ x.files = s.files
                  /\ x.manifest.parts = s.manifest.parts /\ x.manifest.epoch = s.manifest.epoch + 1
                  /\ x.topic.reg = s.topic.reg /\ x.topic.fenced = TRUE /\ x.topic.gen = s.topic.gen
                  /\ x.topic.parts = s.topic.parts
           /\ LET x == FenceTruncation(s)
              IN  /\ Shaped(x) /\ TxSame(s, x) /\ LogSame(s, x) /\ GoffSame(s, x) /\ StoreSame(s, x)
                  /\ x.topic.reg = s.topic.reg /\ x.topic.fenced = TRUE /\ x.topic.gen = s.topic.gen
                  /\ x.topic.parts = s.topic.parts
           /\ LET x == Unregister(s)
              IN  /\ Shaped(x) /\ TxSame(s, x) /\ LogSame(s, x) /\ GoffSame(s, x) /\ x.files = s.files
                  /\ x.manifest = NoTopic /\ x.manifest.parts = 0
                  /\ x.topic.reg = FALSE /\ x.topic.fenced = s.topic.fenced /\ x.topic.gen = s.topic.gen
                  /\ x.topic.parts = s.topic.parts
<1>1. /\ DOMAIN s = {"topic", "manifest", "files", "log", "producers", "index", "snap", "registered",
                     "goff", "txns", "journal", "tail"}
      /\ DOMAIN s.topic = {"reg", "fenced", "gen", "parts"}
      /\ DOMAIN s.manifest = {"rev", "epoch", "parts", "gen"} /\ DOMAIN s.files = {"logs", "marker"}
  BY DEF Shaped, IsFiles, LifeShape, TopicFields
<1>2. LET x == CloseStream(s)
      IN  Shaped(x) /\ TxSame(s, x) /\ LogSame(s, x) /\ TopicSame(s, x) /\ StoreSame(s, x) /\ GoffSame(s, x)
  <2> DEFINE x == CloseStream(s)
  <2>1. DOMAIN x = DOMAIN s /\ TxSame(s, x) /\ LogSame(s, x) /\ TopicSame(s, x) /\ StoreSame(s, x) /\ GoffSame(s, x)
    BY <1>1 DEF CloseStream, TxSame, LogSame, TopicSame, StoreSame, GoffSame
  <2> HIDE DEF x
  <2>2. Shaped(x)
    BY <1>1, <2>1 DEF Shaped, IsFiles, LifeShape, TopicFields, TopicSame, StoreSame
  <2>3. QED
    BY <2>1, <2>2 DEF x
<1>3. LET x == CommitTruncation(s)
      IN  /\ Shaped(x) /\ TxSame(s, x) /\ LogSame(s, x) /\ GoffSame(s, x) /\ x.files = s.files
          /\ x.manifest.parts = s.manifest.parts /\ x.manifest.epoch = s.manifest.epoch + 1
          /\ x.topic.reg = s.topic.reg /\ x.topic.fenced = TRUE /\ x.topic.gen = s.topic.gen
          /\ x.topic.parts = s.topic.parts
  <2> DEFINE x == CommitTruncation(s)
  <2>1. /\ DOMAIN x = DOMAIN s /\ DOMAIN x.topic = DOMAIN s.topic /\ DOMAIN x.manifest = DOMAIN s.manifest
        /\ TxSame(s, x) /\ LogSame(s, x) /\ GoffSame(s, x) /\ x.files = s.files
        /\ x.manifest.parts = s.manifest.parts /\ x.manifest.epoch = s.manifest.epoch + 1
        /\ x.topic.reg = s.topic.reg /\ x.topic.fenced = TRUE /\ x.topic.gen = s.topic.gen
        /\ x.topic.parts = s.topic.parts
    BY <1>1 DEF CommitTruncation, TxSame, LogSame, GoffSame
  <2> HIDE DEF x
  <2>2. Shaped(x)
    BY <1>1, <2>1 DEF Shaped, IsFiles, LifeShape, TopicFields
  <2>3. QED
    BY <2>1, <2>2 DEF x
<1>4. LET x == FenceTruncation(s)
      IN  /\ Shaped(x) /\ TxSame(s, x) /\ LogSame(s, x) /\ GoffSame(s, x) /\ StoreSame(s, x)
          /\ x.topic.reg = s.topic.reg /\ x.topic.fenced = TRUE /\ x.topic.gen = s.topic.gen
          /\ x.topic.parts = s.topic.parts
  <2> DEFINE x == FenceTruncation(s)
  <2>1. /\ DOMAIN x = DOMAIN s /\ DOMAIN x.topic = DOMAIN s.topic
        /\ TxSame(s, x) /\ LogSame(s, x) /\ GoffSame(s, x) /\ StoreSame(s, x)
        /\ x.topic.reg = s.topic.reg /\ x.topic.fenced = TRUE /\ x.topic.gen = s.topic.gen
        /\ x.topic.parts = s.topic.parts
    BY <1>1 DEF FenceTruncation, TxSame, LogSame, GoffSame, StoreSame
  <2> HIDE DEF x
  <2>2. Shaped(x)
    BY <1>1, <2>1 DEF Shaped, IsFiles, LifeShape, TopicFields, StoreSame
  <2>3. QED
    BY <2>1, <2>2 DEF x
<1>5. LET x == Unregister(s)
      IN  /\ Shaped(x) /\ TxSame(s, x) /\ LogSame(s, x) /\ GoffSame(s, x) /\ x.files = s.files
          /\ x.manifest = NoTopic /\ x.manifest.parts = 0
          /\ x.topic.reg = FALSE /\ x.topic.fenced = s.topic.fenced /\ x.topic.gen = s.topic.gen
          /\ x.topic.parts = s.topic.parts
  <2> DEFINE x == Unregister(s)
  <2>1. NoTopic.parts = 0 /\ DOMAIN NoTopic = {"rev", "epoch", "parts", "gen"}
    BY DEF NoTopic
  <2>2. /\ DOMAIN x = DOMAIN s /\ DOMAIN x.topic = DOMAIN s.topic
        /\ TxSame(s, x) /\ LogSame(s, x) /\ GoffSame(s, x) /\ x.files = s.files
        /\ x.manifest = NoTopic
        /\ x.topic.reg = FALSE /\ x.topic.fenced = s.topic.fenced /\ x.topic.gen = s.topic.gen
        /\ x.topic.parts = s.topic.parts
    BY <1>1 DEF Unregister, TxSame, LogSame, GoffSame
  <2> HIDE DEF x
  <2>3. Shaped(x)
    BY <1>1, <2>1, <2>2 DEF Shaped, IsFiles, LifeShape, TopicFields
  <2>4. QED
    BY <2>1, <2>2, <2>3 DEF x
<1>6. QED
  BY <1>2, <1>3, <1>4, <1>5

\* The steps on the dependencies and of CREATE.
LEMMA MoreFields ==
    ASSUME NEW s, Shaped(s)
    PROVE  /\ LET x == DeleteGroups(s)
              IN  Shaped(x) /\ TxSame(s, x) /\ LogSame(s, x) /\ TopicSame(s, x) /\ StoreSame(s, x) /\ x.goff = {}
           /\ LET x == PruneReferences(s)
              IN  /\ Shaped(x) /\ LogSame(s, x) /\ TopicSame(s, x) /\ StoreSame(s, x) /\ GoffSame(s, x)
                  /\ x.txns = [i \in Ids |-> Stripped(s.txns[i])] /\ x.journal = x.txns /\ x.tail = << >>
           /\ LET x == CompleteTruncation(s)
              IN  /\ Shaped(x) /\ TxSame(s, x) /\ LogSame(s, x) /\ GoffSame(s, x)
                  /\ x.manifest = s.manifest /\ x.files.logs = s.files.logs
                  /\ x.files.marker = (IF s.topic.reg THEN s.manifest.epoch ELSE s.files.marker)
                  /\ x.topic.reg = s.topic.reg /\ x.topic.gen = s.topic.gen /\ x.topic.parts = s.topic.parts
                  /\ x.topic.fenced = (IF s.topic.reg THEN FALSE ELSE s.topic.fenced)
           /\ LET x == CreateLogs(s)
              IN  /\ Shaped(x) /\ TxSame(s, x) /\ LogSame(s, x) /\ GoffSame(s, x) /\ TopicSame(s, x)
                  /\ x.manifest = s.manifest /\ x.files.logs = Partitions /\ x.files.marker = s.files.marker
           /\ LET x == Define(s)
              IN  /\ Shaped(x) /\ TxSame(s, x) /\ LogSame(s, x) /\ GoffSame(s, x) /\ x.files = s.files
                  /\ x.manifest.parts = NumPartitions /\ x.manifest.epoch = 1 /\ x.manifest.rev = 1
                  /\ x.topic.reg = s.topic.reg /\ x.topic.gen = s.topic.gen + 1 /\ x.topic.parts = s.topic.parts
                  /\ x.topic.fenced = s.topic.fenced
           /\ LET x == Alter(s)
              IN  /\ Shaped(x) /\ TxSame(s, x) /\ LogSame(s, x) /\ GoffSame(s, x) /\ TopicSame(s, x)
                  /\ x.files = s.files
                  /\ x.manifest.parts = NumPartitions /\ x.manifest.epoch = s.manifest.epoch
                  /\ x.manifest.rev = s.manifest.rev + 1
           /\ LET x == RegisterDefault(s)
              IN  Shaped(x) /\ TxSame(s, x) /\ LogSame(s, x) /\ TopicSame(s, x) /\ StoreSame(s, x) /\ GoffSame(s, x)
           /\ \A l : LogsAre(s, l, WithLogs(s, l))
<1>1. /\ DOMAIN s = {"topic", "manifest", "files", "log", "producers", "index", "snap", "registered",
                     "goff", "txns", "journal", "tail"}
      /\ DOMAIN s.topic = {"reg", "fenced", "gen", "parts"}
      /\ DOMAIN s.manifest = {"rev", "epoch", "parts", "gen"} /\ DOMAIN s.files = {"logs", "marker"}
  BY DEF Shaped, IsFiles, LifeShape, TopicFields
<1>2. LET x == DeleteGroups(s)
      IN  Shaped(x) /\ TxSame(s, x) /\ LogSame(s, x) /\ TopicSame(s, x) /\ StoreSame(s, x) /\ x.goff = {}
  <2> DEFINE x == DeleteGroups(s)
  <2>1. DOMAIN x = DOMAIN s /\ TxSame(s, x) /\ LogSame(s, x) /\ TopicSame(s, x) /\ StoreSame(s, x) /\ x.goff = {}
    BY <1>1 DEF DeleteGroups, TxSame, LogSame, TopicSame, StoreSame
  <2> HIDE DEF x
  <2>2. Shaped(x)
    BY <1>1, <2>1 DEF Shaped, IsFiles, LifeShape, TopicFields, TopicSame, StoreSame
  <2>3. QED
    BY <2>1, <2>2 DEF x
<1>3. LET x == PruneReferences(s)
      IN  /\ Shaped(x) /\ LogSame(s, x) /\ TopicSame(s, x) /\ StoreSame(s, x) /\ GoffSame(s, x)
          /\ x.txns = [i \in Ids |-> Stripped(s.txns[i])] /\ x.journal = x.txns /\ x.tail = << >>
  <2> DEFINE a == [i \in Ids |-> Stripped(s.txns[i])]
             e == << >>
             x == [s EXCEPT !.txns = a, !.journal = a, !.tail = e]
  <2>1. PruneReferences(s) = x
    BY DEF PruneReferences
  <2> HIDE DEF a, e
  <2>2. /\ DOMAIN x = DOMAIN s /\ LogSame(s, x) /\ TopicSame(s, x) /\ StoreSame(s, x) /\ GoffSame(s, x)
        /\ x.txns = a /\ x.journal = a /\ x.tail = e
    BY <1>1 DEF LogSame, TopicSame, StoreSame, GoffSame
  <2> HIDE DEF x
  <2>3. Shaped(x)
    BY <1>1, <2>2 DEF Shaped, IsFiles, LifeShape, TopicFields, TopicSame, StoreSame
  <2>4. QED
    BY <2>1, <2>2, <2>3 DEF a, e
<1>4. LET x == CompleteTruncation(s)
      IN  /\ Shaped(x) /\ TxSame(s, x) /\ LogSame(s, x) /\ GoffSame(s, x)
          /\ x.manifest = s.manifest /\ x.files.logs = s.files.logs
          /\ x.files.marker = (IF s.topic.reg THEN s.manifest.epoch ELSE s.files.marker)
          /\ x.topic.reg = s.topic.reg /\ x.topic.gen = s.topic.gen /\ x.topic.parts = s.topic.parts
          /\ x.topic.fenced = (IF s.topic.reg THEN FALSE ELSE s.topic.fenced)
  <2>1. CASE ~s.topic.reg
    <3>1. CompleteTruncation(s) = s
      BY <2>1 DEF CompleteTruncation
    <3>2. QED
      BY <2>1, <3>1 DEF TxSame, LogSame, GoffSame
  <2>2. CASE s.topic.reg
    <3> DEFINE n == s.manifest.epoch
               x == [s EXCEPT !.files.marker = n, !.topic.fenced = FALSE]
    <3>1. CompleteTruncation(s) = x
      BY <1>1, <2>2 DEF CompleteTruncation, WriteMarker
    <3> HIDE DEF n
    <3>2. /\ DOMAIN x = DOMAIN s /\ DOMAIN x.topic = DOMAIN s.topic /\ DOMAIN x.files = DOMAIN s.files
          /\ TxSame(s, x) /\ LogSame(s, x) /\ GoffSame(s, x)
          /\ x.manifest = s.manifest /\ x.files.logs = s.files.logs /\ x.files.marker = n
          /\ x.topic.reg = s.topic.reg /\ x.topic.gen = s.topic.gen /\ x.topic.parts = s.topic.parts
          /\ x.topic.fenced = FALSE
      BY <1>1 DEF TxSame, LogSame, GoffSame
    <3> HIDE DEF x
    <3>3. Shaped(x)
      BY <1>1, <3>2 DEF Shaped, IsFiles, LifeShape, TopicFields
    <3>4. QED
      BY <2>2, <3>1, <3>2, <3>3 DEF n
  <2>3. QED
    BY <2>1, <2>2
<1>5. ASSUME NEW l
      PROVE  LogsAre(s, l, WithLogs(s, l))
  <2> DEFINE x == WithLogs(s, l)
  <2>1. /\ DOMAIN x = DOMAIN s /\ DOMAIN x.files = DOMAIN s.files
        /\ TxSame(s, x) /\ LogSame(s, x) /\ TopicSame(s, x) /\ GoffSame(s, x)
        /\ x.manifest = s.manifest /\ x.files.logs = l /\ x.files.marker = s.files.marker
    BY <1>1 DEF WithLogs, TxSame, LogSame, TopicSame, GoffSame
  <2> HIDE DEF x
  <2>2. Shaped(x)
    BY <1>1, <2>1 DEF Shaped, IsFiles, LifeShape, TopicFields, TopicSame
  <2>3. QED
    BY <2>1, <2>2 DEF x, LogsAre
<1>6. LET x == CreateLogs(s)
      IN  /\ Shaped(x) /\ TxSame(s, x) /\ LogSame(s, x) /\ GoffSame(s, x) /\ TopicSame(s, x)
          /\ x.manifest = s.manifest /\ x.files.logs = Partitions /\ x.files.marker = s.files.marker
  <2>1. CreateLogs(s) = WithLogs(s, Partitions)
    BY DEF CreateLogs, WithLogs
  <2>2. QED
    BY <1>5, <2>1 DEF LogsAre
<1>7. LET x == Define(s)
      IN  /\ Shaped(x) /\ TxSame(s, x) /\ LogSame(s, x) /\ GoffSame(s, x) /\ x.files = s.files
          /\ x.manifest.parts = NumPartitions /\ x.manifest.epoch = 1 /\ x.manifest.rev = 1
          /\ x.topic.reg = s.topic.reg /\ x.topic.gen = s.topic.gen + 1 /\ x.topic.parts = s.topic.parts
          /\ x.topic.fenced = s.topic.fenced
  <2> DEFINE m == [rev |-> 1, epoch |-> 1, parts |-> NumPartitions, gen |-> s.topic.gen + 1]
             x == [s EXCEPT !.manifest = m, !.topic.gen = @ + 1]
  <2>1. Define(s) = x
    BY DEF Define
  <2>2. DOMAIN m = {"rev", "epoch", "parts", "gen"} /\ m.parts = NumPartitions /\ m.epoch = 1 /\ m.rev = 1
    OBVIOUS
  <2> HIDE DEF m
  <2>3. /\ DOMAIN x = DOMAIN s /\ DOMAIN x.topic = DOMAIN s.topic
        /\ TxSame(s, x) /\ LogSame(s, x) /\ GoffSame(s, x) /\ x.files = s.files /\ x.manifest = m
        /\ x.topic.reg = s.topic.reg /\ x.topic.gen = s.topic.gen + 1 /\ x.topic.parts = s.topic.parts
        /\ x.topic.fenced = s.topic.fenced
    BY <1>1 DEF TxSame, LogSame, GoffSame
  <2> HIDE DEF x
  <2>4. Shaped(x)
    BY <1>1, <2>2, <2>3 DEF Shaped, IsFiles, LifeShape, TopicFields
  <2>5. QED
    BY <2>1, <2>2, <2>3, <2>4
<1>8. LET x == Alter(s)
      IN  /\ Shaped(x) /\ TxSame(s, x) /\ LogSame(s, x) /\ GoffSame(s, x) /\ TopicSame(s, x)
          /\ x.files = s.files
          /\ x.manifest.parts = NumPartitions /\ x.manifest.epoch = s.manifest.epoch
          /\ x.manifest.rev = s.manifest.rev + 1
  <2> DEFINE x == Alter(s)
  <2>1. /\ DOMAIN x = DOMAIN s /\ DOMAIN x.manifest = DOMAIN s.manifest
        /\ TxSame(s, x) /\ LogSame(s, x) /\ GoffSame(s, x) /\ TopicSame(s, x) /\ x.files = s.files
        /\ x.manifest.parts = NumPartitions /\ x.manifest.epoch = s.manifest.epoch
        /\ x.manifest.rev = s.manifest.rev + 1
    BY <1>1 DEF Alter, TxSame, LogSame, GoffSame, TopicSame
  <2> HIDE DEF x
  <2>2. Shaped(x)
    BY <1>1, <2>1 DEF Shaped, IsFiles, LifeShape, TopicFields, TopicSame
  <2>3. QED
    BY <2>1, <2>2 DEF x
<1>9. LET x == RegisterDefault(s)
      IN  Shaped(x) /\ TxSame(s, x) /\ LogSame(s, x) /\ TopicSame(s, x) /\ StoreSame(s, x) /\ GoffSame(s, x)
  <2> DEFINE x == RegisterDefault(s)
  <2>1. DOMAIN x = DOMAIN s /\ TxSame(s, x) /\ LogSame(s, x) /\ TopicSame(s, x) /\ StoreSame(s, x) /\ GoffSame(s, x)
    BY <1>1 DEF RegisterDefault, TxSame, LogSame, TopicSame, StoreSame, GoffSame
  <2> HIDE DEF x
  <2>2. Shaped(x)
    BY <1>1, <2>1 DEF Shaped, IsFiles, LifeShape, TopicFields, TopicSame, StoreSame
  <2>3. QED
    BY <2>1, <2>2 DEF x
<1>10. QED
  BY <1>2, <1>3, <1>4, <1>5, <1>6, <1>7, <1>8, <1>9

\* The transactions, the logs and the registry behind a step, by its name.
LEMMA StepEffect ==
    ASSUME NEW s, Shaped(s), NEW what \in StepNames
    PROVE  LET x == Step(s, what)
           IN  /\ Shaped(x)
               /\ what # "journal" => TxSame(s, x)
               /\ what = "journal" => /\ x.txns = [i \in Ids |-> Stripped(s.txns[i])]
                                      /\ x.journal = x.txns /\ x.tail = << >>
               /\ what \notin {"remove", "open"} => LogSame(s, x)
               /\ what = "open" => /\ x.log = s.log /\ x.topic.reg = TRUE
                                   /\ x.producers = [p \in Partitions |-> RecoverProducers(s.log[p])]
               /\ what = "remove" => x.topic.reg = FALSE /\ x.log = [p \in Partitions |-> << >>]
               /\ what \notin {"remove", "open", "unregister"} => x.topic.reg = s.topic.reg
               /\ what = "unregister" => x.topic.reg = FALSE
<1>1. CASE what = "close"
  BY <1>1, StepFields DEF Step, TopicSame
<1>2. CASE what = "commit"
  BY <1>2, StepFields DEF Step
<1>3. CASE what = "fence"
  BY <1>3, StepFields DEF Step
<1>4. CASE what = "unregister"
  BY <1>4, StepFields DEF Step
<1>5. CASE what = "remove"
  <2>k. PICK k : k = FALSE
    OBVIOUS
  <2> DEFINE x == RemoveStorage(s, Emptied, k)
  <2>1. IsFiles(Emptied) /\ Emptied.logs = {}
    BY DEF Emptied, IsFiles
  <2>2. Step(s, what) = x
    BY <1>5, <2>k DEF Step
  <2>3. /\ Shaped(x) /\ TxSame(s, x) /\ x.topic.reg = FALSE
        /\ x.log = Cut(s, Emptied.logs)
    <3>1. RemovedFrom(s, Emptied, x)
      BY <2>1, RemoveFields
    <3>2. QED
      BY <3>1 DEF RemovedFrom
  <2>4. x.log = [p \in Partitions |-> << >>]
    BY <2>1, <2>3 DEF Cut
  <2> HIDE DEF x
  <2>5. QED
    BY <1>5, <2>2, <2>3, <2>4
<1>6. CASE what = "open"
  BY <1>6, OpenFields DEF Step
<1>7. CASE what = "groups"
  BY <1>7, MoreFields DEF Step, TopicSame
<1>8. CASE what = "journal"
  BY <1>8, MoreFields DEF Step, TopicSame
<1>9. CASE what = "complete"
  BY <1>9, MoreFields DEF Step
<1>10. CASE what = "logs"
  BY <1>10, MoreFields DEF Step, TopicSame
<1>11. CASE what = "define"
  BY <1>11, MoreFields DEF Step
<1>12. CASE what = "alter"
  BY <1>12, MoreFields DEF Step, TopicSame
<1>13. CASE what = "default"
  BY <1>13, MoreFields DEF Step, TopicSame
<1>14. QED
  BY <1>1, <1>2, <1>3, <1>4, <1>5, <1>6, <1>7, <1>8, <1>9, <1>10, <1>11, <1>12, <1>13 DEF StepNames

\* And behind a step that ends in the middle.
LEMMA PartlyEffect ==
    ASSUME NEW s, Shaped(s), NEW what, NEW x \in Partly(s, what)
    PROVE  /\ Shaped(x) /\ TxSame(s, x)
           /\ what # "remove" => LogSame(s, x) /\ TopicSame(s, x)
           /\ what = "remove" => /\ x.topic.reg = FALSE
                                 /\ \E l \in SUBSET s.files.logs :
                                      x.files.logs = l /\ x.log = Cut(s, l)
<1>1. CASE what = "remove"
  <2>1. PICK kept \in [logs : SUBSET s.files.logs, marker : {0, s.files.marker}], k \in BOOLEAN :
          x = RemoveStorage(s, kept, k)
    BY <1>1 DEF Partly
  <2>2. IsFiles(kept) /\ kept.logs \in SUBSET s.files.logs
    BY DEF IsFiles
  <2>3. /\ Shaped(x) /\ TxSame(s, x) /\ x.topic.reg = FALSE /\ x.files = kept
        /\ x.log = Cut(s, kept.logs)
    <3>1. RemovedFrom(s, kept, x)
      BY <2>1, <2>2, RemoveFields
    <3>2. QED
      BY <3>1 DEF RemovedFrom
  <2>4. QED
    BY <1>1, <2>2, <2>3
<1>2. CASE what \in {"logs", "open"}
  <2>1. \E l : x = WithLogs(s, s.files.logs \cup l)
    BY <1>2 DEF Partly, WithLogs
  <2>2. \A l : LogsAre(s, l, WithLogs(s, l))
    BY MoreFields
  <2>3. \E l : LogsAre(s, l, x)
    BY <2>1, <2>2
  <2>4. QED
    BY <1>2, <2>3 DEF LogsAre
<1>3. CASE what \notin {"remove", "logs", "open"}
  BY <1>3 DEF Partly, TxSame, LogSame, TopicSame
<1>4. QED
  BY <1>1, <1>2, <1>3

-----------------------------------------------------------------------------
(* A lifecycle command as a whole, wherever it stops.                      *)

\* The transactions as they are, or without their references when no unfinished one has any.
AllStripped == [i \in Ids |-> Stripped(txns[i])]
LifeTx(s) ==
    \/ s.txns = txns /\ s.journal = journal /\ s.tail = tail
    \/ ~Blocked /\ s.txns = AllStripped /\ s.journal = AllStripped /\ s.tail = << >>

\* Each log is kept or removed, and a topic that is registered knows the producers of its logs.
Scans(s) == s.producers = [p \in Partitions |-> RecoverProducers(s.log[p])]
LifeLog(s) ==
    /\ \A p \in Partitions : s.log[p] = log[p] \/ s.log[p] = << >>
    /\ s.topic.reg => Scans(s) \/ (topic.reg /\ s.log = log /\ s.producers = producers)

\* CREATE takes nothing away.
CreateNames == {"logs", "define", "alter", "open", "default"}
LifeKeeps(s) ==
    /\ s.txns = txns /\ s.journal = journal /\ s.tail = tail /\ s.log = log /\ (topic.reg => s.topic.reg)
    /\ s.goff = goff

LifeRun(op, s) == Shaped(s) /\ LifeInv(s) /\ LifeTx(s) /\ LifeLog(s) /\ (op = "create" => LifeKeeps(s))
MayDo(op, what) ==
    what \in StepNames /\ (what = "journal" => ~Blocked) /\ (op = "create" => what \in CreateNames)

\* A step.
LEMMA LifeRunStep ==
    ASSUME CoreInv, topic.gen \in Nat, NEW op, NEW s, LifeRun(op, s), NEW what, MayDo(op, what)
    PROVE  LifeRun(op, Step(s, what))
<1> DEFINE x == Step(s, what)
<1>1. what \in StepNames /\ Shaped(s) /\ LifeInv(s)
  BY DEF MayDo, LifeRun
<1>2. LifeInv(x)
  BY <1>1, StepOk
<1>3. /\ Shaped(x)
      /\ what # "journal" => TxSame(s, x)
      /\ what = "journal" => /\ x.txns = [i \in Ids |-> Stripped(s.txns[i])]
                             /\ x.journal = x.txns /\ x.tail = << >>
      /\ what \notin {"remove", "open"} => LogSame(s, x)
      /\ what = "open" => /\ x.log = s.log /\ x.topic.reg = TRUE
                          /\ x.producers = [p \in Partitions |-> RecoverProducers(s.log[p])]
      /\ what = "remove" => x.topic.reg = FALSE /\ x.log = [p \in Partitions |-> << >>]
      /\ what \notin {"remove", "open", "unregister"} => x.topic.reg = s.topic.reg
      /\ what = "unregister" => x.topic.reg = FALSE
  BY <1>1, StepEffect
<1>4. what \in CreateNames => x.goff = s.goff
  <2>1. CASE what \in {"logs", "define", "alter", "default"}
    BY <1>1, <2>1, MoreFields DEF Step, GoffSame
  <2>2. CASE what = "open"
    BY <1>1, <2>2, OpenFields DEF Step, GoffSame
  <2>3. QED
    BY <2>1, <2>2 DEF CreateNames
<1> HIDE DEF x
<1>5. LifeTx(x)
  <2>1. CASE what # "journal"
    BY <1>3, <2>1 DEF LifeRun, LifeTx, TxSame
  <2>2. CASE what = "journal"
    <3>1. ~Blocked /\ x.journal = x.txns /\ x.tail = << >>
      BY <1>3, <2>2 DEF MayDo
    <3>2. x.txns = AllStripped
      <4>1. CASE s.txns = txns
        BY <1>3, <2>2, <4>1 DEF AllStripped
      <4>2. CASE s.txns = AllStripped
        <5>1. \A i \in Ids : Stripped(Stripped(txns[i])) = Stripped(txns[i])
          BY IsTxFacts DEF CoreInv, StateInv, StateOk, TxOk
        <5>2. QED
          BY <1>3, <2>2, <4>2, <5>1 DEF AllStripped
      <4>3. QED
        BY <4>1, <4>2 DEF LifeRun, LifeTx
    <3>3. QED
      BY <3>1, <3>2 DEF LifeTx
  <2>3. QED
    BY <2>1, <2>2
<1>6. LifeLog(x)
  <2>1. CASE what \notin {"remove", "open"}
    BY <1>3, <2>1 DEF LifeRun, LifeLog, LogSame, Scans
  <2>2. CASE what = "open"
    BY <1>3, <2>2 DEF LifeRun, LifeLog, Scans
  <2>3. CASE what = "remove"
    BY <1>3, <2>3 DEF LifeLog
  <2>4. QED
    BY <2>1, <2>2, <2>3
<1>7. op = "create" => LifeKeeps(x)
  BY <1>3, <1>4 DEF MayDo, CreateNames, LifeRun, LifeKeeps, TxSame, LogSame
<1>8. QED
  BY <1>2, <1>3, <1>5, <1>6, <1>7 DEF LifeRun, x

\* A step that ends in the middle.
LEMMA LifeRunPartly ==
    ASSUME CoreInv, topic.gen \in Nat, NEW op, NEW s, LifeRun(op, s), NEW what, MayDo(op, what), NEW x \in Partly(s, what)
    PROVE  LifeRun(op, x)
<1>1. Shaped(s) /\ LifeInv(s)
  BY DEF LifeRun
<1>2. LifeInv(x)
  BY <1>1, PartlyOk
<1>3. /\ Shaped(x) /\ TxSame(s, x)
      /\ what # "remove" => LogSame(s, x) /\ TopicSame(s, x)
      /\ what = "remove" => /\ x.topic.reg = FALSE
                            /\ \E l \in SUBSET s.files.logs : x.files.logs = l /\ x.log = Cut(s, l)
  BY <1>1, PartlyEffect
<1>4. LifeTx(x)
  BY <1>3 DEF LifeRun, LifeTx, TxSame
<1>5. LifeLog(x)
  <2>1. CASE what # "remove"
    BY <1>3, <2>1 DEF LifeRun, LifeLog, LogSame, TopicSame, Scans
  <2>2. CASE what = "remove"
    BY <1>3, <2>2 DEF LifeRun, LifeLog, Cut
  <2>3. QED
    BY <2>1, <2>2
<1>6. what \in CreateNames => x.goff = s.goff
  <2>1. CASE what \in {"logs", "open"}
    <3>1. \E l : x = WithLogs(s, s.files.logs \cup l)
      BY <2>1 DEF Partly, WithLogs
    <3>2. \A l : LogsAre(s, l, WithLogs(s, l))
      BY <1>1, MoreFields
    <3>3. \E l : LogsAre(s, l, x)
      BY <3>1, <3>2
    <3>4. QED
      BY <3>3 DEF LogsAre, GoffSame
  <2>2. CASE what \in {"define", "alter", "default"}
    BY <2>2 DEF Partly
  <2>3. QED
    BY <2>1, <2>2 DEF CreateNames
<1>7. op = "create" => LifeKeeps(x)
  BY <1>3, <1>6 DEF MayDo, CreateNames, LifeRun, LifeKeeps, TxSame, LogSame, TopicSame
<1>8. QED
  BY <1>2, <1>3, <1>4, <1>5, <1>7 DEF LifeRun

\* A run of steps.
LEMMA LifeRunRun ==
    ASSUME CoreInv, topic.gen \in Nat, NEW op, NEW s, LifeRun(op, s), NEW steps \in Seq(StepNames),
           \A n \in 1 .. Len(steps) : MayDo(op, steps[n])
    PROVE  LifeRun(op, Run(s, steps))
<1> DEFINE n == Len(steps)
<1>1. n \in Nat
  OBVIOUS
<1>2. PICK st : st[0] = s /\ (\A i \in 1 .. n : st[i] = Step(st[i - 1], steps[i])) /\ Run(s, steps) = st[n]
  BY <1>1, StepRun
<1> HIDE DEF n
<1> DEFINE S == {i \in 0 .. n : LifeRun(op, st[i])}
<1>3. 0 \in S
  BY <1>1, <1>2
<1>4. ASSUME NEW i \in 0 .. n - 1, i \in S PROVE i + 1 \in S
  <2>1. i + 1 \in 1 .. n /\ (i + 1) - 1 = i /\ i + 1 \in 0 .. n
    BY <1>1
  <2>2. st[i + 1] = Step(st[i], steps[i + 1]) /\ MayDo(op, steps[i + 1])
    BY <1>1, <1>2, <2>1 DEF n
  <2>3. LifeRun(op, st[i + 1])
    BY <1>4, <2>2, LifeRunStep
  <2>4. QED
    BY <2>1, <2>3
<1>5. 0 .. n \subseteq S
  <2> HIDE DEF S
  <2>1. QED
    BY <1>1, <1>3, <1>4, UpTo
<1>6. QED
  BY <1>1, <1>2, <1>5

ShapeInv == DOMAIN manifest = {"rev", "epoch", "parts", "gen"} /\ IsFiles(files)

\* Before the first step.
LEMMA LifeRunNow ==
    ASSUME TopicOk, LogsOk, TxnInv, ShapeInv, NEW op
    PROVE  LifeRun(op, Now)
<1>1. /\ Now.topic = topic /\ Now.log = log /\ Now.producers = producers /\ Now.txns = txns
      /\ Now.journal = journal /\ Now.tail = tail /\ Now.manifest = manifest /\ Now.files = files
      /\ Now.goff = goff
  BY DEF Now
<1>2. DOMAIN Now = {"topic", "manifest", "files", "log", "producers", "index", "snap", "registered",
                    "goff", "txns", "journal", "tail"}
  BY DEF Now
<1>3. Shaped(Now)
  BY <1>1, <1>2 DEF Shaped, LifeShape, TopicOk, ShapeInv
<1>4. LifeInv(Now)
  BY <1>1, <1>3 DEF LifeInv, Shaped, LogsOk, TxnInv, TopicOk
<1>5. LifeTx(Now) /\ LifeLog(Now) /\ LifeKeeps(Now)
  BY <1>1 DEF LifeTx, LifeLog, LifeKeeps
<1>6. QED
  BY <1>3, <1>4, <1>5 DEF LifeRun

\* What a command leaves, whether it ends, is killed or fails.
LifeLeaves(op, then) ==
    /\ \E s : LifeRun(op, s) /\ Become(s)
    /\ up' \in {then, "killed"} /\ UNCHANGED <<work, job, client, told, decided>>

\* Each one.
LEMMA PerformLeaves ==
    ASSUME TopicOk, LogsOk, TxnInv, ShapeInv, CoreInv, NEW op, op \in {"create", "restore"} \/ ~Blocked,
           NEW steps \in Seq(StepNames), \A n \in 1 .. Len(steps) : MayDo(op, steps[n]), NEW then,
           Perform(op, steps, then)
    PROVE  LifeLeaves(op, then)
<1>1. topic.gen \in Nat
  BY DEF TopicOk
<1>2. LifeRun(op, Now)
  BY LifeRunNow
<1>3. up' \in {then, "killed"} /\ UNCHANGED <<work, job, client, told, decided>>
  BY DEF Perform
<1>4. CASE Become(Run(Now, steps))
  <2>1. LifeRun(op, Run(Now, steps))
    BY <1>1, <1>2, LifeRunRun
  <2>2. QED
    BY <1>3, <1>4, <2>1 DEF LifeLeaves
<1>5. ASSUME NEW n \in DOMAIN steps, NEW s \in Partly(Run(Now, SubSeq(steps, 1, n - 1)), steps[n]),
             Become(s) \/ (MayFail(op, steps[n]) /\ Become(Run(s, Rest(op, steps[n]))))
      PROVE  LifeLeaves(op, then)
  <2> DEFINE front == SubSeq(steps, 1, n - 1)
             what == steps[n]
             rest == Rest(op, what)
  <2>1. /\ front \in Seq(StepNames) /\ \A m \in 1 .. Len(front) : MayDo(op, front[m])
    <3>1. n \in 1 .. Len(steps) /\ Len(steps) \in Nat
      OBVIOUS
    <3>2. front \in Seq(StepNames) /\ Len(front) = n - 1 /\ \A m \in 1 .. n - 1 : front[m] = steps[m]
      BY <3>1
    <3> HIDE DEF front
    <3>3. 1 .. Len(front) = 1 .. n - 1 /\ 1 .. n - 1 \subseteq 1 .. Len(steps)
      BY <3>1, <3>2
    <3>4. QED
      BY <3>2, <3>3
  <2>2. MayDo(op, what)
    OBVIOUS
  <2> HIDE DEF front, what
  <2>3. LifeRun(op, Run(Now, front))
    BY <1>1, <1>2, <2>1, LifeRunRun
  <2>4. LifeRun(op, s)
    BY <1>1, <1>5, <2>2, <2>3, LifeRunPartly DEF front, what
  <2>5. ASSUME MayFail(op, what)
        PROVE  rest \in Seq(StepNames) /\ \A m \in 1 .. Len(rest) : MayDo(op, rest[m])
    <3> DEFINE all == <<"groups", "journal", "complete">>
               one == <<"complete">>
    <3>1. /\ all \in Seq(StepNames) /\ one \in Seq(StepNames) /\ << >> \in Seq(StepNames)
          /\ Len(all) = 3 /\ Len(one) = 1 /\ Len(<< >>) = 0
          /\ all[1] = "groups" /\ all[2] = "journal" /\ all[3] = "complete" /\ one[1] = "complete"
      BY DEF StepNames
    <3>2. CASE op \in {"create", "restore"}
      <4>1. op = "create" => what \notin {"remove", "open", "groups", "journal"}
        BY <2>2, <2>5 DEF MayDo, CreateNames, MayFail
      <4>2. rest = << >>
        BY <3>2, <4>1 DEF Rest
      <4>3. QED
        BY <3>1, <4>2
    <3>3. CASE op \notin {"create", "restore"}
      <4>1. rest \in {all, one, << >>}
        BY DEF Rest
      <4>2. \A w \in {"groups", "journal", "complete"} : MayDo(op, w)
        BY <3>3 DEF MayDo, StepNames
      <4> HIDE DEF all, one
      <4>3. 1 .. 3 = {1, 2, 3} /\ 1 .. 1 = {1} /\ 1 .. 0 = {}
        OBVIOUS
      <4>4. CASE rest = all
        BY <3>1, <4>2, <4>3, <4>4
      <4>5. CASE rest = one
        BY <3>1, <4>2, <4>3, <4>5
      <4>6. CASE rest = << >>
        BY <3>1, <4>3, <4>6
      <4>7. QED
        BY <4>1, <4>4, <4>5, <4>6
    <3>4. QED
      BY <3>2, <3>3
  <2> HIDE DEF rest
  <2>6. CASE Become(s)
    BY <1>3, <2>4, <2>6 DEF LifeLeaves
  <2>7. CASE MayFail(op, what) /\ Become(Run(s, rest))
    <3>1. LifeRun(op, Run(s, rest))
      BY <1>1, <2>4, <2>5, <2>7, LifeRunRun
    <3>2. QED
      BY <1>3, <2>7, <3>1 DEF LifeLeaves
  <2>8. QED
    BY <1>5, <2>6, <2>7 DEF rest, what
<1>6. \/ Become(Run(Now, steps))
      \/ \E n \in DOMAIN steps : \E s \in Partly(Run(Now, SubSeq(steps, 1, n - 1)), steps[n]) :
            Become(s) \/ (MayFail(op, steps[n]) /\ Become(Run(s, Rest(op, steps[n]))))
  BY DEF Perform
<1>7. QED
  BY <1>4, <1>5, <1>6

\* The commands and startup.  Only those that need the broker to themselves prune transactions or
\* remove logs; a CREATE may run beside the jobs.
LEMMA LifecycleLeaves ==
    ASSUME TopicOk, LogsOk, TxnInv, ShapeInv, CoreInv, LifecycleStep
    PROVE  \/ Truncate /\ LifeLeaves("truncate", "up")
           \/ Delete /\ LifeLeaves("delete", "up")
           \/ (Create \/ Grow) /\ LifeLeaves("create", "up")
           \/ RestoreTopics /\ LifeLeaves("restore", "recover")
           \/ RecoverPendingTruncations /\ LifeLeaves("recover", "recover")
<1> DEFINE t1 == <<"close", "commit", "remove", "open", "groups", "journal", "complete">>
           t2 == <<"close", "remove", "open", "groups", "journal", "complete">>
           c1 == <<"logs", "define", "open", "default">>
           c2 == <<"logs", "alter", "open", "default">>
           r1 == <<"remove", "fence", "open">>
           r2 == <<"open">>
<1>1. /\ t1 \in Seq(StepNames) /\ t2 \in Seq(StepNames) /\ c1 \in Seq(StepNames) /\ c2 \in Seq(StepNames)
      /\ r1 \in Seq(StepNames) /\ r2 \in Seq(StepNames)
      /\ << >> \in Seq(StepNames) /\ <<"close", "unregister", "remove">> \in Seq(StepNames)
      /\ <<"groups", "journal">> \in Seq(StepNames)
  BY DEF StepNames
<1>2. \A s \in {t1, t2, r1, r2, << >>} : \A n \in 1 .. Len(s) : s[n] \in StepNames
  BY <1>1
<1>3. \A s \in {c1, c2} : \A n \in 1 .. Len(s) : s[n] \in CreateNames /\ s[n] \in StepNames
  <2>1. Len(c1) = 4 /\ Len(c2) = 4 /\ 1 .. 4 = {1, 2, 3, 4}
    OBVIOUS
  <2>2. /\ c1[1] = "logs" /\ c1[2] = "define" /\ c1[3] = "open" /\ c1[4] = "default"
        /\ c2[1] = "logs" /\ c2[2] = "alter" /\ c2[3] = "open" /\ c2[4] = "default"
    OBVIOUS
  <2> HIDE DEF c1, c2
  <2>3. QED
    BY <2>1, <2>2 DEF CreateNames, StepNames
<1>4. \A s \in {r1, r2, << >>} : \A n \in 1 .. Len(s) : s[n] # "journal"
  <2>1. Len(r1) = 3 /\ Len(r2) = 1 /\ 1 .. 3 = {1, 2, 3} /\ 1 .. 1 = {1} /\ 1 .. Len(<< >>) = {}
    OBVIOUS
  <2>2. r1[1] = "remove" /\ r1[2] = "fence" /\ r1[3] = "open" /\ r2[1] = "open"
    OBVIOUS
  <2> HIDE DEF r1, r2
  <2>3. QED
    BY <2>1, <2>2
<1> HIDE DEF t1, t2, c1, c2, r1, r2
<1>5. CASE Truncate
  <2>1. ~Blocked /\ (Perform("truncate", t1, "up") \/ Perform("truncate", t2, "up"))
    BY <1>5 DEF Truncate, t1, t2
  <2>2. \A s \in {t1, t2} : \A n \in 1 .. Len(s) : MayDo("truncate", s[n])
    BY <1>2, <2>1 DEF MayDo
  <2>3. QED
    BY <1>1, <1>5, <2>1, <2>2, PerformLeaves
<1>6. CASE Delete
  <2> DEFINE a == IF topic.reg THEN <<"close", "unregister", "remove">> ELSE << >>
             b == <<"groups", "journal">>
  <2>1. a \in Seq(StepNames) /\ b \in Seq(StepNames)
    BY <1>1
  <2>2. ~Blocked /\ Perform("delete", a \o b, "up")
    BY <1>6 DEF Delete
  <2> HIDE DEF a, b
  <2>3. a \o b \in Seq(StepNames)
    BY <2>1
  <2> DEFINE d == a \o b
  <2> HIDE DEF d
  <2>4. d \in Seq(StepNames) /\ \A n \in 1 .. Len(d) : MayDo("delete", d[n])
    BY <2>2, <2>3 DEF MayDo, d
  <2>5. QED
    BY <1>6, <2>2, <2>4, PerformLeaves DEF d
<1>7. CASE Create \/ Grow
  <2>1. Perform("create", c1, "up") \/ Perform("create", c2, "up")
    BY <1>7 DEF Create, Grow, c1, c2
  <2>2. \A s \in {c1, c2} : \A n \in 1 .. Len(s) : MayDo("create", s[n])
    BY <1>3 DEF MayDo, CreateNames
  <2>3. QED
    BY <1>1, <1>7, <2>1, <2>2, PerformLeaves
<1>8. CASE RestoreTopics
  <2>1. Perform("restore", << >>, "recover") \/ Perform("restore", r1, "recover") \/ Perform("restore", r2, "recover")
    BY <1>8 DEF RestoreTopics, r1, r2
  <2>2. \A s \in {r1, r2, << >>} : \A n \in 1 .. Len(s) : MayDo("restore", s[n])
    BY <1>2, <1>4 DEF MayDo
  <2>3. QED
    BY <1>1, <1>8, <2>1, <2>2, PerformLeaves
<1>9. CASE RecoverPendingTruncations
  <2>1. ~Blocked /\ Perform("recover", t2, "recover")
    BY <1>9 DEF RecoverPendingTruncations, t2
  <2>2. \A n \in 1 .. Len(t2) : MayDo("recover", t2[n])
    BY <1>2, <2>1 DEF MayDo
  <2>3. QED
    BY <1>1, <1>9, <2>1, <2>2, PerformLeaves
<1>10. QED
  BY <1>5, <1>6, <1>7, <1>8, <1>9 DEF LifecycleStep

\* The transactions behind a lifecycle command.
LEMMA LeavesCore ==
    ASSUME TxnInv, CoreInv, NEW op, NEW s, LifeRun(op, s), Become(s), UNCHANGED <<work, job, client, told, decided>>,
           \/ op = "create"
           \/ up = "down"
           \/ \A i \in Ids : ~Locked(i),
           \/ up' \in {"up", "killed"}
           \/ up' = "recover" /\ (up = "down" \/ (up = "recover" /\ topic.fenced))
    PROVE  CoreInv' /\ CoreMoves
<1>1. Ids' = Ids /\ \A b : IdOf(b)' = IdOf(b)
  BY DEF Ids, IdOf, Does
<1>2. \A k \in Ids : StateOk(journal[k], txns[k]) /\ TxOk(journal[k]) /\ TxOk(txns[k]) /\ Later(journal[k], journal[k])
  BY LaterSame DEF CoreInv, StateInv, StateOk
<1>3. /\ txns' = s.txns /\ journal' = s.journal /\ tail' = s.tail
  BY DEF Become
<1>4. ASSUME UNCHANGED <<txns, journal, tail>> PROVE CoreInv' /\ CoreMoves
  <2>1. QuietInv'
    BY <1>1, <1>4 DEF CoreInv, QuietInv, Locked
  <2>2. StateInv' /\ TailInv' /\ DecidedInv'
    BY <1>1, <1>4 DEF CoreInv, StateInv, TailInv, DecidedInv
  <2>3. ClientInv' /\ ToldInv' /\ WorkInv'
    BY <1>1, <1>4 DEF CoreInv, ClientInv, ToldInv, WorkInv, Locked, JobFor
  <2>4. CoreMoves
    BY <1>1, <1>2, <1>4 DEF CoreMoves
  <2>5. QED
    BY <2>1, <2>2, <2>3, <2>4 DEF CoreInv
<1>5. ASSUME ~Blocked, txns' = AllStripped, journal' = AllStripped, tail' = << >>, \A i \in Ids : ~Locked(i)
      PROVE  CoreInv' /\ CoreMoves
  <2>1. ASSUME NEW k \in Ids
        PROVE  TxOk(journal'[k]) /\ txns'[k] = journal'[k] /\ Later(journal[k], journal'[k])
    <3>1. journal'[k] = Stripped(txns[k]) /\ txns'[k] = Stripped(txns[k])
      BY <1>5 DEF AllStripped
    <3>2. ~(References(txns[k]) /\ ~txns[k].expired /\ txns[k].state \in {"open", "committing"})
      BY <1>5 DEF Blocked
    <3>3. TxOk(Stripped(txns[k])) /\ Later(txns[k], Stripped(txns[k]))
      BY <1>2, <3>2, Snapshots
    <3>4. Later(journal[k], txns[k])
      BY <1>2, Journaled
    <3>5. Later(journal[k], Stripped(txns[k]))
      BY <1>2, <3>3, <3>4, LaterTwice
    <3>6. QED
      BY <3>1, <3>3, <3>5
  <2>2. JournalMoves
    BY <1>1, <1>2, <2>1 DEF JournalMoves, Moves
  <2>3. \A k \in Ids : Committed(decided[k], journal'[k])
    BY <1>2, <2>1, CommittedKept DEF CoreInv, DecidedInv
  <2>4. DecidedInv' /\ ToldInv'
    BY <2>2, <2>3, DecidedSame, ToldSame DEF CoreInv
  <2>5. ClientInv'
    <3>1. \A b \in TxnClients : ClientOk(client[b], decided[IdOf(b)], journal'[IdOf(b)])
      BY <2>2, ClientStays
    <3>2. QED
      BY <1>1, <3>1 DEF ClientInv, CoreInv
  <2>6. StateInv' /\ TailInv' /\ WorkInv'
    BY <1>1, <1>5, <2>1 DEF StateInv, StateOk, Follows, TailInv, WorkInv, Locked
  <2>7. QuietInv'
    BY <1>1, <1>5, <2>1 DEF QuietInv, Locked
  <2>8. CoreMoves
    BY <1>1, <1>5, <2>1 DEF CoreMoves
  <2>9. QED
    BY <2>4, <2>5, <2>6, <2>7, <2>8 DEF CoreInv
<1>6. CASE s.txns = txns /\ s.journal = journal /\ s.tail = tail
  BY <1>3, <1>4, <1>6
<1>7. CASE ~(s.txns = txns /\ s.journal = journal /\ s.tail = tail)
  <2>1. op # "create" /\ ~Blocked /\ s.txns = AllStripped /\ s.journal = AllStripped /\ s.tail = << >>
    BY <1>7 DEF LifeRun, LifeKeeps, LifeTx
  <2>2. \A i \in Ids : ~Locked(i)
    BY <2>1 DEF CoreInv, QuietInv
  <2>3. QED
    BY <1>3, <1>5, <2>1, <2>2
<1>8. QED
  BY <1>6, <1>7

\* Every lifecycle command.
LEMMA LifecycleCore ==
    ASSUME TopicOk, LogsOk, TxnInv, ShapeInv, CoreInv, LifecycleStep
    PROVE  /\ CoreInv' /\ CoreMoves
           /\ \E op, s : /\ LifeRun(op, s) /\ Become(s)
                         /\ op # "create" => (\A i \in Ids : ~Locked(i)) /\ (~Blocked \/ up = "down")
                         /\ UNCHANGED <<work, job, client, told, decided>>
<1>1. CASE Truncate /\ LifeLeaves("truncate", "up")
  <2>1. PICK s : LifeRun("truncate", s) /\ Become(s)
    BY <1>1 DEF LifeLeaves
  <2>2. (\A i \in Ids : ~Locked(i)) /\ ~Blocked /\ up' \in {"up", "killed"} /\ UNCHANGED <<work, job, client, told, decided>>
    BY <1>1 DEF LifeLeaves, Truncate, Exclusive
  <2>3. QED
    BY <2>1, <2>2, LeavesCore
<1>2. CASE Delete /\ LifeLeaves("delete", "up")
  <2>1. PICK s : LifeRun("delete", s) /\ Become(s)
    BY <1>2 DEF LifeLeaves
  <2>2. (\A i \in Ids : ~Locked(i)) /\ ~Blocked /\ up' \in {"up", "killed"} /\ UNCHANGED <<work, job, client, told, decided>>
    BY <1>2 DEF LifeLeaves, Delete, Exclusive
  <2>3. QED
    BY <2>1, <2>2, LeavesCore
<1>3. CASE LifeLeaves("create", "up")
  <2>1. PICK s : LifeRun("create", s) /\ Become(s)
    BY <1>3 DEF LifeLeaves
  <2>2. up' \in {"up", "killed"} /\ UNCHANGED <<work, job, client, told, decided>>
    BY <1>3 DEF LifeLeaves
  <2>3. QED
    BY <2>1, <2>2, LeavesCore
<1>4. CASE RestoreTopics /\ LifeLeaves("restore", "recover")
  <2>1. PICK s : LifeRun("restore", s) /\ Become(s)
    BY <1>4 DEF LifeLeaves
  <2>2. up = "down" /\ up' \in {"recover", "killed"} /\ UNCHANGED <<work, job, client, told, decided>>
    BY <1>4 DEF LifeLeaves, RestoreTopics
  <2>3. \A i \in Ids : ~Locked(i)
    BY <2>2 DEF CoreInv, QuietInv
  <2>4. QED
    BY <2>1, <2>2, <2>3, LeavesCore
<1>5. CASE RecoverPendingTruncations /\ LifeLeaves("recover", "recover")
  <2>1. PICK s : LifeRun("recover", s) /\ Become(s)
    BY <1>5 DEF LifeLeaves
  <2>2. up = "recover" /\ topic.fenced /\ ~Blocked /\ up' \in {"recover", "killed"} /\ UNCHANGED <<work, job, client, told, decided>>
    BY <1>5 DEF LifeLeaves, RecoverPendingTruncations
  <2>3. \A i \in Ids : ~Locked(i)
    BY <2>2 DEF CoreInv, QuietInv
  <2>4. QED
    BY <2>1, <2>2, <2>3, LeavesCore
<1>6. QED
  BY <1>1, <1>2, <1>3, <1>4, <1>5, LifecycleLeaves

-----------------------------------------------------------------------------
(* The records and markers of transactions in a partition's log, and what  *)
(* the partition's producer table knows of them.                           *)

\* A record or marker of a transaction; any other record.
PidFor(i, mark) == IF mark THEN MarkerPid(i) ELSE i
IsTxnRec(r) ==
    /\ r.txn \in TxnClients /\ r.epoch \in Epochs /\ r.seq \in Nat \ {0} /\ r.mark \in BOOLEAN
    /\ r.pid = PidFor(r.txn, r.mark) /\ (r.mark => r.seq = 1)
IsPlainRec(r) == r.txn = Plain /\ r.pid \in {Pid, NoPid}

Before(a, b) == a.epoch < b.epoch \/ (a.epoch = b.epoch /\ a.seq < b.seq)

\* A transaction's message under a producer's number, or its marker.
Has(recs, q, e, s) ==
    \E n \in DOMAIN recs : recs[n].txn # Plain /\ recs[n].pid = q /\ recs[n].epoch = e /\ recs[n].seq = s

\* Each transactional producer's records are in order and without a gap in an epoch.
Orderly(recs) ==
    /\ \A n \in DOMAIN recs : IsPlainRec(recs[n]) \/ IsTxnRec(recs[n])
    /\ \A j, k \in DOMAIN recs : j < k /\ recs[j].txn # Plain /\ recs[j].pid = recs[k].pid => Before(recs[j], recs[k])
    /\ \A n \in DOMAIN recs : recs[n].txn # Plain =>
         \A s \in 1 .. recs[n].seq - 1 : Has(recs, recs[n].pid, recs[n].epoch, s)

\* The table has the last record of each.
Tracks(known, recs) ==
    /\ \A n \in DOMAIN recs : recs[n].txn # Plain =>
         /\ recs[n].pid \in DOMAIN known
         /\ \/ Before(recs[n], known[recs[n].pid])
            \/ recs[n].epoch = known[recs[n].pid].epoch /\ recs[n].seq = known[recs[n].pid].seq
    /\ \A q \in DOMAIN known : q \notin {Pid, NoPid} => Has(recs, q, known[q].epoch, known[q].seq)

\* The numbers of transactional producers.
LEMMA Pids ==
    ASSUME NEW i \in TxnClients
    PROVE  /\ i \in Nat /\ i > 0 /\ i \notin {Pid, NoPid, Plain} /\ MarkerPid(i) = -1 - i
           /\ MarkerPid(i) \notin {Pid, NoPid} /\ MarkerPid(i) \in Int
           /\ \A k \in TxnClients : (MarkerPid(i) = MarkerPid(k) => i = k) /\ MarkerPid(i) # k
<1>1. \A k \in TxnClients : k \in Nat /\ k # 0
  BY TxnConstants
<1>2. QED
  BY <1>1 DEF MarkerPid, Pid, NoPid, Plain

\* A record is one or the other, and its number tells which transaction's it is.
LEMMA RecKinds ==
    ASSUME NEW r, IsPlainRec(r) \/ IsTxnRec(r)
    PROVE  /\ r.txn # Plain <=> IsTxnRec(r)
           /\ r.txn # Plain <=> r.pid \notin {Pid, NoPid}
           /\ r.txn # Plain => r.txn \in TxnClients /\ r.epoch \in Int /\ r.seq \in Int /\ r.seq > 0 /\ r.pid \in Int
<1>1. CASE IsTxnRec(r)
  <2>1. r.txn \in TxnClients /\ r.epoch \in Int /\ r.seq \in Int /\ r.seq > 0
    BY <1>1 DEF IsTxnRec, Epochs
  <2>2. r.pid = r.txn \/ r.pid = MarkerPid(r.txn)
    BY <1>1 DEF IsTxnRec, PidFor
  <2>3. r.txn # Plain /\ r.pid \in Int /\ r.pid \notin {Pid, NoPid}
    BY <2>1, <2>2, Pids
  <2>4. QED
    BY <1>1, <2>1, <2>3
<1>2. CASE IsPlainRec(r) /\ ~IsTxnRec(r)
  BY <1>2 DEF IsPlainRec
<1>3. QED
  BY <1>1, <1>2

\* Has, by transaction.
LEMMA HasRecord ==
    ASSUME NEW recs, Orderly(recs), NEW i \in TxnClients, NEW e, NEW s
    PROVE  /\ Has(recs, i, e, s) <=>
                \E n \in DOMAIN recs : recs[n].txn = i /\ ~recs[n].mark /\ recs[n].epoch = e /\ recs[n].seq = s
           /\ Has(recs, MarkerPid(i), e, 1) <=>
                \E n \in DOMAIN recs : recs[n].txn = i /\ recs[n].mark /\ recs[n].epoch = e
<1>1. ASSUME NEW n \in DOMAIN recs, recs[n].txn # Plain \/ recs[n].txn = i
      PROVE  /\ IsTxnRec(recs[n]) /\ recs[n].txn # Plain
             /\ recs[n].pid = i <=> recs[n].txn = i /\ ~recs[n].mark
             /\ recs[n].pid = MarkerPid(i) <=> recs[n].txn = i /\ recs[n].mark
             /\ recs[n].mark => recs[n].seq = 1
  <2>1. i # Plain
    BY Pids
  <2>2. IsTxnRec(recs[n]) /\ recs[n].txn # Plain
    BY <1>1, <2>1, RecKinds DEF Orderly
  <2>3. recs[n].txn \in TxnClients /\ recs[n].mark \in BOOLEAN /\ recs[n].pid = PidFor(recs[n].txn, recs[n].mark)
        /\ (recs[n].mark => recs[n].seq = 1)
    BY <2>2 DEF IsTxnRec
  <2>4. CASE recs[n].mark
    BY <2>2, <2>3, <2>4, Pids DEF PidFor
  <2>5. CASE ~recs[n].mark
    BY <2>2, <2>3, <2>5, Pids DEF PidFor
  <2>6. QED
    BY <2>4, <2>5
<1>2. QED
  BY <1>1 DEF Has

\* A record that the table admits is new and the next one; what it calls a duplicate is there.
LEMMA Admitted ==
    ASSUME NEW recs, IsASeq(recs), Orderly(recs), NEW known, Tracks(known, recs), NEW m, IsTxnRec(m)
    PROVE  LET verdict == ValidateProducer(known, m)
           IN  /\ verdict = "duplicate" => Has(recs, m.pid, m.epoch, m.seq)
               /\ verdict \notin {"duplicate", "error"} =>
                    /\ ~Has(recs, m.pid, m.epoch, m.seq)
                    /\ \A n \in DOMAIN recs : recs[n].txn # Plain /\ recs[n].pid = m.pid => Before(recs[n], m)
                    /\ \A s \in 1 .. m.seq - 1 : Has(recs, m.pid, m.epoch, s)
<1>1. m.pid \notin {Pid, NoPid} /\ m.pid \in Int /\ m.epoch \in Int /\ m.seq \in Int /\ m.seq > 0
  BY RecKinds
<1>2. \A n \in DOMAIN recs : recs[n].txn # Plain => recs[n].epoch \in Int /\ recs[n].seq \in Int /\ recs[n].seq > 0
  BY RecKinds DEF Orderly
<1>3. CASE m.pid \notin DOMAIN known
  <2>1. \A n \in DOMAIN recs : recs[n].txn # Plain => recs[n].pid # m.pid
    BY <1>3 DEF Tracks
  <2>2. ValidateProducer(known, m) \notin {"duplicate", "error"} => m.seq = 1
    BY <1>3 DEF ValidateProducer
  <2>3. ValidateProducer(known, m) # "duplicate"
    BY <1>3 DEF ValidateProducer
  <2>4. QED
    BY <1>1, <2>1, <2>2, <2>3 DEF Has
<1>4. CASE m.pid \in DOMAIN known
  <2> DEFINE last == known[m.pid]
  <2>1. PICK n \in DOMAIN recs : recs[n].txn # Plain /\ recs[n].pid = m.pid /\ recs[n].epoch = last.epoch
                                 /\ recs[n].seq = last.seq
    BY <1>1, <1>4 DEF Tracks, Has
  <2>2. last.epoch \in Int /\ last.seq \in Int /\ last.seq > 0
    BY <1>2, <2>1
  <2>3. \A s \in 1 .. last.seq : Has(recs, m.pid, last.epoch, s)
    <3>1. \A s \in 1 .. last.seq - 1 : Has(recs, m.pid, last.epoch, s)
      BY <2>1 DEF Orderly
    <3>2. Has(recs, m.pid, last.epoch, last.seq)
      BY <2>1 DEF Has
    <3>3. QED
      BY <2>2, <3>1, <3>2
  <2>4. ASSUME NEW k \in DOMAIN recs, recs[k].txn # Plain, recs[k].pid = m.pid
        PROVE  recs[k].epoch < last.epoch \/ (recs[k].epoch = last.epoch /\ recs[k].seq <= last.seq)
    <3>1. Before(recs[k], last) \/ (recs[k].epoch = last.epoch /\ recs[k].seq = last.seq)
      BY <2>4 DEF Tracks
    <3>2. QED
      BY <1>2, <2>2, <2>4, <3>1 DEF Before
  <2>5. /\ ValidateProducer(known, m) = "duplicate" => m.epoch = last.epoch /\ m.seq <= last.seq
        /\ ValidateProducer(known, m) \notin {"duplicate", "error"} =>
             \/ m.epoch > last.epoch /\ m.seq = 1
             \/ m.epoch = last.epoch /\ m.seq = last.seq + 1
    BY <1>1, <1>4, <2>2 DEF ValidateProducer
  <2> HIDE DEF last
  <2>6. ASSUME ValidateProducer(known, m) = "duplicate" PROVE Has(recs, m.pid, m.epoch, m.seq)
    BY <1>1, <2>2, <2>3, <2>5, <2>6
  <2>7. ASSUME ValidateProducer(known, m) \notin {"duplicate", "error"}
        PROVE  \A k \in DOMAIN recs : recs[k].txn # Plain /\ recs[k].pid = m.pid => Before(recs[k], m)
    BY <1>1, <1>2, <2>2, <2>4, <2>5, <2>7 DEF Before
  <2>8. ASSUME ValidateProducer(known, m) \notin {"duplicate", "error"}
        PROVE  ~Has(recs, m.pid, m.epoch, m.seq)
    BY <1>1, <1>2, <2>7, <2>8 DEF Has, Before
  <2>9. ASSUME ValidateProducer(known, m) \notin {"duplicate", "error"}
        PROVE  \A s \in 1 .. m.seq - 1 : Has(recs, m.pid, m.epoch, s)
    BY <1>1, <2>2, <2>3, <2>5, <2>9
  <2>10. QED
    BY <2>6, <2>7, <2>8, <2>9
<1>5. QED
  BY <1>3, <1>4

\* What the table knows after a record.
LEMMA KnownFields ==
    ASSUME NEW known, NEW m
    PROVE  /\ m.pid = NoPid => Known(known, m) = known
           /\ m.pid # NoPid =>
                /\ DOMAIN Known(known, m) = DOMAIN known \cup {m.pid}
                /\ Known(known, m)[m.pid].epoch = m.epoch /\ Known(known, m)[m.pid].seq = m.seq
                /\ \A q \in DOMAIN known : q # m.pid => Known(known, m)[q] = known[q]
  BY DEF Known

\* One more record: the table follows.
LEMMA TracksNext ==
    ASSUME NEW recs, IsASeq(recs), Orderly(recs), NEW known, Tracks(known, recs), NEW m, IsTxnRec(m),
           \A n \in DOMAIN recs : recs[n].txn # Plain /\ recs[n].pid = m.pid => Before(recs[n], m)
    PROVE  Tracks(Known(known, m), Append(recs, m))
<1> DEFINE new == Append(recs, m)
           now == Known(known, m)
           end == Len(recs) + 1
<1>1. /\ Len(recs) \in Nat /\ DOMAIN recs = 1 .. Len(recs) /\ DOMAIN new = 1 .. end
      /\ \A n \in DOMAIN recs : new[n] = recs[n]
      /\ new[end] = m
  BY AppendAny
<1>2. m.pid \notin {Pid, NoPid} /\ m.txn # Plain
  BY RecKinds
<1>3. /\ DOMAIN now = DOMAIN known \cup {m.pid}
      /\ now[m.pid].epoch = m.epoch /\ now[m.pid].seq = m.seq
      /\ \A q \in DOMAIN known : q # m.pid => now[q] = known[q]
  BY <1>2, KnownFields
<1> HIDE DEF new, now
<1>4. \A n \in DOMAIN new : n \in DOMAIN recs \/ n = end
  BY <1>1 DEF end
<1>5. DOMAIN recs \subseteq DOMAIN new /\ end \in DOMAIN new
  BY <1>1 DEF end
<1> HIDE DEF end
<1>6. ASSUME NEW n \in DOMAIN new, new[n].txn # Plain
      PROVE  /\ new[n].pid \in DOMAIN now
             /\ \/ Before(new[n], now[new[n].pid])
                \/ new[n].epoch = now[new[n].pid].epoch /\ new[n].seq = now[new[n].pid].seq
  <2>1. CASE n = end
    BY <1>1, <1>3, <2>1
  <2>2. CASE n \in DOMAIN recs /\ new[n].pid = m.pid
    <3>1. Before(recs[n], m) /\ recs[n] = new[n]
      BY <1>1, <1>6, <2>2
    <3>2. QED
      BY <1>3, <2>2, <3>1 DEF Before
  <2>3. CASE n \in DOMAIN recs /\ new[n].pid # m.pid
    <3>1. /\ new[n].pid \in DOMAIN known
          /\ \/ Before(new[n], known[new[n].pid])
             \/ new[n].epoch = known[new[n].pid].epoch /\ new[n].seq = known[new[n].pid].seq
      BY <1>1, <1>6, <2>3 DEF Tracks
    <3>2. QED
      BY <1>3, <2>3, <3>1
  <2>4. QED
    BY <1>4, <2>1, <2>2, <2>3
<1>7. ASSUME NEW q \in DOMAIN now, q \notin {Pid, NoPid} PROVE Has(new, q, now[q].epoch, now[q].seq)
  <2>1. CASE q = m.pid
    BY <1>1, <1>2, <1>3, <1>5, <2>1 DEF Has
  <2>2. CASE q # m.pid
    <3>1. q \in DOMAIN known /\ now[q] = known[q]
      BY <1>3, <2>2
    <3>2. Has(recs, q, known[q].epoch, known[q].seq)
      BY <1>7, <3>1 DEF Tracks
    <3>3. QED
      BY <1>1, <1>5, <3>1, <3>2 DEF Has
  <2>3. QED
    BY <2>1, <2>2
<1>8. Tracks(now, new)
  BY <1>6, <1>7 DEF Tracks
<1>9. QED
  BY <1>8 DEF new, now

\* And it is in its place.
LEMMA OrderlyNext ==
    ASSUME NEW recs, IsASeq(recs), Orderly(recs), NEW m, IsTxnRec(m),
           \A n \in DOMAIN recs : recs[n].txn # Plain /\ recs[n].pid = m.pid => Before(recs[n], m),
           \A s \in 1 .. m.seq - 1 : Has(recs, m.pid, m.epoch, s)
    PROVE  Orderly(Append(recs, m))
<1> DEFINE new == Append(recs, m)
           end == Len(recs) + 1
<1>1. /\ Len(recs) \in Nat /\ DOMAIN recs = 1 .. Len(recs) /\ DOMAIN new = 1 .. end
      /\ \A n \in DOMAIN recs : new[n] = recs[n]
      /\ new[end] = m
  BY AppendAny
<1> HIDE DEF new
<1>2. /\ \A n \in DOMAIN new : n \in DOMAIN recs \/ n = end
      /\ \A j, k \in DOMAIN new : j < k => j \in DOMAIN recs
      /\ DOMAIN recs \subseteq DOMAIN new
  BY <1>1 DEF end
<1> HIDE DEF end
<1>3. \A q, e, s : Has(recs, q, e, s) => Has(new, q, e, s)
  BY <1>1, <1>2 DEF Has
<1>4. \A n \in DOMAIN new : IsPlainRec(new[n]) \/ IsTxnRec(new[n])
  BY <1>1, <1>2 DEF Orderly
<1>5. ASSUME NEW j \in DOMAIN new, NEW k \in DOMAIN new, j < k, new[j].txn # Plain, new[j].pid = new[k].pid
      PROVE  Before(new[j], new[k])
  <2>1. j \in DOMAIN recs /\ new[j] = recs[j]
    BY <1>1, <1>2, <1>5
  <2>2. CASE k = end
    BY <1>1, <1>5, <2>1, <2>2
  <2>3. CASE k \in DOMAIN recs
    BY <1>1, <1>5, <2>1, <2>3 DEF Orderly
  <2>4. QED
    BY <1>2, <2>2, <2>3
<1>6. ASSUME NEW n \in DOMAIN new, new[n].txn # Plain, NEW s \in 1 .. new[n].seq - 1
      PROVE  Has(new, new[n].pid, new[n].epoch, s)
  <2>1. CASE n = end
    BY <1>1, <1>3, <1>6, <2>1
  <2>2. CASE n \in DOMAIN recs
    <3>1. Has(recs, recs[n].pid, recs[n].epoch, s)
      BY <1>1, <1>6, <2>2 DEF Orderly
    <3>2. QED
      BY <1>1, <1>3, <2>2, <3>1
  <2>3. QED
    BY <1>2, <2>1, <2>2
<1>7. Orderly(new)
  BY <1>4, <1>5, <1>6 DEF Orderly
<1>8. QED
  BY <1>7 DEF new

\* The decisions d and the records recs of partition p: only prepared messages are written, and a
\* marker stands behind all of its transaction.
Marked(p, recs, d) ==
    /\ \A n \in DOMAIN recs : recs[n].txn # Plain =>
         LET x == d[recs[n].txn][recs[n].epoch]
         IN  /\ recs[n].txn \in DOMAIN d /\ x.gen # 0
             /\ ~recs[n].mark => <<p, recs[n].seq>> \in x.msgs
             /\ recs[n].mark => \A m \in x.msgs : m[1] = p => Has(recs, recs[n].txn, recs[n].epoch, m[2])
    /\ \A j, k \in DOMAIN recs :
         recs[j].txn # Plain /\ recs[j].txn = recs[k].txn /\ recs[j].epoch = recs[k].epoch
           /\ ~recs[j].mark /\ recs[k].mark => j < k

\* Other records behind those of recs; the table changes only for their producers.
PlainTo(recs, known, new, now) ==
    /\ IsASeq(new) /\ Len(recs) <= Len(new)
    /\ \A n \in 1 .. Len(recs) : new[n] = recs[n]
    /\ \A n \in 1 .. Len(new) : n > Len(recs) => IsPlainRec(new[n])
    /\ \A q : q \notin {Pid, NoPid} => /\ q \in DOMAIN now <=> q \in DOMAIN known
                                       /\ q \in DOMAIN known => now[q] = known[q]

\* A record or marker whose turn it is.
LEMMA MarkedNext ==
    ASSUME NEW p, NEW recs, IsASeq(recs), Orderly(recs), NEW d, Marked(p, recs, d), NEW m, IsTxnRec(m),
           m.txn \in DOMAIN d, d[m.txn][m.epoch].gen # 0,
           ~m.mark => <<p, m.seq>> \in d[m.txn][m.epoch].msgs,
           m.mark => \A x \in d[m.txn][m.epoch].msgs : x[1] = p => Has(recs, m.txn, m.epoch, x[2]),
           ~Has(recs, m.pid, m.epoch, m.seq)
    PROVE  Marked(p, Append(recs, m), d)
<1> DEFINE new == Append(recs, m)
           end == Len(recs) + 1
<1>1. /\ Len(recs) \in Nat /\ DOMAIN recs = 1 .. Len(recs) /\ DOMAIN new = 1 .. end
      /\ \A n \in DOMAIN recs : new[n] = recs[n]
      /\ new[end] = m
  BY AppendAny
<1> HIDE DEF new
<1>2. /\ \A n \in DOMAIN new : n \in DOMAIN recs \/ n = end
      /\ \A j \in DOMAIN recs : j < end
      /\ DOMAIN recs \subseteq DOMAIN new
  BY <1>1 DEF end
<1> HIDE DEF end
<1>3. \A q, e, s : Has(recs, q, e, s) => Has(new, q, e, s)
  BY <1>1, <1>2 DEF Has
<1>4. ASSUME NEW n \in DOMAIN new, new[n].txn # Plain
      PROVE  LET x == d[new[n].txn][new[n].epoch]
             IN  /\ new[n].txn \in DOMAIN d /\ x.gen # 0
                 /\ ~new[n].mark => <<p, new[n].seq>> \in x.msgs
                 /\ new[n].mark => \A y \in x.msgs : y[1] = p => Has(new, new[n].txn, new[n].epoch, y[2])
  <2>1. CASE n = end
    BY <1>1, <1>3, <2>1
  <2>2. CASE n \in DOMAIN recs
    <3>1. LET x == d[recs[n].txn][recs[n].epoch]
          IN  /\ recs[n].txn \in DOMAIN d /\ x.gen # 0
              /\ ~recs[n].mark => <<p, recs[n].seq>> \in x.msgs
              /\ recs[n].mark => \A y \in x.msgs : y[1] = p => Has(recs, recs[n].txn, recs[n].epoch, y[2])
      BY <1>1, <1>4, <2>2 DEF Marked
    <3>2. QED
      BY <1>1, <1>3, <2>2, <3>1
  <2>3. QED
    BY <1>2, <2>1, <2>2
<1>5. ASSUME NEW j \in DOMAIN new, NEW k \in DOMAIN new, new[j].txn # Plain, new[j].txn = new[k].txn,
             new[j].epoch = new[k].epoch, ~new[j].mark, new[k].mark
      PROVE  j < k
  <2>1. CASE j = end
    <3>1. k \in DOMAIN recs /\ new[k] = recs[k] /\ new[j] = m
      BY <1>1, <1>2, <1>5, <2>1
    <3>2. <<p, m.seq>> \in d[m.txn][m.epoch].msgs
      BY <1>5, <3>1
    <3>3. \A y \in d[m.txn][m.epoch].msgs : y[1] = p => Has(recs, m.txn, m.epoch, y[2])
      BY <1>5, <3>1 DEF Marked
    <3>4. Has(recs, m.txn, m.epoch, m.seq)
      BY <3>2, <3>3
    <3>5. m.pid = m.txn
      BY <1>5, <3>1 DEF IsTxnRec, PidFor
    <3>6. QED
      BY <3>4, <3>5
  <2>2. CASE j \in DOMAIN recs /\ k = end
    BY <1>2, <2>2
  <2>3. CASE j \in DOMAIN recs /\ k \in DOMAIN recs
    BY <1>1, <1>5, <2>3 DEF Marked
  <2>4. QED
    BY <1>2, <2>1, <2>2, <2>3
<1>6. Marked(p, new, d)
  BY <1>4, <1>5 DEF Marked
<1>7. QED
  BY <1>6 DEF new

\* Other records disturb nothing.
LEMMA PlainKeeps ==
    ASSUME NEW recs, IsASeq(recs), NEW known, NEW new, NEW now, PlainTo(recs, known, new, now), Orderly(recs),
           NEW p, NEW d
    PROVE  /\ Orderly(new)
           /\ Tracks(known, recs) => Tracks(now, new)
           /\ Marked(p, recs, d) => Marked(p, new, d)
           /\ \A q, e, s : Has(recs, q, e, s) => Has(new, q, e, s)
<1>1. /\ Len(recs) \in Nat /\ Len(new) \in Nat /\ DOMAIN recs = 1 .. Len(recs) /\ DOMAIN new = 1 .. Len(new)
  BY AnySeq DEF IsASeq, PlainTo
<1>2. /\ DOMAIN recs \subseteq DOMAIN new
      /\ \A n \in DOMAIN recs : new[n] = recs[n]
      /\ \A n \in DOMAIN new : n \notin DOMAIN recs => IsPlainRec(new[n])
  BY <1>1 DEF PlainTo
<1>3. \A n \in DOMAIN new : new[n].txn # Plain => n \in DOMAIN recs /\ new[n] = recs[n]
  BY <1>2 DEF IsPlainRec
<1>4. \A q, e, s : Has(recs, q, e, s) <=> Has(new, q, e, s)
  BY <1>2, <1>3 DEF Has
<1>5. \A n \in DOMAIN recs : recs[n].txn # Plain => recs[n].pid \notin {Pid, NoPid}
  BY RecKinds DEF Orderly
<1>6. Orderly(new)
  <2>1. \A n \in DOMAIN new : IsPlainRec(new[n]) \/ IsTxnRec(new[n])
    BY <1>2 DEF Orderly
  <2>2. ASSUME NEW j \in DOMAIN new, NEW k \in DOMAIN new, j < k, new[j].txn # Plain, new[j].pid = new[k].pid
        PROVE  Before(new[j], new[k])
    <3>1. j \in DOMAIN recs /\ new[j] = recs[j] /\ new[j].pid \notin {Pid, NoPid}
      BY <1>3, <1>5, <2>2
    <3>2. k \in DOMAIN recs /\ new[k] = recs[k]
      BY <1>2, <2>2, <3>1 DEF IsPlainRec
    <3>3. QED
      BY <2>2, <3>1, <3>2 DEF Orderly
  <2>3. ASSUME NEW n \in DOMAIN new, new[n].txn # Plain, NEW s \in 1 .. new[n].seq - 1
        PROVE  Has(new, new[n].pid, new[n].epoch, s)
    BY <1>3, <1>4, <2>3 DEF Orderly
  <2>4. QED
    BY <2>1, <2>2, <2>3 DEF Orderly
<1>7. ASSUME Tracks(known, recs) PROVE Tracks(now, new)
  <2>1. \A q : q \notin {Pid, NoPid} => /\ q \in DOMAIN now <=> q \in DOMAIN known
                                        /\ q \in DOMAIN known => now[q] = known[q]
    BY DEF PlainTo
  <2>2. ASSUME NEW n \in DOMAIN new, new[n].txn # Plain
        PROVE  /\ new[n].pid \in DOMAIN now
               /\ \/ Before(new[n], now[new[n].pid])
                  \/ new[n].epoch = now[new[n].pid].epoch /\ new[n].seq = now[new[n].pid].seq
    <3>1. n \in DOMAIN recs /\ new[n] = recs[n] /\ new[n].pid \notin {Pid, NoPid}
      BY <1>3, <1>5, <2>2
    <3>2. QED
      BY <1>7, <2>1, <2>2, <3>1 DEF Tracks
  <2>3. ASSUME NEW q \in DOMAIN now, q \notin {Pid, NoPid} PROVE Has(new, q, now[q].epoch, now[q].seq)
    BY <1>4, <1>7, <2>1, <2>3 DEF Tracks
  <2>4. QED
    BY <2>2, <2>3 DEF Tracks
<1>8. ASSUME Marked(p, recs, d) PROVE Marked(p, new, d)
  <2>1. ASSUME NEW n \in DOMAIN new, new[n].txn # Plain
        PROVE  LET x == d[new[n].txn][new[n].epoch]
               IN  /\ new[n].txn \in DOMAIN d /\ x.gen # 0
                   /\ ~new[n].mark => <<p, new[n].seq>> \in x.msgs
                   /\ new[n].mark => \A y \in x.msgs : y[1] = p => Has(new, new[n].txn, new[n].epoch, y[2])
    BY <1>3, <1>4, <1>8, <2>1 DEF Marked
  <2>2. ASSUME NEW j \in DOMAIN new, NEW k \in DOMAIN new, new[j].txn # Plain, new[j].txn = new[k].txn,
               new[j].epoch = new[k].epoch, ~new[j].mark, new[k].mark
        PROVE  j < k
    BY <1>3, <1>8, <2>2 DEF Marked
  <2>3. QED
    BY <2>1, <2>2 DEF Marked
<1>9. QED
  BY <1>4, <1>6, <1>7, <1>8

\* Nothing is written.
LEMMA PlainSame ==
    ASSUME NEW recs, IsASeq(recs), NEW known
    PROVE  PlainTo(recs, known, recs, known)
  BY AnySeq DEF PlainTo, IsASeq

\* One record more.
LEMMA PlainNext ==
    ASSUME NEW recs, IsASeq(recs), NEW known, NEW r, NEW k, PlainTo(recs, known, r, k), NEW m, IsPlainRec(m),
           NEW now, now \in {k, Known(k, m)}
    PROVE  PlainTo(recs, known, Append(r, m), now)
<1> DEFINE new == Append(r, m)
<1>1. Len(recs) \in Nat
  BY AnySeq DEF IsASeq
<1>2. /\ Len(r) \in Nat /\ DOMAIN new = 1 .. Len(r) + 1 /\ IsASeq(new)
      /\ \A n \in 1 .. Len(r) : new[n] = r[n]
      /\ new[Len(r) + 1] = m
  BY AppendAny DEF PlainTo
<1>3. Len(new) = Len(r) + 1
  BY <1>2, AnySeq DEF IsASeq
<1> HIDE DEF new
<1>4. \A n \in 1 .. Len(recs) : new[n] = recs[n]
  BY <1>1, <1>2, <1>3 DEF PlainTo
<1>5. \A n \in 1 .. Len(new) : n > Len(recs) => IsPlainRec(new[n])
  BY <1>1, <1>2, <1>3 DEF PlainTo
<1>6. ASSUME NEW q, q \notin {Pid, NoPid}
      PROVE  (q \in DOMAIN now <=> q \in DOMAIN known) /\ (q \in DOMAIN known => now[q] = known[q])
  <2>1. (q \in DOMAIN k <=> q \in DOMAIN known) /\ (q \in DOMAIN known => k[q] = known[q])
    BY <1>6 DEF PlainTo
  <2>2. q # m.pid
    BY <1>6 DEF IsPlainRec
  <2>3. (q \in DOMAIN now <=> q \in DOMAIN k) /\ (q \in DOMAIN k => now[q] = k[q])
    <3>1. CASE now = k \/ m.pid = NoPid
      BY <3>1, KnownFields
    <3>2. CASE now = Known(k, m) /\ m.pid # NoPid
      <4>1. DOMAIN now = DOMAIN k \cup {m.pid} /\ \A a \in DOMAIN k : a # m.pid => now[a] = k[a]
        BY <3>2, KnownFields
      <4>2. QED
        BY <2>2, <4>1
    <3>3. QED
      BY <3>1, <3>2
  <2>4. QED
    BY <2>1, <2>3
<1>7. PlainTo(recs, known, new, now)
  BY <1>1, <1>2, <1>3, <1>4, <1>5, <1>6 DEF PlainTo
<1>8. QED
  BY <1>7 DEF new

\* RecoverProducerStateFromLog: the table that a scan of the log makes has the last record of each.
LEMMA RecoverTracks ==
    ASSUME NEW recs, IsASeq(recs), Orderly(recs)
    PROVE  Tracks(RecoverProducers(recs), recs)
<1> DEFINE n == Len(recs)
           Scanned(known, i) ==
             /\ \A j \in DOMAIN recs : j <= i /\ recs[j].txn # Plain =>
                  /\ recs[j].pid \in DOMAIN known
                  /\ \/ Before(recs[j], known[recs[j].pid])
                     \/ recs[j].epoch = known[recs[j].pid].epoch /\ recs[j].seq = known[recs[j].pid].seq
             /\ \A q \in DOMAIN known : q \notin {Pid, NoPid} => Has(recs, q, known[q].epoch, known[q].seq)
<1>1. n \in Nat /\ DOMAIN recs = 1 .. n
  BY AnySeq DEF IsASeq
<1>2. PICK st : /\ st[0] = << >>
                /\ \A i \in 1 .. n : st[i] = Known(st[i - 1], recs[i])
                /\ RecoverProducers(recs) = st[n]
  BY <1>1, RecoverRun
<1> HIDE DEF n
<1> DEFINE S == {i \in 0 .. n : Scanned(st[i], i)}
<1>3. 0 \in S
  <2>1. Scanned(<< >>, 0)
    BY <1>1
  <2>2. QED
    BY <1>1, <1>2, <2>1
<1>4. ASSUME NEW i \in 0 .. n - 1, i \in S PROVE i + 1 \in S
  <2> DEFINE old == st[i]
             r   == recs[i + 1]
             new == Known(old, r)
  <2>0. Scanned(old, i)
    BY <1>4
  <2>1. i + 1 \in 1 .. n /\ i + 1 \in DOMAIN recs /\ (i + 1) - 1 = i /\ i + 1 \in 0 .. n
    BY <1>1
  <2>2. st[i + 1] = new
    BY <1>2, <2>1
  <2>3. /\ r.pid = NoPid => new = old
        /\ r.pid # NoPid => /\ DOMAIN new = DOMAIN old \cup {r.pid}
                            /\ new[r.pid].epoch = r.epoch /\ new[r.pid].seq = r.seq
                            /\ \A q \in DOMAIN old : q # r.pid => new[q] = old[q]
    BY KnownFields
  <2>4. IsPlainRec(r) \/ IsTxnRec(r)
    BY <2>1 DEF Orderly
  <2>5. r.txn # Plain <=> r.pid \notin {Pid, NoPid}
    BY <2>4, RecKinds
  <2>6. \A j \in DOMAIN recs : recs[j].txn # Plain => recs[j].pid \notin {Pid, NoPid}
    BY RecKinds DEF Orderly
  <2>7. \A j \in DOMAIN recs : j <= i /\ recs[j].txn # Plain /\ recs[j].pid = r.pid => Before(recs[j], r)
    BY <1>1, <2>1 DEF Orderly
  <2>8. r.txn # Plain => Has(recs, r.pid, r.epoch, r.seq)
    BY <2>1 DEF Has
  <2> HIDE DEF new
  <2>9. ASSUME NEW j \in DOMAIN recs, j <= i + 1, recs[j].txn # Plain
        PROVE  /\ recs[j].pid \in DOMAIN new
               /\ \/ Before(recs[j], new[recs[j].pid])
                  \/ recs[j].epoch = new[recs[j].pid].epoch /\ recs[j].seq = new[recs[j].pid].seq
    <3>1. j <= i \/ j = i + 1
      BY <1>1, <2>9
    <3>2. CASE j = i + 1
      BY <2>3, <2>5, <2>9, <3>2
    <3>3. CASE j <= i /\ recs[j].pid = r.pid
      <4>1. r.pid # NoPid /\ Before(recs[j], r)
        BY <2>6, <2>7, <2>9, <3>3
      <4>2. QED
        BY <2>3, <3>3, <4>1 DEF Before
    <3>4. CASE j <= i /\ recs[j].pid # r.pid
      <4>1. /\ recs[j].pid \in DOMAIN old
            /\ \/ Before(recs[j], old[recs[j].pid])
               \/ recs[j].epoch = old[recs[j].pid].epoch /\ recs[j].seq = old[recs[j].pid].seq
        BY <2>0, <2>9, <3>4
      <4>2. recs[j].pid \in DOMAIN new /\ new[recs[j].pid] = old[recs[j].pid]
        BY <2>3, <3>4, <4>1
      <4>3. QED
        BY <4>1, <4>2
    <3>5. QED
      BY <3>1, <3>2, <3>3, <3>4
  <2>10. ASSUME NEW q \in DOMAIN new, q \notin {Pid, NoPid} PROVE Has(recs, q, new[q].epoch, new[q].seq)
    <3>1. CASE q \in DOMAIN old /\ new[q] = old[q]
      BY <2>0, <2>10, <3>1
    <3>2. CASE ~(q \in DOMAIN old /\ new[q] = old[q])
      BY <2>3, <2>5, <2>8, <2>10, <3>2
    <3>3. QED
      BY <3>1, <3>2
  <2>11. Scanned(new, i + 1)
    BY <2>9, <2>10
  <2>12. QED
    BY <2>1, <2>2, <2>11
<1>5. 0 .. n \subseteq S
  <2> HIDE DEF S
  <2>1. QED
    BY <1>1, <1>3, <1>4, UpTo
<1>6. Scanned(st[n], n)
  BY <1>1, <1>5
<1>7. QED
  BY <1>1, <1>2, <1>6 DEF Tracks

\* The ids are producers' numbers.
LEMMA IdsClients == Ids \subseteq TxnClients
<1>1. TxnClients \in SUBSET Nat /\ TxnClients # {}
  BY TxnConstants
<1>2. PICK x \in TxnClients : \A y \in TxnClients : x <= y
  BY <1>1, LeastNat
<1>3. Min(TxnClients) \in TxnClients
  BY <1>2 DEF Min
<1>4. QED
  BY <1>3 DEF Ids

\* A batch of the producer's, or part of one.
LEMMA BatchPlain ==
    ASSUME NEW p, IsASeq(log[p]), NEW msgs, Len(msgs) \in Nat, \A n \in 1 .. Len(msgs) : IsPlainRec(msgs[n])
    PROVE  PlainTo(log[p], producers[p], EnqueueAll(p, msgs).recs, EnqueueAll(p, msgs).known)
<1> DEFINE n == Len(msgs)
           Good(st) == Staged(st) /\ PlainTo(log[p], producers[p], st.recs, st.known)
<1>1. PICK st : /\ st[0] = [recs |-> log[p], known |-> producers[p], bad |-> FALSE]
                /\ \A i \in 1 .. n : st[i] = Enqueue(st[i - 1], msgs[i])
                /\ EnqueueAll(p, msgs) = st[n]
  BY EnqueueRun
<1>2. n \in Nat
  OBVIOUS
<1>0. \A i \in 1 .. n : IsPlainRec(msgs[i])
  OBVIOUS
<1> HIDE DEF n
<1> DEFINE S == {i \in 0 .. n : Good(st[i])}
<1>3. 0 \in S
  <2>1. Staged(st[0]) /\ st[0].recs = log[p] /\ st[0].known = producers[p]
    BY <1>1 DEF Staged
  <2>2. Good(st[0])
    BY <2>1, PlainSame
  <2>3. QED
    BY <1>2, <2>2
<1>4. ASSUME NEW i \in 0 .. n - 1, i \in S PROVE i + 1 \in S
  <2>0. Staged(st[i]) /\ PlainTo(log[p], producers[p], st[i].recs, st[i].known)
    BY <1>4
  <2>1. i + 1 \in 1 .. n /\ (i + 1) - 1 = i /\ i + 1 \in 0 .. n
    BY <1>2
  <2>2. st[i + 1] = Enqueue(st[i], msgs[i + 1])
    BY <1>1, <2>1
  <2> DEFINE old == st[i]
             m == msgs[i + 1]
             new == Enqueue(st[i], msgs[i + 1])
  <2>3. Staged(new) /\ \/ new.recs = old.recs /\ new.known = old.known
                       \/ new = old
                       \/ new.recs = Append(old.recs, m) /\ new.known = Known(old.known, m)
    BY <2>0, EnqueueCases
  <2>4. IsPlainRec(m)
    BY <1>0, <2>1
  <2> HIDE DEF new, m
  <2>5. PlainTo(log[p], producers[p], Append(old.recs, m), Known(old.known, m))
    BY <2>0, <2>4, PlainNext
  <2>6. PlainTo(log[p], producers[p], new.recs, new.known)
    BY <2>0, <2>3, <2>5
  <2>7. Good(new)
    BY <2>3, <2>6
  <2>8. QED
    BY <2>1, <2>2, <2>7 DEF new
<1>5. 0 .. n \subseteq S
  <2> HIDE DEF S
  <2>1. QED
    BY <1>2, <1>3, <1>4, UpTo
<1>6. QED
  BY <1>1, <1>2, <1>5

-----------------------------------------------------------------------------
(* What is decided, what is still to be done and what is in the logs.      *)

RecordsInv ==
    \A p \in Partitions :
        /\ Orderly(log[p]) /\ Marked(p, log[p], decided)
        /\ topic.reg => Tracks(producers[p], log[p])

\* Of the transaction's messages M: what is in the logs l.
RecordIn(l, i, e, m) == Has(l[m[1]], i, e, m[2])
MarkerIn(l, i, e, m) == Has(l[m[1]], MarkerPid(i), e, 1)
WholeIn(l, i, e, M) == \A m \in M : RecordIn(l, i, e, m) /\ MarkerIn(l, i, e, m)

\* The parts of a job and their order: records, markers, offsets, outcome.
RecTask(i, e, m) == [do |-> "write", p |-> m[1], rec |-> Record(i, e, m[2], i, FALSE)]
MarkTask(i, e, m) == [do |-> "write", p |-> m[1], rec |-> Record(MarkerPid(i), e, 1, i, TRUE)]
Rank(t) ==
    IF t.do = "apply" THEN 0
    ELSE IF t.do = "write" THEN IF t.rec.mark THEN 2 ELSE 1
    ELSE IF t.do = "offsets" THEN 3 ELSE 4
TaskOk(t, i, e, M) ==
    \/ t.do \in {"apply", "offsets", "decide"}
    \/ \E m \in M : t = RecTask(i, e, m) \/ t = MarkTask(i, e, m)
InOrderOf(t) == \A a, b \in DOMAIN t : a < b => Rank(t[a]) <= Rank(t[b])

\* What todo leaves out is in the logs.
Covers(todo, i, e, M, l) ==
    \A m \in M :
        /\ RecordIn(l, i, e, m) \/ \E n \in DOMAIN todo : todo[n] = RecTask(i, e, m)
        /\ MarkerIn(l, i, e, m) \/ \E n \in DOMAIN todo : todo[n] = MarkTask(i, e, m)
Plan(todo, i, e, M, l) ==
    /\ \A n \in DOMAIN todo : TaskOk(todo[n], i, e, M)
    /\ InOrderOf(todo) /\ Covers(todo, i, e, M, l)

MsgsOf(i) == decided[i][journal[i].epoch].msgs
JobPlan(i) ==
    /\ Plan(job[i].todo, i, journal[i].epoch, MsgsOf(i), log)
    /\ job[i].todo[1].do # "apply" /\ MsgsOf(i) # {} => topic.reg
JobsInv == \A i \in Ids : Locked(i) => JobPlan(i)

\* A committed transaction is whole, in the storage it was prepared for; so is one whose outcome is
\* still unacknowledged.
GenInv == \A i \in Ids : \A e \in Epochs : decided[i][e].gen <= topic.gen
FinInv ==
    \A i \in Ids : \A e \in Epochs :
        decided[i][e].gen # 0 /\ decided[i][e].gen = topic.gen /\ Finished(journal[i], e) =>
            WholeIn(log, i, e, decided[i][e].msgs)
TailWhole ==
    \A i \in Ids : \A t :
        tail = <<i, t>> /\ t.state = "committed" /\ journal[i].state = "committing" =>
            WholeIn(log, i, journal[i].epoch, MsgsOf(i))
OutcomeInv == RecordsInv /\ JobsInv /\ GenInv /\ FinInv /\ TailWhole

\* Nothing of a transaction leaves the logs.
Grows == \A p \in Partitions : \A q, e, s : Has(log[p], q, e, s) => Has(log'[p], q, e, s)

\* A decision stands.
LEMMA DecisionStands ==
    ASSUME TopicOk, CoreInv, CoreInv', CoreMoves, NEW i \in Ids, NEW e \in Epochs, decided[i][e].gen # 0
    PROVE  decided'[i][e].gen # 0 /\ decided'[i][e].msgs = decided[i][e].msgs
<1>1. CASE decided'[i][e] = decided[i][e]
  BY <1>1
<1>2. CASE decided'[i][e] # decided[i][e]
  <2>1. decided'[i][e].gen = topic.gen /\ journal'[i].state = "committing" /\ journal'[i].epoch = e
    BY <1>2 DEF CoreMoves
  <2>2. decided'[i][e].gen # 0 /\ e \in Int
    BY <2>1 DEF TopicOk, Epochs
  <2>3. /\ TxOk(journal[i]) /\ DecidedOk(decided[i], journal[i])
        /\ TxOk(journal'[i]) /\ DecidedOk(decided'[i], journal'[i])
    BY DEF CoreInv, StateInv, StateOk, DecidedInv, CoreMoves
  <2>4. decided'[i][e].msgs = Range(journal'[i].msgs)
    BY <2>1, <2>2, <2>3 DEF DecidedOk
  <2>5. Past(journal[i], e)
    BY <2>3 DEF DecidedOk
  <2>6. Moves(journal[i], journal'[i])
    BY <2>1 DEF CoreMoves, Concludes, Moves
  <2>7. journal[i].epoch = e /\ journal[i].state = "committing" /\ Range(journal'[i].msgs) = Range(journal[i].msgs)
    BY <2>1, <2>2, <2>3, <2>5, <2>6, MovesOn
  <2>8. decided[i][e].msgs = Range(journal[i].msgs)
    BY <2>3, <2>7 DEF DecidedOk
  <2>9. QED
    BY <2>2, <2>4, <2>7, <2>8
<1>3. QED
  BY <1>1, <1>2

\* An id whose decision is being carried out stays at it.
LEMMA CommittingStays ==
    ASSUME CoreInv, CoreInv', CoreMoves, NEW i \in Ids, journal[i].state = "committing"
    PROVE  journal'[i].epoch = journal[i].epoch /\ journal[i].epoch \in Epochs
<1>1. TxOk(journal[i]) /\ TxOk(journal'[i])
  BY DEF CoreInv, StateInv, StateOk, CoreMoves
<1>2. journal'[i].epoch = journal[i].epoch
  BY <1>1 DEF CoreMoves, Concludes, Later, TxOk, Terminal
<1>3. QED
  BY <1>1, <1>2, TxnConstants DEF TxOk, Epochs, None

\* The decisions of all transactions, as the records see them.
LEMMA MarkedStands ==
    ASSUME TopicOk, CoreInv, CoreInv', CoreMoves, NEW p, NEW recs, Orderly(recs), Marked(p, recs, decided)
    PROVE  Marked(p, recs, decided')
<1>1. DOMAIN decided = Ids /\ DOMAIN decided' = Ids
  BY DEF CoreInv, DecidedInv, CoreMoves
<1>2. ASSUME NEW n \in DOMAIN recs, recs[n].txn # Plain
      PROVE  LET x == decided'[recs[n].txn][recs[n].epoch]
             IN  /\ recs[n].txn \in DOMAIN decided' /\ x.gen # 0
                 /\ ~recs[n].mark => <<p, recs[n].seq>> \in x.msgs
                 /\ recs[n].mark => \A m \in x.msgs : m[1] = p => Has(recs, recs[n].txn, recs[n].epoch, m[2])
  <2> DEFINE i == recs[n].txn
             e == recs[n].epoch
  <2>1. IsTxnRec(recs[n])
    BY <1>2, RecKinds DEF Orderly
  <2>2. e \in Epochs
    BY <2>1 DEF IsTxnRec
  <2>3. /\ i \in DOMAIN decided /\ decided[i][e].gen # 0
        /\ ~recs[n].mark => <<p, recs[n].seq>> \in decided[i][e].msgs
        /\ recs[n].mark => \A m \in decided[i][e].msgs : m[1] = p => Has(recs, i, e, m[2])
    BY <1>2 DEF Marked
  <2> HIDE DEF i, e
  <2>4. decided'[i][e].gen # 0 /\ decided'[i][e].msgs = decided[i][e].msgs
    BY <1>1, <2>2, <2>3, DecisionStands
  <2>5. QED
    BY <1>1, <2>3, <2>4 DEF i, e
<1>3. QED
  BY <1>2 DEF Marked

\* The parts' ranks.
LEMMA Ranks ==
    ASSUME NEW i, NEW e, NEW m
    PROVE  /\ Rank(RecTask(i, e, m)) = 1 /\ Rank(MarkTask(i, e, m)) = 2
           /\ RecTask(i, e, m).do = "write" /\ MarkTask(i, e, m).do = "write"
           /\ ~RecTask(i, e, m).rec.mark /\ MarkTask(i, e, m).rec.mark
           /\ \A t : t.do = "decide" => Rank(t) = 4
           /\ \A t : t.do = "offsets" => Rank(t) = 3
           /\ \A t : t.do = "apply" => Rank(t) = 0
           /\ \A t : Rank(t) \in 0 .. 4
  BY DEF Rank, RecTask, MarkTask, Record

\* What has a higher rank comes after everything of a lower one.
LEMMA RankOver ==
    ASSUME NEW todo, InOrderOf(todo), IsASeq(todo), todo # << >>, NEW n \in DOMAIN todo
    PROVE  Rank(todo[1]) <= Rank(todo[n])
<1>1. 1 \in DOMAIN todo /\ Len(todo) \in Nat /\ DOMAIN todo = 1 .. Len(todo)
  BY TailAny, AnySeq DEF IsASeq
<1>2. CASE n = 1
  BY <1>2, Ranks
<1>3. CASE n # 1
  BY <1>1, <1>3 DEF InOrderOf
<1>4. QED
  BY <1>2, <1>3

\* Records before markers, and both before offsets and outcome.
LEMMA WrittenBefore ==
    ASSUME NEW todo, IsASeq(todo), todo # << >>, NEW i, NEW e, NEW M, NEW l, Plan(todo, i, e, M, l)
    PROVE  /\ Rank(todo[1]) >= 2 => \A m \in M : RecordIn(l, i, e, m)
           /\ Rank(todo[1]) >= 3 => WholeIn(l, i, e, M)
<1>1. \A n \in DOMAIN todo : Rank(todo[1]) <= Rank(todo[n])
  BY RankOver DEF Plan
<1>2. \A n \in DOMAIN todo : \A m : /\ todo[n] = RecTask(i, e, m) => Rank(todo[n]) = 1
                                    /\ todo[n] = MarkTask(i, e, m) => Rank(todo[n]) = 2
  BY Ranks
<1>3. Rank(todo[1]) \in 0 .. 4
  BY Ranks
<1>4. ASSUME Rank(todo[1]) >= 2, NEW m \in M PROVE RecordIn(l, i, e, m)
  BY <1>1, <1>2, <1>3, <1>4 DEF Plan, Covers
<1>5. ASSUME Rank(todo[1]) >= 3, NEW m \in M PROVE MarkerIn(l, i, e, m)
  BY <1>1, <1>2, <1>3, <1>5 DEF Plan, Covers
<1>6. QED
  BY <1>3, <1>4, <1>5 DEF WholeIn

\* A job has something to do.
LEMMA TodoFacts ==
    ASSUME TxnInv, NEW i \in Ids, Locked(i)
    PROVE  /\ job[i].todo # << >> /\ IsASeq(job[i].todo) /\ Head(job[i].todo) = job[i].todo[1]
           /\ 1 \in DOMAIN job[i].todo
  BY TailAny DEF TxnInv, JobsOk, JobOk, Locked, HarmlessSeq

\* When the outcome is recorded, the transaction is whole.
LEMMA DecidesWhole ==
    ASSUME TxnInv, CoreInv, JobsInv, NEW i \in Ids, Doing(i) = "decide"
    PROVE  WholeIn(log, i, journal[i].epoch, MsgsOf(i)) /\ Locked(i)
<1>1. Locked(i) /\ Head(job[i].todo).do = "decide"
  BY DEF Doing, None
<1>2. job[i].todo # << >> /\ IsASeq(job[i].todo) /\ job[i].todo[1].do = "decide"
  BY <1>1, TodoFacts
<1>3. Rank(job[i].todo[1]) = 4
  BY <1>2, Ranks
<1>4. Plan(job[i].todo, i, journal[i].epoch, MsgsOf(i), log)
  BY <1>1 DEF JobsInv, JobPlan
<1>5. QED
  BY <1>1, <1>2, <1>3, <1>4, WrittenBefore

\* What is in the logs stays in them.
LEMMA WholeGrows ==
    ASSUME Grows, NEW i, NEW e, NEW M, M \subseteq Numbered
    PROVE  /\ WholeIn(log, i, e, M) => WholeIn(log', i, e, M)
           /\ \A m \in M : RecordIn(log, i, e, m) => RecordIn(log', i, e, m)
           /\ \A m \in M : MarkerIn(log, i, e, m) => MarkerIn(log', i, e, m)
           /\ \A todo : Plan(todo, i, e, M, log) => Plan(todo, i, e, M, log')
<1>1. \A m \in M : m[1] \in Partitions
  BY DEF Numbered
<1>2. \A m \in M : /\ RecordIn(log, i, e, m) => RecordIn(log', i, e, m)
                   /\ MarkerIn(log, i, e, m) => MarkerIn(log', i, e, m)
  BY <1>1 DEF Grows, RecordIn, MarkerIn
<1>3. WholeIn(log, i, e, M) => WholeIn(log', i, e, M)
  BY <1>2 DEF WholeIn
<1>4. ASSUME NEW todo, Plan(todo, i, e, M, log) PROVE Plan(todo, i, e, M, log')
  BY <1>2, <1>4 DEF Plan, Covers
<1>5. QED
  BY <1>2, <1>3, <1>4

\* What is decided of an id that is committing.
LEMMA MsgsFacts ==
    ASSUME CoreInv, NEW i \in Ids, journal[i].state = "committing"
    PROVE  /\ journal[i].epoch \in Epochs /\ MsgsOf(i) \subseteq Numbered
           /\ decided[i][journal[i].epoch].gen # 0 => MsgsOf(i) = Range(journal[i].msgs)
<1>1. TxOk(journal[i]) /\ DecidedOk(decided[i], journal[i])
  BY DEF CoreInv, StateInv, StateOk, DecidedInv
<1>2. journal[i].epoch \in Epochs
  BY <1>1, TxnConstants DEF TxOk, Epochs, None
<1>3. QED
  BY <1>1, <1>2 DEF DecidedOk, MsgsOf

\* An id that is locked keeps its epoch and its messages.
LEMMA LockedStays ==
    ASSUME TopicOk, CoreInv, CoreInv', CoreMoves, NEW i \in Ids, Locked(i)
    PROVE  /\ journal[i].state = "committing" /\ journal[i].epoch \in Epochs /\ MsgsOf(i) \subseteq Numbered
           /\ journal'[i].epoch = journal[i].epoch /\ MsgsOf(i)' = MsgsOf(i)
<1>1. journal[i].state = "committing" /\ decided[i][journal[i].epoch].gen # 0
  BY DEF CoreInv, WorkInv, JobFor
<1>2. journal'[i].epoch = journal[i].epoch /\ journal[i].epoch \in Epochs
  BY <1>1, CommittingStays
<1>3. MsgsOf(i)' = MsgsOf(i)
  BY <1>1, <1>2, DecisionStands DEF MsgsOf
<1>4. QED
  BY <1>1, <1>2, <1>3, MsgsFacts

\* A job that a step leaves alone.
LEMMA JobKept ==
    ASSUME TopicOk, CoreInv, CoreInv', CoreMoves, JobsInv, Grows, topic.reg => topic'.reg,
           NEW i \in Ids, Locked(i), job'[i] = job[i]
    PROVE  JobPlan(i)'
<1>1. /\ journal[i].state = "committing" /\ journal[i].epoch \in Epochs /\ MsgsOf(i) \subseteq Numbered
      /\ journal'[i].epoch = journal[i].epoch /\ MsgsOf(i)' = MsgsOf(i)
  BY LockedStays
<1>2. JobPlan(i)
  BY DEF JobsInv
<1>3. Plan(job[i].todo, i, journal[i].epoch, MsgsOf(i), log')
  BY <1>1, <1>2, WholeGrows DEF JobPlan
<1>4. QED
  BY <1>1, <1>2, <1>3 DEF JobPlan

\* The logs only lose something of a transaction with the topic's generation, and then no decision
\* with messages waits for its outcome.
LogsMove ==
    /\ topic'.gen \in Nat /\ topic'.gen >= topic.gen
    /\ topic'.gen = topic.gen => Grows
    /\ \/ Grows
       \/ (\A i \in Ids : ~Locked(i)) /\ (tail' = << >> \/ ~Blocked)

\* An outcome that is recorded or may be found is that of a transaction that is whole.
LEMMA OutcomesKept ==
    ASSUME TopicOk, TxnInv, CoreInv, CoreInv', CoreMoves, OutcomeInv, LogsMove
    PROVE  GenInv' /\ FinInv' /\ TailWhole'
<1>0. Ids' = Ids
  BY DEF CoreMoves
<1>1. \A i \in Ids : /\ TxOk(journal[i]) /\ TxOk(journal'[i])
                     /\ DecidedOk(decided[i], journal[i]) /\ DecidedOk(decided'[i], journal'[i])
  BY <1>0 DEF CoreInv, StateInv, StateOk, DecidedInv
<1>2. topic.gen \in Nat /\ topic'.gen \in Nat /\ topic'.gen >= topic.gen /\ topic.gen # 0
  BY DEF TopicOk, LogsMove
<1>3. \A i \in Ids : \A e \in Epochs : decided[i][e].gen \in Nat /\ decided[i][e].gen <= topic.gen
                                        /\ decided[i][e].msgs \subseteq Numbered
  BY <1>1 DEF OutcomeInv, GenInv, DecidedOk
<1>4. ASSUME NEW i \in Ids, NEW e \in Epochs PROVE decided'[i][e].gen <= topic'.gen
  <2>1. decided'[i][e] = decided[i][e] \/ decided'[i][e].gen = topic.gen
    BY DEF CoreMoves
  <2>2. QED
    BY <1>2, <1>3, <2>1
<1>5. ASSUME NEW i \in Ids, NEW e \in Epochs, decided'[i][e].gen # 0, decided'[i][e].gen = topic'.gen,
             Finished(journal'[i], e)
      PROVE  WholeIn(log', i, e, decided'[i][e].msgs)
  <2>0. e \in Int
    BY DEF Epochs
  <2>1. decided'[i][e] = decided[i][e]
    <3>1. ~(journal'[i].state = "committing" /\ journal'[i].epoch = e)
      BY <1>1, <1>5, <2>0 DEF Finished, TxOk
    <3>2. QED
      BY <3>1 DEF CoreMoves
  <2>2. topic'.gen = topic.gen /\ decided[i][e].gen # 0 /\ decided[i][e].gen = topic.gen
    BY <1>2, <1>3, <1>5, <2>1
  <2>3. Grows
    BY <2>2 DEF LogsMove
  <2>4. WholeIn(log, i, e, decided[i][e].msgs)
    <3>1. CASE Finished(journal[i], e)
      BY <2>2, <3>1 DEF OutcomeInv, FinInv
    <3>2. CASE ~Finished(journal[i], e)
      <4>1. Past(journal[i], e)
        BY <1>1, <2>2 DEF DecidedOk
      <4>2. ~Later(journal[i], journal'[i])
        <5>1. Later(journal[i], journal'[i]) => Moves(journal[i], journal'[i])
          BY DEF Moves
        <5>2. QED
          BY <1>1, <1>5, <2>0, <3>2, <4>1, <5>1, MovesOn
      <4>3. Concludes(i)
        BY <4>2 DEF CoreMoves
      <4>4. journal[i].state = "committing" /\ journal[i].epoch = e
        BY <1>1, <2>0, <3>2, <4>1 DEF Past, Finished, TxOk
      <4>5. WholeIn(log, i, journal[i].epoch, MsgsOf(i))
        <5>1. CASE Doing(i) = "decide"
          BY <5>1, DecidesWhole DEF OutcomeInv
        <5>2. CASE \E t : tail = <<i, t>> /\ t.state = "committed"
          BY <4>4, <5>2 DEF OutcomeInv, TailWhole
        <5>3. QED
          BY <4>3, <5>1, <5>2 DEF Concludes
      <4>6. QED
        BY <4>4, <4>5 DEF MsgsOf
    <3>3. QED
      BY <3>1, <3>2
  <2>5. QED
    BY <1>3, <2>1, <2>3, <2>4, WholeGrows
<1>6. ASSUME NEW i \in Ids, NEW t, tail' = <<i, t>>, t.state = "committed", journal'[i].state = "committing"
      PROVE  WholeIn(log', i, journal'[i].epoch, MsgsOf(i)')
  <2>1. CASE Doing(i) = "decide"
    <3>1. Locked(i) /\ WholeIn(log, i, journal[i].epoch, MsgsOf(i))
      BY <2>1, DecidesWhole DEF OutcomeInv
    <3>2. Grows
      BY <3>1 DEF LogsMove
    <3>3. MsgsOf(i) \subseteq Numbered /\ journal'[i].epoch = journal[i].epoch /\ MsgsOf(i)' = MsgsOf(i)
      BY <3>1, LockedStays
    <3>4. QED
      BY <3>1, <3>2, <3>3, WholeGrows
  <2>2. CASE Doing(i) # "decide"
    <3>1. tail' = tail /\ journal'[i] = journal[i]
      BY <1>6, <2>2 DEF CoreMoves
    <3> DEFINE e == journal[i].epoch
    <3>2. WholeIn(log, i, e, MsgsOf(i))
      BY <1>6, <3>1 DEF OutcomeInv, TailWhole
    <3>3. e \in Epochs /\ MsgsOf(i) \subseteq Numbered
      BY <1>6, <3>1, MsgsFacts
    <3>4. decided[i][e].gen # 0
      <4>0. PICK k \in Ids : \E x : tail = <<k, x>> /\ TailFor(journal[k], x) /\ Committed(decided[k], x)
        BY <1>6, <3>1 DEF CoreInv, TailInv
      <4>1. PICK x : tail = <<k, x>> /\ TailFor(journal[k], x) /\ Committed(decided[k], x)
        BY <4>0
      <4>2. k = i /\ x = t
        BY <1>6, <3>1, <4>1
      <4>3. ~Later(journal[i], t)
        BY <1>1, <1>6, <3>1 DEF Later, TxOk
      <4>4. t.epoch = e
        BY <4>1, <4>2, <4>3 DEF TailFor
      <4>5. QED
        BY <1>6, <4>1, <4>2, <4>4 DEF Committed
    <3>5. MsgsOf(i)' = MsgsOf(i)
      BY <3>1, <3>3, <3>4, DecisionStands DEF MsgsOf
    <3>6. CASE Grows
      BY <3>1, <3>2, <3>3, <3>5, <3>6, WholeGrows
    <3>7. CASE ~Blocked
      <4>1. StateOk(journal[i], txns[i])
        BY DEF CoreInv, StateInv
      <4>2. txns[i] = journal[i]
        BY <1>6, <3>1, <4>1 DEF StateOk, Follows
      <4>3. ~journal[i].expired
        BY <1>1, <1>6, <3>1 DEF TxOk, Terminal
      <4>4. ~References(journal[i])
        BY <1>6, <3>1, <3>7, <4>2, <4>3 DEF Blocked
      <4>5. journal[i].msgs = << >>
        BY <4>4 DEF References
      <4>6. MsgsOf(i) = Range(journal[i].msgs)
        BY <1>6, <3>1, <3>4, MsgsFacts
      <4>7. MsgsOf(i) = {}
        BY <4>5, <4>6 DEF Range
      <4>8. QED
        BY <3>5, <4>7 DEF WholeIn
    <3>8. QED
      BY <1>6, <3>6, <3>7 DEF LogsMove
  <2>3. QED
    BY <2>1, <2>2
<1>7. QED
  BY <1>0, <1>4, <1>5, <1>6 DEF GenInv, FinInv, TailWhole

\* Steps that write nothing of a transaction.
LEMMA PlainStep ==
    ASSUME TopicOk, LogsOk, CoreInv, CoreInv', CoreMoves, RecordsInv, topic'.reg => topic.reg,
           \A p \in Partitions : PlainTo(log[p], producers[p], log'[p], producers'[p])
    PROVE  RecordsInv' /\ Grows
<1>1. ASSUME NEW p \in Partitions
      PROVE  /\ Orderly(log'[p]) /\ Marked(p, log'[p], decided')
             /\ topic'.reg => Tracks(producers'[p], log'[p])
             /\ \A q, e, s : Has(log[p], q, e, s) => Has(log'[p], q, e, s)
  <2>1. IsASeq(log[p]) /\ Orderly(log[p]) /\ Marked(p, log[p], decided) /\ (topic.reg => Tracks(producers[p], log[p]))
    BY DEF LogsOk, RecordsInv
  <2>2. Marked(p, log[p], decided')
    BY <2>1, MarkedStands
  <2>3. QED
    BY <2>1, <2>2, PlainKeeps
<1>2. QED
  BY <1>1 DEF RecordsInv, Grows

\* Jobs that a step leaves alone or ends.
LEMMA JobsKept ==
    ASSUME TopicOk, CoreInv, CoreInv', CoreMoves, JobsInv, Grows, topic.reg => topic'.reg,
           \A i \in Ids : job'[i] = job[i] \/ job'[i] = NoJob
    PROVE  JobsInv'
<1>1. Ids' = Ids
  BY DEF CoreMoves
<1>2. ASSUME NEW i \in Ids, Locked(i)' PROVE JobPlan(i)'
  <2>1. job'[i] = job[i] /\ Locked(i)
    BY <1>2 DEF Locked, NoJob
  <2>2. QED
    BY <2>1, JobKept
<1>3. QED
  BY <1>1, <1>2 DEF JobsInv

\* One partition's log or table changes.
LEMMA OnePlain ==
    ASSUME LogsOk, NEW p, NEW r, NEW k, log' = [log EXCEPT ![p] = r], producers' = [producers EXCEPT ![p] = k],
           p \in Partitions => PlainTo(log[p], producers[p], r, k)
    PROVE  \A x \in Partitions : PlainTo(log[x], producers[x], log'[x], producers'[x])
<1>1. ASSUME NEW x \in Partitions PROVE PlainTo(log[x], producers[x], log'[x], producers'[x])
  <2>1. IsASeq(log[x]) /\ x \in DOMAIN log /\ x \in DOMAIN producers
    BY DEF LogsOk
  <2>2. CASE x = p
    <3>1. log'[x] = r /\ producers'[x] = k
      BY <2>1, <2>2
    <3>2. QED
      BY <2>2, <3>1
  <2>3. CASE x # p
    <3>1. log'[x] = log[x] /\ producers'[x] = producers[x]
      BY <2>1, <2>3
    <3>2. QED
      BY <2>1, <3>1, PlainSame
  <2>4. QED
    BY <2>2, <2>3
<1>2. QED
  BY <1>1

\* No log or table changes.
LEMMA NonePlain ==
    ASSUME LogsOk, UNCHANGED <<log, producers>>
    PROVE  \A x \in Partitions : PlainTo(log[x], producers[x], log'[x], producers'[x])
  BY PlainSame DEF LogsOk

\* A table without the producer.
LEMMA ForgetPlain ==
    ASSUME NEW recs, IsASeq(recs), NEW known
    PROVE  PlainTo(recs, known, recs, RestrictDomain(known, LAMBDA q : q # Pid))
<1> DEFINE now == RestrictDomain(known, LAMBDA q : q # Pid)
<1>1. now = [q \in {x \in DOMAIN known : x # Pid} |-> known[q]]
  BY DEF RestrictDomain, Restrict
<1>2. \A q : q # Pid => (q \in DOMAIN now <=> q \in DOMAIN known) /\ (q \in DOMAIN known => now[q] = known[q])
  BY <1>1
<1> HIDE DEF now
<1>3. PlainTo(recs, known, recs, now)
  BY <1>2, AnySeq DEF PlainTo, IsASeq
<1>4. QED
  BY <1>3 DEF now

\* The producer's steps.
LEMMA ProducerPlain ==
    ASSUME LogsOk, ProducerInv, ProducerStep \/ ProducerFault
    PROVE  topic' = topic /\ \A x \in Partitions : PlainTo(log[x], producers[x], log'[x], producers'[x])
<1>1. CASE UNCHANGED logVars
  BY <1>1, NonePlain DEF logVars
<1>2. ASSUME NEW p \in Partitions, NEW b, NEW n \in Nat, n <= Len(b), b \in Seq(Nat),
             Store(p, EnqueueAll(p, [i \in 1 .. n |-> PlainRecord(b[i])]))
      PROVE  topic' = topic /\ \A x \in Partitions : PlainTo(log[x], producers[x], log'[x], producers'[x])
  <2> DEFINE msgs == [i \in 1 .. n |-> PlainRecord(b[i])]
             st == EnqueueAll(p, msgs)
  <2>1. Len(msgs) = n
    <3>1. msgs \in Seq({PlainRecord(b[i]) : i \in 1 .. n})
      BY <1>2
    <3>2. QED
      BY <3>1, <1>2
  <2>2. \A i \in 1 .. Len(msgs) : IsPlainRec(msgs[i])
    BY <2>1 DEF IsPlainRec, PlainRecord, Record, Plain, Pid
  <2>3. log' = [log EXCEPT ![p] = st.recs] /\ producers' = [producers EXCEPT ![p] = st.known] /\ topic' = topic
    BY <1>2 DEF Store
  <2> HIDE DEF msgs
  <2>4. PlainTo(log[p], producers[p], st.recs, st.known)
    BY <2>1, <2>2, BatchPlain DEF LogsOk
  <2> HIDE DEF st
  <2>5. QED
    BY <2>3, <2>4, OnePlain
<1>3. ASSUME NEW p \in Partitions, HandleBatch(p) \/ HandleBatchFails(p)
      PROVE  topic' = topic /\ \A x \in Partitions : PlainTo(log[x], producers[x], log'[x], producers'[x])
  <2> DEFINE b == lane[p].batch
  <2>1. b \in Seq(Nat) /\ Len(b) \in Nat /\ DOMAIN b = 1 .. Len(b)
    BY LaneFacts DEF ProducerInv
  <2>2. CASE HandleBatch(p)
    <3>1. Store(p, EnqueueAll(p, [i \in 1 .. Len(b) |-> PlainRecord(b[i])]))
      BY <2>1, <2>2 DEF HandleBatch
    <3>2. Len(b) <= Len(b)
      BY <2>1
    <3> HIDE DEF b
    <3>3. QED
      BY <1>2, <2>1, <3>1, <3>2
  <2>3. CASE HandleBatchFails(p)
    <3>1. PICK n \in 0 .. Len(b) - 1 : Store(p, EnqueueAll(p, [i \in 1 .. n |-> PlainRecord(b[i])]))
      BY <2>3 DEF HandleBatchFails
    <3>2. n \in Nat /\ n <= Len(b)
      BY <2>1
    <3> HIDE DEF b
    <3>3. QED
      BY <1>2, <2>1, <3>1, <3>2
  <2>4. QED
    BY <1>3, <2>2, <2>3
<1>4. ASSUME NEW p \in Partitions, Evict(p)
      PROVE  topic' = topic /\ \A x \in Partitions : PlainTo(log[x], producers[x], log'[x], producers'[x])
  <2> DEFINE k == RestrictDomain(producers[p], LAMBDA q : q # Pid)
  <2>1. topic' = topic /\ log' = log /\ producers' = [producers EXCEPT ![p] = k]
    BY <1>4 DEF Evict, Forget
  <2>2. log' = [log EXCEPT ![p] = log[p]]
    BY <2>1 DEF LogsOk
  <2>3. PlainTo(log[p], producers[p], log[p], k)
    BY ForgetPlain DEF LogsOk
  <2> HIDE DEF k
  <2>4. QED
    BY <2>1, <2>2, <2>3, OnePlain
<1>5. UNCHANGED logVars \/ \E p \in Partitions : HandleBatch(p) \/ HandleBatchFails(p) \/ Evict(p)
  BY DEF ProducerStep, ProducerFault, Send, Flush, CloseProducer, CloseClient, Take, Drain,
         Write, WriteFails, HandleBatchRefused, ReadAck, AckTimeout, ConnBreak
<1>6. QED
  BY <1>1, <1>2, <1>3, <1>4, <1>5

\* Events and records without sequence numbers.
LEMMA StreamPlain ==
    ASSUME LogsOk, StreamStep
    PROVE  topic' = topic /\ \A x \in Partitions : PlainTo(log[x], producers[x], log'[x], producers'[x])
<1>1. CASE UNCHANGED logVars
  BY <1>1, NonePlain DEF logVars
<1>2. ASSUME NEW m, IsPlainRec(m), log' = [log EXCEPT ![Home] = Append(@, m)], UNCHANGED <<topic, producers>>
      PROVE  topic' = topic /\ \A x \in Partitions : PlainTo(log[x], producers[x], log'[x], producers'[x])
  <2>1. Home \in Partitions
    BY LogConstants DEF Home, Partitions
  <2>2. IsASeq(log[Home]) /\ producers' = [producers EXCEPT ![Home] = producers[Home]]
    BY <1>2, <2>1 DEF LogsOk
  <2>3. PlainTo(log[Home], producers[Home], Append(log[Home], m), producers[Home])
    BY <1>2, <2>2, PlainSame, PlainNext
  <2>4. QED
    BY <1>2, <2>2, <2>3, OnePlain
<1>3. UNCHANGED logVars \/ \E m : /\ IsPlainRec(m) /\ log' = [log EXCEPT ![Home] = Append(@, m)]
                                  /\ UNCHANGED <<topic, producers>>
  <2>1. ASSUME PlainPublish PROVE <1>3!2
    <3>1. IsPlainRec(Record(NoPid, 0, 0, Plain, FALSE))
      BY DEF Record, IsPlainRec
    <3>2. QED
      BY <2>1, <3>1 DEF PlainPublish
  <2>2. ASSUME NEW c \in Writers, NEW v \in 1 .. MaxEvents, AppendStream(c, v) PROVE <1>3!1 \/ <1>3!2
    <3>1. IsPlainRec(Event(v, c))
      BY DEF Event, Record, IsPlainRec
    <3>2. UNCHANGED logVars \/ (log' = [log EXCEPT ![Home] = Append(@, Event(v, c))] /\ UNCHANGED <<topic, producers>>)
      BY <2>2 DEF AppendStream
    <3>3. QED
      BY <3>1, <3>2
  <2>3. ASSUME NEW c \in Writers, AppendLocked(c) \/ ResetIndex(c) \/ RebuildIndex(c) PROVE UNCHANGED logVars
    BY <2>3 DEF AppendLocked, ResetIndex, RebuildIndex
  <2>4. ASSUME NEW c \in Writers, NEW v \in 1 .. MaxEvents, SaveSnapshot(c, v) PROVE UNCHANGED logVars
    BY <2>4 DEF SaveSnapshot
  <2>5. QED
    BY <2>1, <2>2, <2>3, <2>4 DEF StreamStep
<1>4. QED
  BY <1>1, <1>2, <1>3

\* publishCommittedTransactionMessage and publishTransactionMarker on one partition.
TxnStored(p, old, new, d, m) ==
    /\ Orderly(new.recs) /\ Tracks(new.known, new.recs) /\ Marked(p, new.recs, d)
    /\ \A q, e, s : Has(old.recs, q, e, s) => Has(new.recs, q, e, s)
    /\ ~new.bad => Has(new.recs, m.pid, m.epoch, m.seq)

\* It is written once, where it belongs, or it was there.
LEMMA RecordStored ==
    ASSUME NEW p, NEW d, NEW old, Staged(old), IsASeq(old.recs), Orderly(old.recs), Tracks(old.known, old.recs),
           Marked(p, old.recs, d), NEW m, IsTxnRec(m), m.txn \in DOMAIN d, d[m.txn][m.epoch].gen # 0,
           ~m.mark => <<p, m.seq>> \in d[m.txn][m.epoch].msgs,
           m.mark => \A x \in d[m.txn][m.epoch].msgs : x[1] = p => Has(old.recs, m.txn, m.epoch, x[2])
    PROVE  TxnStored(p, old, Enqueue(old, m), d, m)
<1> DEFINE new == Enqueue(old, m)
           verdict == ValidateProducer(old.known, m)
<1>1. \/ new.recs = old.recs /\ new.known = old.known /\ new.bad
      \/ verdict = "duplicate" /\ new = old
      \/ verdict \notin {"duplicate", "error"} /\ new.recs = Append(old.recs, m) /\ new.known = Known(old.known, m)
  BY EnqueueCases
<1>2. /\ verdict = "duplicate" => Has(old.recs, m.pid, m.epoch, m.seq)
      /\ verdict \notin {"duplicate", "error"} =>
           /\ ~Has(old.recs, m.pid, m.epoch, m.seq)
           /\ \A n \in DOMAIN old.recs : old.recs[n].txn # Plain /\ old.recs[n].pid = m.pid => Before(old.recs[n], m)
           /\ \A s \in 1 .. m.seq - 1 : Has(old.recs, m.pid, m.epoch, s)
  BY Admitted
<1> HIDE DEF new, verdict
<1>3. CASE new.recs = old.recs /\ new.known = old.known /\ new.bad
  BY <1>3 DEF TxnStored, new
<1>4. CASE verdict = "duplicate" /\ new = old
  BY <1>2, <1>4 DEF TxnStored, new
<1>5. CASE verdict \notin {"duplicate", "error"} /\ new.recs = Append(old.recs, m) /\ new.known = Known(old.known, m)
  <2>1. Orderly(Append(old.recs, m))
    BY <1>2, <1>5, OrderlyNext
  <2>2. Tracks(Known(old.known, m), Append(old.recs, m))
    BY <1>2, <1>5, TracksNext
  <2>3. Marked(p, Append(old.recs, m), d)
    BY <1>2, <1>5, MarkedNext
  <2>4. /\ Has(new.recs, m.pid, m.epoch, m.seq)
        /\ \A q, e, s : Has(old.recs, q, e, s) => Has(new.recs, q, e, s)
    <3>1. LET r == Append(old.recs, m)
          IN  /\ Len(old.recs) \in Nat /\ DOMAIN old.recs = 1 .. Len(old.recs) /\ DOMAIN r = 1 .. Len(old.recs) + 1
              /\ \A n \in 1 .. Len(old.recs) : r[n] = old.recs[n]
              /\ r[Len(old.recs) + 1] = m
      BY AppendAny
    <3>2. /\ Len(old.recs) + 1 \in DOMAIN new.recs /\ new.recs[Len(old.recs) + 1] = m
          /\ DOMAIN old.recs \subseteq DOMAIN new.recs
          /\ \A n \in DOMAIN old.recs : new.recs[n] = old.recs[n]
      BY <1>5, <3>1
    <3>3. m.txn # Plain
      BY RecKinds
    <3>4. QED
      BY <3>2, <3>3 DEF Has
  <2>5. QED
    BY <1>5, <2>1, <2>2, <2>3, <2>4 DEF TxnStored, new
<1>6. QED
  BY <1>1, <1>3, <1>4, <1>5

\* A job goes on once its first part is done.
LEMMA PlanAdvances ==
    ASSUME NEW todo, IsASeq(todo), todo # << >>, NEW i, NEW e, NEW M, NEW l, Plan(todo, i, e, M, l), NEW new,
           \A m \in M : /\ RecordIn(l, i, e, m) => RecordIn(new, i, e, m)
                        /\ MarkerIn(l, i, e, m) => MarkerIn(new, i, e, m)
                        /\ todo[1] = RecTask(i, e, m) => RecordIn(new, i, e, m)
                        /\ todo[1] = MarkTask(i, e, m) => MarkerIn(new, i, e, m)
    PROVE  Plan(Tail(todo), i, e, M, new)
<1> DEFINE rest == Tail(todo)
<1>1. /\ Len(todo) \in Nat \ {0} /\ DOMAIN todo = 1 .. Len(todo) /\ DOMAIN rest = 1 .. Len(todo) - 1
      /\ \A n \in DOMAIN rest : n + 1 \in DOMAIN todo /\ rest[n] = todo[n + 1]
  <2>1. /\ Len(todo) \in Nat \ {0} /\ IsASeq(rest) /\ Len(rest) = Len(todo) - 1
        /\ \A n \in DOMAIN rest : n + 1 \in DOMAIN todo /\ rest[n] = todo[n + 1]
    BY TailAny
  <2>2. DOMAIN todo = 1 .. Len(todo) /\ DOMAIN rest = 1 .. Len(rest)
    BY <2>1, AnySeq DEF IsASeq
  <2>3. QED
    BY <2>1, <2>2
<1> HIDE DEF rest
<1>2. \A n \in DOMAIN todo : n = 1 \/ (n - 1 \in DOMAIN rest /\ rest[n - 1] = todo[n])
  BY <1>1
<1>3. \A n \in DOMAIN rest : TaskOk(rest[n], i, e, M)
  BY <1>1 DEF Plan
<1>4. InOrderOf(rest)
  <2>1. ASSUME NEW a \in DOMAIN rest, NEW b \in DOMAIN rest, a < b PROVE Rank(rest[a]) <= Rank(rest[b])
    <3>1. a + 1 \in DOMAIN todo /\ b + 1 \in DOMAIN todo /\ a + 1 < b + 1 /\ rest[a] = todo[a + 1] /\ rest[b] = todo[b + 1]
      BY <1>1, <2>1
    <3>2. QED
      BY <3>1 DEF Plan, InOrderOf
  <2>2. QED
    BY <2>1 DEF InOrderOf
<1>5. ASSUME NEW m \in M
      PROVE  /\ RecordIn(new, i, e, m) \/ \E n \in DOMAIN rest : rest[n] = RecTask(i, e, m)
             /\ MarkerIn(new, i, e, m) \/ \E n \in DOMAIN rest : rest[n] = MarkTask(i, e, m)
  <2>1. /\ RecordIn(l, i, e, m) \/ \E n \in DOMAIN todo : todo[n] = RecTask(i, e, m)
        /\ MarkerIn(l, i, e, m) \/ \E n \in DOMAIN todo : todo[n] = MarkTask(i, e, m)
    BY DEF Plan, Covers
  <2>2. RecordIn(new, i, e, m) \/ \E n \in DOMAIN rest : rest[n] = RecTask(i, e, m)
    BY <1>2, <2>1
  <2>3. MarkerIn(new, i, e, m) \/ \E n \in DOMAIN rest : rest[n] = MarkTask(i, e, m)
    BY <1>2, <2>1
  <2>4. QED
    BY <2>2, <2>3
<1>6. Plan(rest, i, e, M, new)
  BY <1>3, <1>4, <1>5 DEF Plan, Covers
<1>7. QED
  BY <1>6 DEF rest

\* What a job writes next: the record or marker of one of its messages.
LEMMA NextWrite ==
    ASSUME TxnInv, CoreInv, OutcomeInv, NEW i \in Ids, Doing(i) = "write"
    PROVE  \E m \in MsgsOf(i) :
             LET t == job[i].todo[1]
                 e == journal[i].epoch
             IN  /\ Locked(i) /\ t = Head(job[i].todo) /\ t.p = m[1] /\ m \in Numbered /\ m[1] \in Partitions
                 /\ IsTxnRec(t.rec) /\ t.rec.txn = i /\ t.rec.epoch = e /\ topic.reg
                 /\ \/ t = RecTask(i, e, m) /\ ~t.rec.mark /\ t.rec.seq = m[2] /\ t.rec.pid = i
                    \/ /\ t = MarkTask(i, e, m) /\ t.rec.mark /\ t.rec.seq = 1 /\ t.rec.pid = MarkerPid(i)
                       /\ \A x \in MsgsOf(i) : RecordIn(log, i, e, x)
<1> DEFINE todo == job[i].todo
           t == todo[1]
           e == journal[i].epoch
<1>1. Locked(i) /\ Head(todo).do = "write"
  BY DEF Doing, None
<1>2. todo # << >> /\ IsASeq(todo) /\ Head(todo) = t /\ 1 \in DOMAIN todo
  BY <1>1, TodoFacts
<1>3. JobPlan(i) /\ JobFor(i)
  BY <1>1 DEF OutcomeInv, JobsInv, CoreInv, WorkInv
<1>4. Plan(todo, i, e, MsgsOf(i), log) /\ (t.do # "apply" /\ MsgsOf(i) # {} => topic.reg)
  BY <1>3 DEF JobPlan
<1>5. e \in Epochs /\ journal[i].state = "committing"
  BY <1>3 DEF JobFor
<1>6. MsgsOf(i) \subseteq Numbered /\ i \in TxnClients
  BY <1>5, MsgsFacts, IdsClients
<1> HIDE DEF todo, t, e
<1>7. PICK m \in MsgsOf(i) : t = RecTask(i, e, m) \/ t = MarkTask(i, e, m)
  BY <1>1, <1>2, <1>4 DEF Plan, TaskOk, t
<1>8. m \in Numbered /\ m[1] \in Partitions /\ m[2] \in Nat \ {0}
  BY <1>6 DEF Numbered
<1>9. topic.reg
  BY <1>1, <1>2, <1>4
<1>10. CASE t = RecTask(i, e, m)
  <2>1. /\ t.p = m[1] /\ t.rec.txn = i /\ t.rec.epoch = e /\ ~t.rec.mark /\ t.rec.mark \in BOOLEAN
        /\ t.rec.seq = m[2] /\ t.rec.pid = i
    BY <1>10 DEF RecTask, Record
  <2>2. IsTxnRec(t.rec)
    BY <1>5, <1>6, <1>8, <2>1 DEF IsTxnRec, PidFor
  <2>3. QED
    BY <1>1, <1>2, <1>8, <1>9, <1>10, <2>1, <2>2 DEF t, e, todo
<1>11. CASE t = MarkTask(i, e, m)
  <2>1. /\ t.p = m[1] /\ t.rec.txn = i /\ t.rec.epoch = e /\ t.rec.mark /\ t.rec.mark \in BOOLEAN
        /\ t.rec.seq = 1 /\ t.rec.pid = MarkerPid(i)
    BY <1>11 DEF MarkTask, Record
  <2>2. IsTxnRec(t.rec)
    BY <1>5, <1>6, <1>8, <2>1 DEF IsTxnRec, PidFor
  <2>3. Rank(t) = 2
    BY <1>11, Ranks
  <2>4. \A x \in MsgsOf(i) : RecordIn(log, i, e, x)
    BY <1>2, <1>4, <2>3, WrittenBefore DEF t
  <2>5. QED
    BY <1>1, <1>2, <1>8, <1>9, <1>11, <2>1, <2>2, <2>4 DEF t, e, todo
<1>12. QED
  BY <1>7, <1>10, <1>11

\* One record through EnqueueAll.
LEMMA EnqueueOne ==
    ASSUME NEW p, NEW m
    PROVE  \E old : /\ Staged(old) /\ old.recs = log[p] /\ old.known = producers[p]
                    /\ EnqueueAll(p, <<m>>) = Enqueue(old, m)
<1>1. <<m>> \in Seq({m}) /\ Len(<<m>>) = 1 /\ <<m>>[1] = m
  OBVIOUS
<1>2. PICK f : /\ f[0] = [recs |-> log[p], known |-> producers[p], bad |-> FALSE]
               /\ \A i \in 1 .. Len(<<m>>) : f[i] = Enqueue(f[i - 1], <<m>>[i])
               /\ EnqueueAll(p, <<m>>) = f[Len(<<m>>)]
  BY <1>1, EnqueueRun
<1>3. 1 \in 1 .. Len(<<m>>) /\ 1 - 1 = 0
  BY <1>1
<1>4. f[1] = Enqueue(f[1 - 1], <<m>>[1])
  BY <1>2, <1>3
<1>5. EnqueueAll(p, <<m>>) = Enqueue(f[0], m)
  BY <1>1, <1>2, <1>3, <1>4
<1>6. Staged(f[0]) /\ f[0].recs = log[p] /\ f[0].known = producers[p]
  BY <1>2 DEF Staged
<1>7. QED
  BY <1>5, <1>6

\* Carrying out the writes.
LEMMA PublishKeeps ==
    ASSUME TopicOk, LogsOk, TxnInv, CoreInv, CoreInv', CoreMoves, OutcomeInv, NEW i \in Ids, PublishNext(i)
    PROVE  RecordsInv' /\ JobsInv' /\ Grows
<1> DEFINE t == job[i].todo[1]
           e == journal[i].epoch
           r == t.rec
           p == t.p
           st == EnqueueAll(p, <<r>>)
<1>1. Doing(i) = "write"
  BY DEF PublishNext
<1>2. PICK m \in MsgsOf(i) :
        /\ Locked(i) /\ t = Head(job[i].todo) /\ p = m[1] /\ m \in Numbered /\ m[1] \in Partitions
        /\ IsTxnRec(r) /\ r.txn = i /\ r.epoch = e /\ topic.reg
        /\ \/ t = RecTask(i, e, m) /\ ~r.mark /\ r.seq = m[2] /\ r.pid = i
           \/ /\ t = MarkTask(i, e, m) /\ r.mark /\ r.seq = 1 /\ r.pid = MarkerPid(i)
              /\ \A x \in MsgsOf(i) : RecordIn(log, i, e, x)
  BY <1>1, NextWrite
<1>3. Store(p, st) /\ (IF st.bad THEN GiveUpJob(i) ELSE Advance(i)) /\ UNCHANGED <<journal, decided>>
  BY <1>2 DEF PublishNext
<1>4. PICK old : Staged(old) /\ old.recs = log[p] /\ old.known = producers[p] /\ st = Enqueue(old, r)
  BY EnqueueOne
<1> HIDE DEF t, e, r, p, st
<1>5. /\ IsASeq(log[p]) /\ Orderly(log[p]) /\ Tracks(producers[p], log[p]) /\ Marked(p, log[p], decided)
  BY <1>2 DEF LogsOk, OutcomeInv, RecordsInv
<1>6. i \in DOMAIN decided /\ decided[i][e].gen # 0 /\ decided[i][e].msgs = MsgsOf(i)
  BY <1>2 DEF CoreInv, WorkInv, JobFor, DecidedInv, MsgsOf, e
<1>7. ~r.mark => <<p, r.seq>> \in MsgsOf(i)
  <2>1. m = <<m[1], m[2]>>
    BY <1>2 DEF Numbered
  <2>2. QED
    BY <1>2, <2>1
<1>8. r.mark => \A x \in MsgsOf(i) : x[1] = p => Has(log[p], i, e, x[2])
  BY <1>2 DEF RecordIn
<1>9. TxnStored(p, old, st, decided, r)
  <2>1. r.txn \in DOMAIN decided /\ decided[r.txn][r.epoch].gen # 0
    BY <1>2, <1>6
  <2>2. /\ ~r.mark => <<p, r.seq>> \in decided[r.txn][r.epoch].msgs
        /\ r.mark => \A x \in decided[r.txn][r.epoch].msgs : x[1] = p => Has(old.recs, r.txn, r.epoch, x[2])
    BY <1>2, <1>4, <1>6, <1>7, <1>8
  <2>3. QED
    BY <1>2, <1>4, <1>5, <2>1, <2>2, RecordStored
<1>10. /\ topic' = topic /\ log'[p] = st.recs /\ producers'[p] = st.known
       /\ \A x \in Partitions \ {p} : log'[x] = log[x] /\ producers'[x] = producers[x]
  BY <1>2, <1>3 DEF Store, LogsOk
<1>11. RecordsInv'
  <2>1. ASSUME NEW x \in Partitions
        PROVE  Orderly(log'[x]) /\ Marked(x, log'[x], decided') /\ (topic'.reg => Tracks(producers'[x], log'[x]))
    <3>1. CASE x = p
      BY <1>3, <1>9, <1>10, <3>1 DEF TxnStored
    <3>2. CASE x # p
      BY <1>3, <1>10, <3>2 DEF OutcomeInv, RecordsInv
    <3>3. QED
      BY <3>1, <3>2
  <2>2. QED
    BY <2>1 DEF RecordsInv
<1>12. Grows
  <2>1. ASSUME NEW x \in Partitions, NEW q, NEW a, NEW s, Has(log[x], q, a, s) PROVE Has(log'[x], q, a, s)
    <3>1. CASE x = p
      BY <1>4, <1>9, <1>10, <2>1, <3>1 DEF TxnStored
    <3>2. CASE x # p
      BY <1>10, <2>1, <3>2
    <3>3. QED
      BY <3>1, <3>2
  <2>2. QED
    BY <2>1 DEF Grows
<1>13. \A k \in Ids \ {i} : job'[k] = job[k]
  BY <1>3 DEF GiveUpJob, Advance, SetJob, TxnInv, JobsOk
<1>14. CASE st.bad
  <2>1. job'[i] = NoJob
    BY <1>3, <1>14 DEF GiveUpJob, SetJob, TxnInv, JobsOk
  <2>2. QED
    BY <1>10, <1>11, <1>12, <1>13, <2>1, JobsKept DEF OutcomeInv
<1>15. CASE ~st.bad
  <2>1. job'[i].todo = Tail(job[i].todo)
    <3>1. job' = [job EXCEPT ![i] = [job[i] EXCEPT !.todo = Tail(@)]]
      BY <1>3, <1>15 DEF Advance, SetJob
    <3>2. job = [k \in Ids |-> job[k]] /\ JobOk(job[i])
      BY DEF TxnInv, JobsOk
    <3>3. DOMAIN job[i] = {"todo", "by"}
      BY <3>2 DEF JobOk
    <3>4. job'[i] = [job[i] EXCEPT !.todo = Tail(@)]
      BY <3>1, <3>2
    <3>5. QED
      BY <3>3, <3>4
  <2>2. Has(log'[p], r.pid, r.epoch, r.seq)
    BY <1>9, <1>10, <1>15 DEF TxnStored
  <2>3. MsgsOf(i) \subseteq Numbered
    BY <1>2, LockedStays
  <2>4. ASSUME NEW x \in MsgsOf(i)
        PROVE  /\ RecordIn(log, i, e, x) => RecordIn(log', i, e, x)
               /\ MarkerIn(log, i, e, x) => MarkerIn(log', i, e, x)
               /\ t = RecTask(i, e, x) => RecordIn(log', i, e, x)
               /\ t = MarkTask(i, e, x) => MarkerIn(log', i, e, x)
    <3>1. /\ RecordIn(log, i, e, x) => RecordIn(log', i, e, x)
          /\ MarkerIn(log, i, e, x) => MarkerIn(log', i, e, x)
      BY <1>12, <2>3, WholeGrows
    <3>2. ASSUME t = RecTask(i, e, x) PROVE RecordIn(log', i, e, x)
      <4>1. p = x[1] /\ r.pid = i /\ r.epoch = e /\ r.seq = x[2]
        BY <3>2 DEF RecTask, Record, p, r
      <4>2. QED
        BY <2>2, <4>1 DEF RecordIn
    <3>3. ASSUME t = MarkTask(i, e, x) PROVE MarkerIn(log', i, e, x)
      <4>1. p = x[1] /\ r.pid = MarkerPid(i) /\ r.epoch = e /\ r.seq = 1
        BY <3>3 DEF MarkTask, Record, p, r
      <4>2. QED
        BY <2>2, <4>1 DEF MarkerIn
    <3>4. QED
      BY <3>1, <3>2, <3>3
  <2>5. Plan(Tail(job[i].todo), i, e, MsgsOf(i), log')
    <3>1. Plan(job[i].todo, i, e, MsgsOf(i), log)
      BY <1>2 DEF OutcomeInv, JobsInv, JobPlan, e
    <3>2. job[i].todo # << >> /\ IsASeq(job[i].todo)
      BY <1>2, TodoFacts
    <3>3. QED
      BY <2>4, <3>1, <3>2, PlanAdvances DEF t
  <2>6. MsgsOf(i)' = MsgsOf(i) /\ journal'[i].epoch = e
    BY <1>3 DEF MsgsOf, e
  <2>7. JobPlan(i)'
    BY <1>2, <1>10, <2>1, <2>5, <2>6 DEF JobPlan
  <2>8. ASSUME NEW k \in Ids, Locked(k)' PROVE JobPlan(k)'
    <3>1. CASE k = i
      BY <2>7, <3>1
    <3>2. CASE k # i
      <4>1. job'[k] = job[k] /\ Locked(k)
        BY <1>13, <2>8, <3>2 DEF Locked, NoJob, Nobody
      <4>2. QED
        BY <1>10, <1>12, <4>1, JobKept DEF OutcomeInv
    <3>3. QED
      BY <3>1, <3>2
  <2>9. JobsInv'
    BY <2>8 DEF JobsInv, CoreMoves
  <2>10. QED
    BY <1>11, <1>12, <2>9
<1>16. QED
  BY <1>14, <1>15

-----------------------------------------------------------------------------
(* A new job.                                                              *)

\* touchedTransactionPartitions: the n-th element of a finite set of numbers.
Below(T, p) == Cardinality({q \in T : q < p})
Nth(T, n) == CHOOSE p \in T : Below(T, p) = n - 1

\* Every element is the n-th for some n, and every n gives an element.
LEMMA NthElement ==
    ASSUME NEW T \in SUBSET Nat, IsFiniteSet(T)
    PROVE  /\ Cardinality(T) \in Nat
           /\ \A n \in 1 .. Cardinality(T) : Nth(T, n) \in T
           /\ \A p \in T : \E n \in 1 .. Cardinality(T) : Nth(T, n) = p
<1> DEFINE c == Cardinality(T)
           f == [p \in T |-> Below(T, p)]
<1>1. c \in Nat
  BY FS_CardinalityType
<1>2. ASSUME NEW p \in T PROVE Below(T, p) \in 0 .. c - 1
  <2> DEFINE B == {q \in T : q < p}
  <2>1. IsFiniteSet(T \ {p}) /\ Cardinality(T \ {p}) = c - 1
    BY FS_RemoveElement
  <2>2. B \in SUBSET (T \ {p})
    OBVIOUS
  <2> HIDE DEF B, c
  <2>3. IsFiniteSet(B) /\ Cardinality(B) <= c - 1
    BY <2>1, <2>2, FS_Subset
  <2>4. Cardinality(B) \in Nat
    BY <2>3, FS_CardinalityType
  <2>5. QED
    BY <1>1, <2>3, <2>4 DEF Below, B
<1>3. ASSUME NEW p \in T, NEW q \in T, p < q PROVE Below(T, p) # Below(T, q)
  <2> DEFINE B == {x \in T : x < p}
             C == {x \in T : x < q}
  <2>0. p \in Nat /\ q \in Nat /\ \A x \in T : x \in Nat
    OBVIOUS
  <2>1. B \in SUBSET C /\ p \in C /\ p \notin B /\ C \in SUBSET T
    <3>1. \A x \in T : x < p => x < q
      BY <1>3, <2>0
    <3>2. ~(p < p)
      BY <2>0
    <3>3. QED
      BY <1>3, <3>1, <3>2
  <2> HIDE DEF B, C
  <2>2. IsFiniteSet(C)
    BY <2>1, FS_Subset
  <2>3. Cardinality(B) # Cardinality(C)
    BY <2>1, <2>2, FS_Subset
  <2>4. QED
    BY <2>3 DEF Below, B, C
<1>4. f \in Injection(T, 0 .. c - 1)
  <2>1. f \in [T -> 0 .. c - 1]
    BY <1>2
  <2>2. ASSUME NEW a \in T, NEW b \in T, f[a] = f[b] PROVE a = b
    <3>1. a \in Nat /\ b \in Nat
      OBVIOUS
    <3>2. Below(T, a) = Below(T, b)
      BY <2>2
    <3>3. QED
      BY <1>3, <3>1, <3>2
  <2> HIDE DEF f
  <2>3. QED
    <3>1. DOMAIN f = T
      BY <2>1
    <3>2. IsInjective(f)
      BY <2>2, <3>1 DEF IsInjective
    <3>3. QED
      BY <2>1, <3>2 DEF Injection
<1>5. IsFiniteSet(0 .. c - 1) /\ Cardinality(0 .. c - 1) = c
  <2> HIDE DEF c
  <2>1. 0 \in Int /\ c - 1 \in Int
    BY <1>1
  <2>2. IsFiniteSet(0 .. c - 1) /\ Cardinality(0 .. c - 1) = IF 0 > c - 1 THEN 0 ELSE (c - 1) - 0 + 1
    BY <2>1, FS_Interval
  <2>3. QED
    BY <1>1, <2>2
<1>6. f \in Surjection(T, 0 .. c - 1)
  BY <1>4, <1>5, FS_Injection
<1>7. ASSUME NEW n \in 1 .. c PROVE Nth(T, n) \in T /\ Below(T, Nth(T, n)) = n - 1
  <2>1. n - 1 \in 0 .. c - 1
    BY <1>1
  <2>2. PICK p \in T : f[p] = n - 1
    BY <1>6, <2>1 DEF Surjection
  <2>3. Below(T, p) = n - 1
    BY <2>2
  <2>4. QED
    BY <2>3 DEF Nth
<1>8. ASSUME NEW p \in T PROVE \E n \in 1 .. c : Nth(T, n) = p
  <2> DEFINE n == Below(T, p) + 1
  <2>1. n \in 1 .. c /\ n - 1 = Below(T, p)
    BY <1>1, <1>2
  <2> HIDE DEF n
  <2>2. Nth(T, n) \in T /\ Below(T, Nth(T, n)) = Below(T, p)
    BY <1>7, <2>1
  <2>3. Nth(T, n) \in Nat /\ p \in Nat
    BY <2>2
  <2>4. Nth(T, n) = p
    BY <1>3, <2>2, <2>3
  <2>5. QED
    BY <2>1, <2>4
<1>9. QED
  BY <1>1, <1>7, <1>8

\* Parts of a job of ranks in A, in order.
Ranked(s, A) == IsASeq(s) /\ InOrderOf(s) /\ \A n \in DOMAIN s : Rank(s[n]) \in A

\* One behind the other.
LEMMA RankedConcat ==
    ASSUME NEW s, NEW A, Ranked(s, A), NEW t, NEW C, Ranked(t, C), \A x \in A, y \in C : x <= y
    PROVE  Ranked(s \o t, A \cup C) /\ Range(s \o t) = Range(s) \cup Range(t)
<1> DEFINE u == s \o t
<1>0. u = s \o t
  OBVIOUS
<1> HIDE DEF u
<1>1. IsASeq(s) /\ IsASeq(t) /\ InOrderOf(s) /\ InOrderOf(t)
  BY DEF Ranked
<1>2. PICK j \in Nat, k \in Nat : j = Len(s) /\ k = Len(t) /\ DOMAIN s = 1 .. j /\ DOMAIN t = 1 .. k
  BY <1>1, AnySeq DEF IsASeq
<1>3. IsASeq(u) /\ Len(u) = j + k
  BY <1>0, <1>1, <1>2, ConcatAny
<1>4. DOMAIN u = 1 .. j + k
  BY <1>2, <1>3, AnySeq DEF IsASeq
<1>5. \A n \in 1 .. j + k : u[n] = IF n <= j THEN s[n] ELSE t[n - j]
  <2> DEFINE S == Range(s) \cup Range(t)
  <2>1. s \in Seq(Range(s)) /\ t \in Seq(Range(t))
    BY <1>1 DEF IsASeq
  <2>2. s \in Seq(S) /\ t \in Seq(S)
    BY <2>1
  <2> HIDE DEF S
  <2>3. QED
    BY <1>0, <1>2, <2>2
<1>6. /\ \A n \in 1 .. j : n \in DOMAIN u /\ u[n] = s[n]
      /\ \A n \in 1 .. k : j + n \in DOMAIN u /\ u[j + n] = t[n]
      /\ \A n \in DOMAIN u : (n \in 1 .. j /\ u[n] = s[n]) \/ (n > j /\ n - j \in 1 .. k /\ u[n] = t[n - j])
  BY <1>2, <1>4, <1>5
<1>7. Range(u) = Range(s) \cup Range(t)
  <2>1. ASSUME NEW x \in Range(u) PROVE x \in Range(s) \/ x \in Range(t)
    BY <1>2, <1>6 DEF Range
  <2>2. ASSUME NEW x \in Range(s) PROVE x \in Range(u)
    BY <1>2, <1>6 DEF Range
  <2>3. ASSUME NEW x \in Range(t) PROVE x \in Range(u)
    <3>1. PICK n \in 1 .. k : t[n] = x
      BY <1>2 DEF Range
    <3>2. j + n \in DOMAIN u /\ u[j + n] = x
      BY <1>6, <3>1
    <3>3. QED
      BY <3>2 DEF Range
  <2>4. QED
    BY <2>1, <2>2, <2>3
<1>9. \A n \in DOMAIN u : Rank(u[n]) \in A \cup C
  BY <1>2, <1>6 DEF Ranked
<1>10. ASSUME NEW x \in DOMAIN u, NEW y \in DOMAIN u, x < y PROVE Rank(u[x]) <= Rank(u[y])
  <2>1. CASE y \in 1 .. j
    BY <1>1, <1>2, <1>4, <1>6, <1>10, <2>1 DEF InOrderOf
  <2>2. CASE x \notin 1 .. j
    <3>1. x - j \in DOMAIN t /\ y - j \in DOMAIN t /\ x - j < y - j /\ u[x] = t[x - j] /\ u[y] = t[y - j]
      BY <1>2, <1>4, <1>6, <1>10, <2>2
    <3>2. QED
      BY <1>1, <3>1 DEF InOrderOf
  <2>3. CASE x \in 1 .. j /\ y \notin 1 .. j
    <3>1. u[x] = s[x] /\ y - j \in DOMAIN t /\ u[y] = t[y - j]
      BY <1>2, <1>6, <2>3
    <3>2. Rank(u[x]) \in A /\ Rank(u[y]) \in C
      BY <1>2, <2>3, <3>1 DEF Ranked
    <3>3. QED
      BY <3>2
  <2>4. QED
    BY <2>1, <2>2, <2>3
<1>11. QED
  BY <1>0, <1>3, <1>7, <1>9, <1>10 DEF Ranked, InOrderOf

\* A single part.
LEMMA OnePart ==
    ASSUME NEW w \in {"apply", "offsets", "decide"}, NEW a, NEW t, t = [do |-> w], a = Rank(t)
    PROVE  Ranked(Do(w), {a}) /\ Range(Do(w)) = {t} /\ Do(w)[1] = t /\ Len(Do(w)) = 1
<1> DEFINE s == <<t>>
<1>1. Do(w) = s
  BY DEF Do
<1>2. s \in Seq({t}) /\ Len(s) = 1 /\ s[1] = t
  OBVIOUS
<1> HIDE DEF s
<1>3. IsASeq(s) /\ DOMAIN s = 1 .. 1
  BY <1>2, AnySeq
<1>4. \A n \in DOMAIN s : n = 1 /\ s[n] = t
  BY <1>2, <1>3
<1>5. Range(s) = {t}
  BY <1>3, <1>4 DEF Range
<1>6. InOrderOf(s)
  BY <1>4 DEF InOrderOf
<1>7. Ranked(s, {a})
  BY <1>3, <1>4, <1>6 DEF Ranked
<1>8. QED
  BY <1>1, <1>2, <1>5, <1>7

\* Parts that are all of one rank.
LEMMA SameRank ==
    ASSUME NEW k \in Nat, NEW a \in Int, NEW s, s = [n \in 1 .. k |-> s[n]], \A n \in 1 .. k : Rank(s[n]) = a
    PROVE  Ranked(s, {a}) /\ Range(s) = {s[n] : n \in 1 .. k}
<1>1. s \in Seq({s[n] : n \in 1 .. k}) /\ Len(s) = k
  OBVIOUS
<1>2. DOMAIN s = 1 .. k
  OBVIOUS
<1>3. IsASeq(s)
  BY <1>1, AnySeq
<1>4. Range(s) = {s[n] : n \in 1 .. k}
  BY <1>2 DEF Range
<1>5. \A n \in DOMAIN s : Rank(s[n]) = a
  BY <1>2
<1>6. InOrderOf(s)
  BY <1>5 DEF InOrderOf
<1>7. QED
  BY <1>3, <1>4, <1>5, <1>6 DEF Ranked

\* Records: one for every message.
LEMMA RecordParts ==
    ASSUME NEW i, NEW tx, tx.msgs \in Seq(Numbered)
    PROVE  /\ Ranked(Records(i, tx), {1})
           /\ Range(Records(i, tx)) = {RecTask(i, tx.epoch, m) : m \in Range(tx.msgs)}
<1> DEFINE k == Len(tx.msgs)
           f(n) == RecTask(i, tx.epoch, tx.msgs[n])
           s == [n \in 1 .. k |-> f(n)]
<1>1. k \in Nat /\ DOMAIN tx.msgs = 1 .. k
  OBVIOUS
<1>2. Records(i, tx) = s
  BY <1>1 DEF Records, RecTask
<1>3. \A n \in 1 .. k : Rank(f(n)) = 1
  BY Ranks
<1>4. Range(tx.msgs) = {tx.msgs[n] : n \in 1 .. k}
  BY <1>1 DEF Range
<1>5. {f(n) : n \in 1 .. k} = {RecTask(i, tx.epoch, m) : m \in Range(tx.msgs)}
  BY <1>4
<1> HIDE DEF k, f
<1>6. s = [n \in 1 .. k |-> s[n]] /\ \A n \in 1 .. k : s[n] = f(n)
  OBVIOUS
<1>7. {s[n] : n \in 1 .. k} = {f(n) : n \in 1 .. k}
  BY <1>6
<1>8. \A n \in 1 .. k : Rank(s[n]) = 1
  BY <1>3, <1>6
<1> HIDE DEF s
<1>9. Ranked(s, {1}) /\ Range(s) = {s[n] : n \in 1 .. k}
  <2>1. 1 \in Int
    OBVIOUS
  <2>2. QED
    BY <1>1, <1>6, <1>8, <2>1, SameRank, Zenon
<1>10. QED
  BY <1>2, <1>5, <1>7, <1>9

\* Markers: one for every partition of a message.
LEMMA MarkerParts ==
    ASSUME NEW i, NEW tx, tx.msgs \in Seq(Numbered)
    PROVE  /\ Ranked(Markers(i, tx), {2})
           /\ Range(Markers(i, tx)) = {MarkTask(i, tx.epoch, m) : m \in Range(tx.msgs)}
<1> DEFINE touched == {m[1] : m \in Range(tx.msgs)}
           k == Cardinality(touched)
           g(p) == [do |-> "write", p |-> p, rec |-> Record(MarkerPid(i), tx.epoch, 1, i, TRUE)]
           f(n) == g(Nth(touched, n))
           s == [n \in 1 .. k |-> f(n)]
<1>1. Markers(i, tx) = s
  BY DEF Markers, Nth, Below
<1>2. Range(tx.msgs) \subseteq Numbered
  BY DEF Range
<1>3. touched \in SUBSET Nat
  BY <1>2 DEF Numbered, Partitions
<1>4. IsFiniteSet(touched)
  <2> DEFINE h == [m \in Range(tx.msgs) |-> m[1]]
  <2>1. IsFiniteSet(Range(tx.msgs))
    BY RangeFinite
  <2>2. h \in Surjection(Range(tx.msgs), touched)
    BY DEF Surjection
  <2>3. QED
    BY <2>1, <2>2, FS_Surjection
<1>5. /\ k \in Nat
      /\ \A n \in 1 .. k : Nth(touched, n) \in touched
      /\ \A p \in touched : \E n \in 1 .. k : Nth(touched, n) = p
  BY <1>3, <1>4, NthElement
<1>6. \A m \in Range(tx.msgs) : g(m[1]) = MarkTask(i, tx.epoch, m)
  BY DEF MarkTask
<1>7. \A p \in touched : \E m \in Range(tx.msgs) : p = m[1] /\ g(p) = MarkTask(i, tx.epoch, m)
  BY <1>6
<1>8. \A m \in Range(tx.msgs) : m[1] \in touched
  OBVIOUS
<1>9. \A p \in touched : Rank(g(p)) = 2
  <2>1. \A m : Rank(MarkTask(i, tx.epoch, m)) = 2
    BY Ranks
  <2>2. QED
    BY <1>7, <2>1
<1> HIDE DEF touched, g, k
<1>10. \A n \in 1 .. k : Rank(f(n)) = 2
  BY <1>5, <1>9
<1>11. {f(n) : n \in 1 .. k} = {MarkTask(i, tx.epoch, m) : m \in Range(tx.msgs)}
  <2>1. ASSUME NEW n \in 1 .. k PROVE \E m \in Range(tx.msgs) : f(n) = MarkTask(i, tx.epoch, m)
    BY <1>5, <1>7
  <2>2. ASSUME NEW m \in Range(tx.msgs) PROVE \E n \in 1 .. k : f(n) = MarkTask(i, tx.epoch, m)
    BY <1>5, <1>6, <1>8
  <2> HIDE DEF f
  <2>3. QED
    BY <2>1, <2>2
<1> HIDE DEF f
<1>12. s = [n \in 1 .. k |-> s[n]] /\ \A n \in 1 .. k : s[n] = f(n)
  OBVIOUS
<1>13. {s[n] : n \in 1 .. k} = {f(n) : n \in 1 .. k}
  BY <1>12
<1>14. \A n \in 1 .. k : Rank(s[n]) = 2
  BY <1>10, <1>12
<1> HIDE DEF s
<1>15. Ranked(s, {2}) /\ Range(s) = {s[n] : n \in 1 .. k}
  <2>1. 2 \in Int
    OBVIOUS
  <2>2. QED
    BY <1>5, <1>12, <1>14, <2>1, SameRank, Zenon
<1>16. QED
  BY <1>1, <1>11, <1>13, <1>15

\* Todo: apply, the records, the markers, the offsets, the outcome.
LEMMA TodoPlan ==
    ASSUME NEW i, NEW tx, tx.msgs \in Seq(Numbered), NEW l
    PROVE  Plan(Todo(i, tx), i, tx.epoch, Range(tx.msgs), l) /\ Todo(i, tx)[1].do = "apply"
<1> DEFINE e == tx.epoch
           M == Range(tx.msgs)
           a == [do |-> "apply"]
           o == [do |-> "offsets"]
           d == [do |-> "decide"]
           R == Records(i, tx)
           K == Markers(i, tx)
           O == Offsets(tx)
<1>1. a.do = "apply" /\ o.do = "offsets" /\ d.do = "decide"
  OBVIOUS
<1>2. Rank(a) = 0 /\ Rank(o) = 3 /\ Rank(d) = 4
  BY <1>1, Ranks
<1>3. /\ Ranked(Do("apply"), {0}) /\ Range(Do("apply")) = {a} /\ Do("apply")[1] = a /\ Len(Do("apply")) = 1
      /\ Ranked(Do("offsets"), {3}) /\ Range(Do("offsets")) = {o}
      /\ Ranked(Do("decide"), {4}) /\ Range(Do("decide")) = {d}
  BY <1>2, OnePart
<1>4. Ranked(O, {3}) /\ Range(O) \subseteq {o}
  <2>1. Ranked(<< >>, {3}) /\ Range(<< >>) = {}
    <3>1. << >> \in Seq({}) /\ DOMAIN << >> = {}
      OBVIOUS
    <3>2. QED
      BY <3>1, AnySeq DEF Ranked, InOrderOf, Range
  <2>2. QED
    BY <1>3, <2>1 DEF Offsets
<1>5. /\ Ranked(R, {1}) /\ Range(R) = {RecTask(i, e, m) : m \in M}
      /\ Ranked(K, {2}) /\ Range(K) = {MarkTask(i, e, m) : m \in M}
  <2>1. Ranked(R, {1}) /\ Range(R) = {RecTask(i, e, m) : m \in M}
    BY RecordParts, Zenon
  <2>2. Ranked(K, {2}) /\ Range(K) = {MarkTask(i, e, m) : m \in M}
    BY MarkerParts, Zenon
  <2>3. QED
    BY <2>1, <2>2
<1>6. Todo(i, tx) = Do("apply") \o R \o K \o O \o Do("decide")
  BY DEF Todo
<1> DEFINE D == Do("apply")
           E == Do("decide")
           b == D \o R
           c == b \o K
           g == c \o O
           u == g \o E
<1>7. Todo(i, tx) = u
  BY <1>6
<1> DEFINE Y0 == {0}
           Y1 == {1}
           Y2 == {2}
           Y3 == {3}
           Y4 == {4}
           X1 == Y0 \cup Y1
           X2 == X1 \cup Y2
           X3 == X2 \cup Y3
           X4 == X3 \cup Y4
<1>9. /\ \A x \in Y0, y \in Y1 : x <= y
      /\ \A x \in X1, y \in Y2 : x <= y
      /\ \A x \in X2, y \in Y3 : x <= y
      /\ \A x \in X3, y \in Y4 : x <= y
  OBVIOUS
<1>0. /\ Ranked(Do("apply"), Y0) /\ Ranked(Do("decide"), Y4)
       /\ D = Do("apply") /\ E = Do("decide") /\ Ranked(D, Y0) /\ Ranked(E, Y4)
       /\ Ranked(R, Y1) /\ Ranked(K, Y2) /\ Ranked(O, Y3)
  BY <1>3, <1>4, <1>5
<1> HIDE DEF D, E, R, K, O, a, o, d, Y0, Y1, Y2, Y3, Y4
<1>8. Ranked(b, X1) /\ Range(b) = Range(D) \cup Range(R)
  BY <1>9, <1>0, RankedConcat
<1> HIDE DEF b, X1
<1>10. Ranked(c, X2) /\ Range(c) = Range(b) \cup Range(K)
  BY <1>5, <1>8, <1>9, <1>0, RankedConcat
<1> HIDE DEF c, X2
<1>11. Ranked(g, X3) /\ Range(g) = Range(c) \cup Range(O)
  BY <1>4, <1>10, <1>9, <1>0, RankedConcat
<1> HIDE DEF g, X3
<1>12. Ranked(u, X4) /\ Range(u) = Range(g) \cup Range(E)
  BY <1>11, <1>9, <1>0, RankedConcat
<1> HIDE DEF u, X4
<1>13. /\ Range(u) \subseteq {a, o, d} \cup Range(R) \cup Range(K)
       /\ Range(R) \cup Range(K) \cup {a} \subseteq Range(u)
  BY <1>3, <1>4, <1>8, <1>10, <1>11, <1>12 DEF D, E
<1>14. \A n \in DOMAIN u : TaskOk(u[n], i, e, M)
  <2> TAKE n \in DOMAIN u
  <2>1. u[n] \in Range(u)
    BY DEF Range
  <2>2. u[n] \in {a, o, d} \/ \E m \in M : u[n] = RecTask(i, e, m) \/ u[n] = MarkTask(i, e, m)
    BY <1>5, <1>13, <2>1
  <2>3. QED
    BY <1>1, <2>2 DEF TaskOk
<1>15. Covers(u, i, e, M, l)
  <2> SUFFICES ASSUME NEW m \in M
               PROVE  /\ \E n \in DOMAIN u : u[n] = RecTask(i, e, m)
                      /\ \E n \in DOMAIN u : u[n] = MarkTask(i, e, m)
    BY DEF Covers
  <2>1. RecTask(i, e, m) \in Range(u) /\ MarkTask(i, e, m) \in Range(u)
    BY <1>5, <1>13
  <2>2. QED
    BY <2>1 DEF Range
<1>16. u[1].do = "apply"
  <2>1. IsASeq(u) /\ InOrderOf(u)
    BY <1>12 DEF Ranked
  <2>2. PICK n \in DOMAIN u : u[n] = a
    BY <1>13 DEF Range
  <2>3. DOMAIN u = 1 .. Len(u) /\ Len(u) \in Nat
    BY <2>1, AnySeq DEF IsASeq
  <2>4. 1 \in DOMAIN u /\ (n = 1 \/ 1 < n)
    BY <2>2, <2>3
  <2>5. Rank(u[1]) <= 0
    BY <1>2, <2>1, <2>2, <2>4 DEF InOrderOf
  <2>6. QED
    BY <1>14, <2>4, <2>5, Ranks DEF TaskOk, Rank
<1>17. QED
  BY <1>7, <1>12, <1>14, <1>15, <1>16 DEF Plan, Ranked

-----------------------------------------------------------------------------
(* The steps of the transaction coordinator.                               *)

\* A step that appends nothing.
LEMMA StillLogs ==
    ASSUME TopicOk, LogsOk, CoreInv, CoreInv', CoreMoves, RecordsInv, UNCHANGED logVars
    PROVE  RecordsInv' /\ Grows /\ LogsMove
<1>1. UNCHANGED <<topic, log, producers>>
  BY DEF logVars
<1>2. RecordsInv' /\ Grows
  BY <1>1, NonePlain, PlainStep
<1>3. LogsMove
  BY <1>1, <1>2 DEF LogsMove, TopicOk
<1>4. QED
  BY <1>2, <1>3

\* It keeps the outcomes when it keeps the jobs.
LEMMA StillOutcome ==
    ASSUME TopicOk, LogsOk, TxnInv, CoreInv, CoreInv', CoreMoves, OutcomeInv, UNCHANGED logVars, JobsInv'
    PROVE  OutcomeInv'
<1>1. RecordsInv
  BY DEF OutcomeInv
<1>2. RecordsInv' /\ LogsMove
  BY <1>1, StillLogs
<1>3. GenInv' /\ FinInv' /\ TailWhole'
  BY <1>2, OutcomesKept
<1>4. QED
  BY <1>2, <1>3 DEF OutcomeInv

\* A step of one job.
LEMMA JobOfOne ==
    ASSUME TopicOk, CoreInv, CoreInv', CoreMoves, JobsInv, Grows, topic.reg => topic'.reg,
           NEW i \in Ids, \A n \in Ids \ {i} : job'[n] = job[n],
           job'[i] = NoJob \/ JobPlan(i)'
    PROVE  JobsInv'
<1>1. ASSUME NEW k \in Ids, Locked(k)' PROVE JobPlan(k)'
  <2>1. job'[k] # NoJob
    BY <1>1 DEF Locked, NoJob, Nobody
  <2>2. CASE k = i
    BY <2>1, <2>2
  <2>3. CASE k # i
    <3>1. job'[k] = job[k] /\ Locked(k)
      BY <2>1, <2>3 DEF Locked
    <3>2. QED
      BY <3>1, JobKept
  <2>4. QED
    BY <2>2, <2>3
<1>2. QED
  BY <1>1 DEF JobsInv, CoreMoves

\* handleEndTxn and RecoverPreparedTransactions start a job that has everything still to do.
LEMMA NewJob ==
    ASSUME CoreInv', CoreMoves, NEW i \in Ids, job'[i] # NoJob, job'[i].todo = Todo(i, journal'[i])
    PROVE  JobPlan(i)'
<1>1. i \in Ids' /\ Locked(i)'
  BY DEF CoreMoves, Locked, NoJob, Nobody
<1>2. JobFor(i)' /\ DecidedOk(decided[i], journal[i])' /\ TxOk(journal[i])'
  BY <1>1 DEF CoreInv, WorkInv, DecidedInv, StateInv, StateOk
<1>3. decided'[i][journal'[i].epoch].msgs = Range(journal'[i].msgs)
  BY <1>2 DEF JobFor, DecidedOk
<1>4. journal'[i].msgs \in Seq(Numbered)
  BY <1>2 DEF TxOk
<1> DEFINE tx == journal'[i]
<1> HIDE DEF tx
<1>5. tx.msgs \in Seq(Numbered)
  BY <1>4 DEF tx
<1>6. Plan(Todo(i, tx), i, tx.epoch, Range(tx.msgs), log') /\ Todo(i, tx)[1].do = "apply"
  BY <1>5, TodoPlan
<1>7. MsgsOf(i)' = Range(tx.msgs) /\ job'[i].todo = Todo(i, tx)
  BY <1>3 DEF MsgsOf, tx
<1>8. QED
  BY <1>6, <1>7 DEF JobPlan, tx

\* The clients' commands, and pruning.
LEMMA CommandOutcome ==
    ASSUME TopicOk, LogsOk, TxnInv, CoreInv, CoreInv', CoreMoves, OutcomeInv,
           TxnCommand \/ Rebalance \/ \E n \in Ids : PruneExpired(n)
    PROVE  OutcomeInv'
<1>1. UNCHANGED logVars
  BY DEF TxnCommand, Rebalance, InitProducerID, BeginTxn, BeginRefused, SendOffsets, EndTxnAbort, EndTxnCommit,
         EndTxnCommitted, TxnRefused, TxnPublish, PruneExpired
<1>2. topic' = topic
  BY <1>1 DEF logVars
<1>3. RecordsInv' /\ Grows
  BY <1>1, StillLogs DEF OutcomeInv
<1>4. CASE UNCHANGED job
  <2>1. JobsInv'
    BY <1>2, <1>3, <1>4, JobsKept DEF OutcomeInv
  <2>2. QED
    BY <1>1, <2>1, StillOutcome
<1>5. ASSUME NEW c \in TxnClients, EndTxnCommit(c) PROVE OutcomeInv' \/ UNCHANGED job
  <2> DEFINE i == IdOf(c)
             tx == PrepareCommit(txns[i])
  <2>1. (Sync(i, tx) /\ Prepared(i, tx, c)) \/ UNCHANGED job
    BY <1>5 DEF EndTxnCommit
  <2>2. i \in Ids
    BY IdOfIds
  <2>3. CASE Sync(i, tx) /\ Prepared(i, tx, c)
    <3>1. job' = [n \in Ids |-> IF n = i THEN [todo |-> Todo(i, tx), by |-> c] ELSE job[n]]
      BY <2>3 DEF Prepared, SetJob, TxnInv, JobsOk
    <3>2. journal'[i] = tx
      <4>1. StateOk(journal[i], txns[i]) /\ TxOk(txns[i]) /\ txns[i].state \in {"open", "committing"}
        BY <1>5, <2>2 DEF EndTxnCommit, MayCommit, CoreInv, StateInv, StateOk
      <4>2. TxOk(tx) /\ Later(txns[i], tx) /\ tx.state = "committing"
        <5>1. tx.state = "committing"
          BY <4>1, IsTxFacts DEF PrepareCommit, TxOk
        <5>2. QED
          BY <4>1, <5>1, Snapshots
      <4>3. MaySync(i, tx)
        BY <4>2 DEF MaySync
      <4> HIDE DEF tx, i
      <4>4. journal'[i] = tx
        BY <2>2, <2>3, <4>3, Synced DEF CoreInv, CoreMoves
      <4>5. QED
        BY <4>2, <4>4 DEF Terminal
    <3> HIDE DEF tx, i
    <3> DEFINE j == [todo |-> Todo(i, tx), by |-> c]
    <3>3. j.todo = Todo(i, tx) /\ j.by = c /\ c # Nobody
      BY TxnConstants DEF Nobody
    <3>4. j # NoJob
      BY <3>3 DEF NoJob
    <3> HIDE DEF j
    <3>5. job'[i] = j /\ \A k \in Ids \ {i} : job'[k] = job[k]
      BY <2>2, <3>1 DEF j
    <3>6. JobsInv'
      <4>1. \A n \in Ids : n = i => JobPlan(n)'
        BY <3>2, <3>3, <3>4, <3>5, NewJob
      <4>2. QED
        <5>1. PICK n \in Ids : n = i
          BY <2>2
        <5>2. JobPlan(n)' /\ \A k \in Ids \ {n} : job'[k] = job[k]
          BY <3>5, <4>1, <5>1
        <5>3. QED
          BY <1>2, <1>3, <5>2, JobOfOne DEF OutcomeInv
    <3>7. QED
      BY <1>1, <3>6, StillOutcome
  <2>4. QED
    BY <2>1, <2>3
<1>6. QED
  <2>1. ASSUME \A c \in TxnClients : ~EndTxnCommit(c) PROVE UNCHANGED job
    BY <2>1 DEF TxnCommand, Rebalance, InitProducerID, BeginTxn, BeginRefused, SendOffsets, EndTxnAbort,
         EndTxnCommitted, TxnRefused, TxnPublish, PruneExpired
  <2>2. QED
    BY <1>4, <1>5, <2>1

\* The parts of a job that append nothing, and its end.
LEMMA WorkOutcome ==
    ASSUME TopicOk, LogsOk, TxnInv, CoreInv, CoreInv', CoreMoves, OutcomeInv, NEW i \in Ids,
           TxnApply(i) \/ ApplyFails(i) \/ RecoverTransaction(i)
    PROVE  OutcomeInv'
<1>1. CASE PublishNext(i)
  <2>1. RecordsInv' /\ JobsInv' /\ Grows
    BY <1>1, PublishKeeps
  <2>2. topic' = topic
    BY <1>1 DEF PublishNext, Store
  <2>3. LogsMove
    BY <2>1, <2>2 DEF LogsMove, TopicOk
  <2>4. QED
    BY <2>1, <2>3, OutcomesKept DEF OutcomeInv
<1>2. CASE ~PublishNext(i)
  <2>1. UNCHANGED logVars
    BY <1>2 DEF TxnApply, ApplyTransaction, CommitTxnOffsets, DecideCommitted, ApplyFails, RecoverTransaction
  <2>2. topic' = topic /\ log' = log
    BY <2>1 DEF logVars
  <2>3. RecordsInv' /\ Grows
    BY <2>1, StillLogs DEF OutcomeInv
  <2>4. SUFFICES JobsInv'
    BY <2>1, StillOutcome
  <2>5. CASE GiveUpJob(i)
    <3>1. \A k \in Ids : job'[k] = job[k] \/ job'[k] = NoJob
      BY <2>5 DEF GiveUpJob, SetJob, TxnInv, JobsOk
    <3>2. QED
      BY <2>2, <2>3, <3>1, JobsKept DEF OutcomeInv
  <2>6. CASE RecoverTransaction(i)
    <3>1. txns[i] = journal[i] /\ journal' = journal /\ Prepared(i, txns[i], Recovery)
      BY <2>6 DEF RecoverTransaction, CoreInv, QuietInv
    <3>2. job' = [n \in Ids |-> IF n = i THEN [todo |-> Todo(i, journal[i]), by |-> Recovery] ELSE job[n]]
      BY <3>1 DEF Prepared, SetJob, TxnInv, JobsOk
    <3> DEFINE j == [todo |-> Todo(i, journal[i]), by |-> Recovery]
    <3>3. j.todo = Todo(i, journal[i]) /\ j.by = Recovery /\ Recovery # Nobody
      BY DEF Nobody, Recovery
    <3>4. j # NoJob
      BY <3>3 DEF NoJob
    <3> HIDE DEF j
    <3>5. job'[i] = j /\ \A k \in Ids \ {i} : job'[k] = job[k]
      BY <3>2 DEF j
    <3>6. JobPlan(i)'
      BY <3>1, <3>3, <3>4, <3>5, NewJob
    <3>7. QED
      BY <2>2, <2>3, <3>5, <3>6, JobOfOne DEF OutcomeInv
  <2>7. CASE Advance(i) /\ UNCHANGED <<journal, decided>> /\ Doing(i) \in {"apply", "offsets"}
             /\ (Doing(i) = "apply" => ValidateTransaction(txns[i]))
    <3>1. Locked(i) /\ job[i].todo[1].do = Doing(i) /\ IsASeq(job[i].todo) /\ job[i].todo # << >>
      BY <2>7, TodoFacts DEF Doing, None
    <3>2. JobPlan(i) /\ JobFor(i)
      BY <3>1 DEF OutcomeInv, JobsInv, CoreInv, WorkInv
    <3>3. job = [k \in Ids |-> job[k]] /\ DOMAIN job[i] = {"todo", "by"}
      BY DEF TxnInv, JobsOk, JobOk
    <3>4. job'[i] = [job[i] EXCEPT !.todo = Tail(@)] /\ \A k \in Ids \ {i} : job'[k] = job[k]
      BY <2>7, <3>3 DEF Advance, SetJob
    <3>5. job'[i].todo = Tail(job[i].todo)
      BY <3>3, <3>4
    <3> DEFINE e == journal[i].epoch
               M == MsgsOf(i)
               t == job[i].todo[1]
    <3>6. \A m : t # RecTask(i, e, m) /\ t # MarkTask(i, e, m)
      <4>1. \A m : RecTask(i, e, m).do = "write" /\ MarkTask(i, e, m).do = "write"
        BY Ranks
      <4>2. t.do # "write"
        BY <2>7, <3>1
      <4> HIDE DEF t, e
      <4>3. QED
        BY <4>1, <4>2
    <3>7. Plan(job[i].todo, i, e, M, log)
      BY <3>2 DEF JobPlan
    <3> HIDE DEF e, M
    <3>8. Plan(Tail(job[i].todo), i, e, M, log)
      BY <3>1, <3>6, <3>7, PlanAdvances DEF t
    <3>9. M # {} => topic.reg
      <4>1. CASE Doing(i) = "apply"
        <5>1. ValidateTransaction(journal[i]) /\ M = Range(journal[i].msgs)
          BY <2>7, <3>2, <4>1, MsgsFacts DEF JobFor, M
        <5>2. QED
          BY <5>1 DEF ValidateTransaction, HasPartition
      <4>2. CASE Doing(i) = "offsets"
        BY <3>1, <3>2, <4>2 DEF JobPlan, M
      <4>3. QED
        BY <2>7, <4>1, <4>2
    <3>10. JobPlan(i)'
      <4>1. MsgsOf(i)' = M /\ journal'[i].epoch = e
        BY <2>7 DEF MsgsOf, M, e
      <4>2. QED
        BY <2>2, <3>5, <3>8, <3>9, <4>1 DEF JobPlan
    <3>11. QED
      BY <2>2, <2>3, <3>4, <3>10, JobOfOne DEF OutcomeInv
  <2>8. GiveUpJob(i) \/ RecoverTransaction(i) \/
        (Advance(i) /\ UNCHANGED <<journal, decided>> /\ Doing(i) \in {"apply", "offsets"}
             /\ (Doing(i) = "apply" => ValidateTransaction(txns[i])))
    <3>1. CASE ApplyTransaction(i)
      BY <3>1 DEF ApplyTransaction
    <3>2. CASE CommitTxnOffsets(i)
      BY <3>2 DEF CommitTxnOffsets
    <3>3. CASE DecideCommitted(i) \/ ApplyFails(i) \/ RecoverTransaction(i)
      BY <3>3 DEF DecideCommitted, ApplyFails
    <3>4. QED
      BY <1>2, <3>1, <3>2, <3>3 DEF TxnApply
  <2>9. QED
    BY <2>5, <2>6, <2>7, <2>8
<1>3. QED
  BY <1>1, <1>2

-----------------------------------------------------------------------------
(* Lifecycle commands, crash and the rest of the broker.                   *)

\* An empty log.
LEMMA EmptyLog ==
    ASSUME NEW p, NEW d
    PROVE  Orderly(<< >>) /\ Marked(p, << >>, d) /\ IsASeq(<< >>)
<1>1. << >> \in Seq({}) /\ DOMAIN << >> = {}
  OBVIOUS
<1>2. QED
  BY <1>1, AnySeq DEF Orderly, Marked

\* TRUNCATE, DELETE, CREATE, and the startup that completes them.
LEMMA LifecycleOutcome ==
    ASSUME TopicOk, LogsOk, TxnInv, ShapeInv, CoreInv, OutcomeInv, LifecycleStep
    PROVE  OutcomeInv' /\ ShapeInv' /\ CoreInv' /\ CoreMoves
<1>1. /\ CoreInv' /\ CoreMoves
      /\ \E op, s : /\ LifeRun(op, s) /\ Become(s)
                    /\ op # "create" => (\A i \in Ids : ~Locked(i)) /\ (~Blocked \/ up = "down")
                    /\ UNCHANGED <<work, job, client, told, decided>>
  BY LifecycleCore
<1>2. PICK op, s : /\ LifeRun(op, s) /\ Become(s)
                   /\ op # "create" => (\A i \in Ids : ~Locked(i)) /\ (~Blocked \/ up = "down")
                   /\ UNCHANGED <<work, job, client, told, decided>>
  BY <1>1
<1>3. Shaped(s) /\ LifeInv(s) /\ LifeTx(s) /\ LifeLog(s) /\ (op = "create" => LifeKeeps(s))
  BY <1>2 DEF LifeRun
<1>4. /\ topic' = s.topic /\ manifest' = s.manifest /\ files' = s.files /\ log' = s.log
      /\ producers' = s.producers /\ tail' = s.tail
  BY <1>2 DEF Become
<1>5. ShapeInv'
  BY <1>3, <1>4 DEF ShapeInv, Shaped
<1>6. RecordsInv'
  <2>1. ASSUME NEW p \in Partitions
        PROVE  Orderly(log'[p]) /\ Marked(p, log'[p], decided') /\ (topic'.reg => Tracks(producers'[p], log'[p]))
    <3>1. Orderly(log[p]) /\ Marked(p, log[p], decided) /\ (topic.reg => Tracks(producers[p], log[p]))
      BY DEF OutcomeInv, RecordsInv
    <3>2. log'[p] = log[p] \/ log'[p] = << >>
      BY <1>3, <1>4 DEF LifeLog
    <3>3. IsASeq(log[p]) /\ decided' = decided
      BY <1>2 DEF LogsOk
    <3>4. Orderly(log'[p]) /\ Marked(p, log'[p], decided') /\ IsASeq(log'[p])
      BY <3>1, <3>2, <3>3, EmptyLog
    <3>5. ASSUME topic'.reg PROVE Tracks(producers'[p], log'[p])
      <4>1. Scans(s) \/ (topic.reg /\ s.log = log /\ s.producers = producers)
        BY <1>3, <1>4, <3>5 DEF LifeLog
      <4>2. CASE Scans(s)
        <5>1. producers'[p] = RecoverProducers(log'[p])
          BY <1>4, <4>2 DEF Scans
        <5>2. QED
          BY <3>4, <5>1, RecoverTracks
      <4>3. CASE topic.reg /\ s.log = log /\ s.producers = producers
        BY <1>4, <3>1, <4>3
      <4>4. QED
        BY <4>1, <4>2, <4>3
    <3>6. QED
      BY <3>4, <3>5
  <2>2. QED
    BY <2>1 DEF RecordsInv
<1>7. log' = log => Grows
  BY DEF Grows
<1>8. LogsMove
  <2>1. topic'.gen \in Nat /\ topic'.gen >= topic.gen /\ (topic'.gen = topic.gen => Grows)
    BY <1>3, <1>4, <1>7 DEF LifeInv
  <2>2. op = "create" => Grows
    BY <1>3, <1>4, <1>7 DEF LifeKeeps
  <2>3. up = "down" => tail' = << >>
    BY <1>3, <1>4 DEF LifeTx, CoreInv, QuietInv
  <2>4. QED
    BY <1>2, <2>1, <2>2, <2>3 DEF LogsMove
<1>9. JobsInv'
  <2>1. CASE op = "create"
    <3>1. Grows /\ (topic.reg => topic'.reg)
      BY <1>3, <1>4, <1>7, <2>1 DEF LifeKeeps
    <3>2. QED
      BY <1>1, <1>2, <3>1, JobsKept DEF OutcomeInv
  <2>2. CASE op # "create"
    BY <1>1, <1>2, <2>2 DEF JobsInv, CoreMoves, Locked, NoJob, Nobody
  <2>3. QED
    BY <2>1, <2>2
<1>10. GenInv' /\ FinInv' /\ TailWhole'
  BY <1>1, <1>8, OutcomesKept
<1>11. QED
  BY <1>1, <1>5, <1>6, <1>9, <1>10 DEF OutcomeInv

\* A crash loses the registration and the jobs; the logs stay.
LEMMA CrashOutcome ==
    ASSUME TopicOk, LogsOk, TxnInv, CoreInv, OutcomeInv, Crash
    PROVE  OutcomeInv' /\ CoreInv' /\ CoreMoves
<1>1. CoreInv' /\ CoreMoves
  BY CrashCore
<1>2. UNCHANGED <<log, producers>> /\ topic' = [topic EXCEPT !.reg = FALSE, !.fenced = FALSE]
      /\ job' = [i \in Ids |-> NoJob]
  BY DEF Crash
<1>3. DOMAIN topic = TopicFields /\ topic.gen \in Nat
  BY DEF TopicOk
<1>4. ~topic'.reg /\ topic'.gen = topic.gen
  BY <1>2, <1>3 DEF TopicFields
<1>5. \A p \in Partitions : PlainTo(log[p], producers[p], log'[p], producers'[p])
  BY <1>2, NonePlain
<1>6. RecordsInv' /\ Grows
  BY <1>1, <1>4, <1>5, PlainStep DEF OutcomeInv
<1>7. JobsInv'
  BY <1>1, <1>2 DEF JobsInv, CoreMoves, Locked, NoJob, Nobody
<1>8. LogsMove
  BY <1>3, <1>4, <1>6 DEF LogsMove
<1>9. GenInv' /\ FinInv' /\ TailWhole'
  BY <1>1, <1>8, OutcomesKept
<1>10. QED
  BY <1>1, <1>6, <1>7, <1>9 DEF OutcomeInv

\* The producer, the streams and the end of recovery write no record of a transaction.
LEMMA ElseOutcome ==
    ASSUME TopicOk, LogsOk, TxnInv, CoreInv, OutcomeInv, topic' = topic,
           UNCHANGED <<work, txns, journal, tail, job, client, told, decided>>,
           up' = up \/ up' \in {"up", "killed"},
           \A p \in Partitions : PlainTo(log[p], producers[p], log'[p], producers'[p])
    PROVE  OutcomeInv' /\ CoreInv' /\ CoreMoves
<1>1. CoreInv' /\ CoreMoves
  BY CoreFrame
<1>2. RecordsInv' /\ Grows
  BY <1>1, PlainStep DEF OutcomeInv
<1>3. JobsInv'
  BY <1>1, <1>2, JobsKept DEF OutcomeInv
<1>4. LogsMove
  BY <1>2 DEF LogsMove, TopicOk
<1>5. GenInv' /\ FinInv' /\ TailWhole'
  BY <1>1, <1>4, OutcomesKept
<1>6. QED
  BY <1>1, <1>2, <1>3, <1>5 DEF OutcomeInv

-----------------------------------------------------------------------------
(* The invariant of the broker's transactions, and what it says.           *)
DecisionInv == BrokerInv /\ ShapeInv /\ CoreInv /\ OutcomeInv

\* Initially nothing is staged.
LEMMA CoreStarts ==
    ASSUME Init
    PROVE  CoreInv
<1>1. /\ txns = [i \in Ids |-> NoTxn] /\ journal = txns /\ tail = << >> /\ job = [i \in Ids |-> NoJob]
      /\ client = [c \in TxnClients |-> [at |-> "new", epoch |-> -1, sent |-> {}]]
      /\ told = [i \in Ids |-> [e \in Epochs |-> [what |-> None, msgs |-> {}]]]
      /\ decided = [i \in Ids |-> [e \in Epochs |-> [gen |-> 0, msgs |-> {}]]]
      /\ up = "up"
  BY DEF Init, TxnInit, LogInit
<1>2. TxOk(NoTxn)
  BY TxnConstants DEF TxOk, IsTx, NoTxn, States, Terminal, None, Numbered
<1>3. NoTxn.state = None /\ NoTxn.epoch = -1
  BY DEF NoTxn
<1>4. StateInv /\ TailInv
  BY <1>1, <1>2 DEF StateInv, StateOk, Follows, TailInv
<1>5. DecidedInv
  <2>1. ASSUME NEW i \in Ids PROVE DecidedOk(decided[i], journal[i]) /\ Committed(decided[i], journal[i])
    <3>1. journal[i] = NoTxn /\ decided[i] = [e \in Epochs |-> [gen |-> 0, msgs |-> {}]]
      BY <1>1
    <3>2. \A e \in Epochs : decided[i][e].gen = 0 /\ decided[i][e].msgs = {}
      BY <3>1
    <3>3. decided[i] = [e \in Epochs |-> decided[i][e]]
      BY <3>1
    <3>4. IsFiniteSet({})
      BY FS_EmptySet
    <3>5. QED
      BY <1>3, <3>1, <3>2, <3>3, <3>4 DEF DecidedOk, Committed, None
  <2>2. decided = [i \in Ids |-> decided[i]]
    BY <1>1
  <2>3. QED
    BY <2>1, <2>2 DEF DecidedInv
<1>6. ClientInv
  <2>1. ASSUME NEW c \in TxnClients PROVE ClientOk(client[c], decided[IdOf(c)], journal[IdOf(c)])
    <3>1. client[c] = [at |-> "new", epoch |-> -1, sent |-> {}] /\ journal[IdOf(c)] = NoTxn
      BY <1>1, IdOfIds
    <3>2. QED
      BY <1>3, <3>1, FS_EmptySet DEF ClientOk
  <2>2. QED
    BY <1>1, <2>1 DEF ClientInv
<1>7. ToldInv
  <2>1. ASSUME NEW i \in Ids PROVE ToldOk(told[i], decided[i], journal[i])
    <3>1. told[i] = [e \in Epochs |-> [what |-> None, msgs |-> {}]]
      BY <1>1
    <3>2. \A e \in Epochs : told[i][e].what = None
      BY <3>1
    <3>3. told[i] = [e \in Epochs |-> told[i][e]]
      BY <3>1
    <3>4. QED
      BY <3>2, <3>3 DEF ToldOk, None
  <2>2. QED
    BY <1>1, <2>1 DEF ToldInv
<1>8. WorkInv /\ QuietInv
  BY <1>1 DEF WorkInv, QuietInv, Locked
<1>9. QED
  BY <1>4, <1>5, <1>6, <1>7, <1>8 DEF CoreInv

\* The logs are empty.
LEMMA OutcomeStarts ==
    ASSUME Init
    PROVE  OutcomeInv /\ ShapeInv
<1>1. /\ log = [p \in Partitions |-> << >>] /\ producers = [p \in Partitions |-> << >>] /\ tail = << >>
      /\ decided = [i \in Ids |-> [e \in Epochs |-> [gen |-> 0, msgs |-> {}]]] /\ job = [i \in Ids |-> NoJob]
      /\ topic = [reg |-> TRUE, fenced |-> FALSE, gen |-> 1, parts |-> IF Does("grow") THEN 1 ELSE NumPartitions]
      /\ manifest = [rev |-> 1, epoch |-> 1, parts |-> topic.parts, gen |-> 1]
      /\ files = [logs |-> 1 .. topic.parts, marker |-> 0]
  BY DEF Init, TxnInit, LogInit, LifecycleInit
<1>2. RecordsInv
  <2>1. DOMAIN << >> = {}
    OBVIOUS
  <2>2. ASSUME NEW p \in Partitions PROVE Orderly(log[p]) /\ Marked(p, log[p], decided) /\ Tracks(producers[p], log[p])
    <3>1. log[p] = << >> /\ producers[p] = << >>
      BY <1>1
    <3>2. QED
      BY <2>1, <3>1, EmptyLog DEF Tracks
  <2>3. QED
    BY <2>2 DEF RecordsInv
<1>3. JobsInv /\ TailWhole
  BY <1>1 DEF JobsInv, Locked, TailWhole
<1>4. \A i \in Ids : \A e \in Epochs : decided[i][e].gen = 0
  BY <1>1
<1>5. topic.gen = 1
  BY <1>1
<1>6. GenInv /\ FinInv
  BY <1>4, <1>5 DEF GenInv, FinInv
<1>7. DOMAIN files = {"logs", "marker"} /\ DOMAIN manifest = {"rev", "epoch", "parts", "gen"}
  BY <1>1
<1>8. ShapeInv
  BY <1>1, <1>7 DEF ShapeInv, IsFiles
<1>9. QED
  BY <1>2, <1>3, <1>6, <1>8 DEF OutcomeInv

\* What is forgotten stays forgotten.
LEMMA ForgotGrows ==
    ASSUME [Next]_vars, forgot' = {}
    PROVE  forgot = {}
<1>1. forgot' = forgot \/ \E i \in Ids : PruneExpired(i)
  BY DEF Next, vars, txnVars, ProducerAlone, TxnStep, TxnCommand, InitProducerID, BeginTxn, BeginRefused,
         SendOffsets, EndTxnAbort, EndTxnCommit, EndTxnCommitted, TxnRefused, TxnPublish, TxnApply,
         ApplyTransaction, PublishNext, CommitTxnOffsets, DecideCommitted, ApplyFails, RecoverTransaction,
         Rebalance, LifecycleStep, Truncate, Delete, Create, Grow, RestoreTopics, RecoverPendingTruncations,
         Perform, BrokerCrash, Crash, Serve, Ready
<1>2. ASSUME NEW i \in Ids, PruneExpired(i) PROVE forgot \subseteq forgot'
  BY <1>2 DEF PruneExpired
<1>3. QED
  BY <1>1, <1>2

\* A step of the broker that deletes no tombstone.
LEMMA DecisionStep ==
    ASSUME DecisionInv, [Next]_vars, forgot' = {}
    PROVE  DecisionInv' /\ CoreMoves
<1>1. /\ BrokerInv /\ ShapeInv /\ CoreInv /\ OutcomeInv
      /\ ProducerInv /\ TxnInv /\ TopicOk /\ LogsOk
  BY DEF DecisionInv, BrokerInv
<1>2. BrokerInv'
  BY <1>1, NextOk
<1>3. SUFFICES OutcomeInv' /\ CoreInv' /\ ShapeInv' /\ CoreMoves
  BY <1>2 DEF DecisionInv
<1>4. UNCHANGED lifecycleVars => ShapeInv'
  BY <1>1 DEF ShapeInv, lifecycleVars
<1>5. CASE ProducerStep /\ ProducerAlone
  <2>1. UNCHANGED <<work, up, txns, journal, tail, job, client, told, decided>> /\ UNCHANGED lifecycleVars
    BY <1>5 DEF ProducerAlone, txnVars
  <2>2. QED
    BY <1>1, <1>4, <1>5, <2>1, ProducerPlain, ElseOutcome
<1>6. CASE ProducerFault /\ UNCHANGED <<up, txnVars, streamVars, lifecycleVars>>
  <2>1. work' = work
    BY <1>6 DEF ProducerFault, HandleBatchFails, AckTimeout, ConnBreak, Evict
  <2>2. UNCHANGED <<work, up, txns, journal, tail, job, client, told, decided>> /\ UNCHANGED lifecycleVars
    BY <1>6, <2>1 DEF txnVars
  <2>3. QED
    BY <1>1, <1>4, <1>6, <2>2, ProducerPlain, ElseOutcome
<1>7. CASE TxnStep /\ TxnAlone
  <2>1. CASE TxnCommand \/ Rebalance
    <3>1. CoreInv' /\ CoreMoves
      BY <1>1, <2>1, CommandCore
    <3>2. QED
      BY <1>1, <1>4, <1>7, <2>1, <3>1, CommandOutcome DEF TxnAlone
  <2>2. ASSUME NEW i \in Ids, PruneExpired(i) PROVE OutcomeInv' /\ CoreInv' /\ ShapeInv' /\ CoreMoves
    <3>1. CoreInv' /\ CoreMoves
      BY <1>1, <2>2, PruneCore
    <3>2. QED
      BY <1>1, <1>4, <1>7, <2>2, <3>1, CommandOutcome DEF TxnAlone
  <2>3. CASE ~(TxnCommand \/ Rebalance \/ \E i \in Ids : PruneExpired(i))
    <3>1. PICK i \in Ids : TxnApply(i) \/ ApplyFails(i) \/ RecoverTransaction(i)
      BY <1>7, <2>3 DEF TxnStep
    <3>2. CoreInv' /\ CoreMoves
      BY <1>1, <3>1, WorkCore
    <3>3. QED
      BY <1>1, <1>4, <1>7, <3>1, <3>2, WorkOutcome DEF TxnAlone
  <2>4. QED
    BY <2>1, <2>2, <2>3
<1>8. CASE StreamStep /\ UNCHANGED <<work, producerVars, txnVars, lifecycleVars>>
  <2>1. UNCHANGED <<work, txns, journal, tail, job, client, told, decided>> /\ UNCHANGED lifecycleVars
    BY <1>8 DEF txnVars
  <2>2. up' = up \/ up' \in {"up", "killed"}
    BY <1>8 DEF StreamStep, SaveSnapshot
  <2>3. QED
    BY <1>1, <1>4, <1>8, <2>1, <2>2, StreamPlain, ElseOutcome
<1>9. CASE LifecycleStep
  BY <1>1, <1>9, LifecycleOutcome
<1>10. CASE BrokerCrash
  BY <1>1, <1>4, <1>10, CrashOutcome DEF BrokerCrash
<1>11. CASE Serve
  <2>1. /\ up' = "up" /\ UNCHANGED <<work, txns, journal, tail, job, client, told, decided>>
        /\ UNCHANGED <<topic, log, producers>> /\ UNCHANGED <<manifest, files>>
    BY <1>11 DEF Serve, Ready, logVars
  <2>2. ShapeInv'
    BY <1>1, <2>1 DEF ShapeInv
  <2>3. QED
    BY <1>1, <2>1, <2>2, NonePlain, ElseOutcome
<1>12. CASE UNCHANGED vars
  <2>1. /\ UNCHANGED <<up, work, txns, journal, tail, job, client, told, decided>>
        /\ UNCHANGED <<topic, log, producers>> /\ UNCHANGED lifecycleVars
    BY <1>12 DEF vars, logVars, txnVars
  <2>2. QED
    BY <1>1, <1>4, <2>1, NonePlain, ElseOutcome
<1>13. QED
  BY <1>5, <1>6, <1>7, <1>8, <1>9, <1>10, <1>11, <1>12 DEF Next

\* The broker's transactions: as long as the coordinator has deleted no epoch tombstone
\* (pruneExpiredLocked), the journal and what may be behind it, the decisions, the clients, the jobs
\* and the logs agree in every reachable state.
THEOREM DecisionInvariant == Spec => [](forgot = {} => DecisionInv)
<1>1. Init => DecisionInv
  BY InitOk, CoreStarts, OutcomeStarts DEF DecisionInv
<1>2. (forgot = {} => DecisionInv) /\ [Next]_vars => (forgot = {} => DecisionInv)'
  BY ForgotGrows, DecisionStep
<1>3. QED
  BY <1>1, <1>2, PTL DEF Spec

\* The coordinator does not deny an epoch whose outcome is recorded.
LEMMA FinishedDecision ==
    ASSUME CoreInv, NEW i \in Ids, NEW e \in Epochs, Finished(journal[i], e)
    PROVE  Decision[i][e] \in {None, "committed"}
<1>1. TxOk(journal[i]) /\ TxOk(txns[i]) /\ Follows(journal[i], txns[i])
  BY DEF CoreInv, StateInv, StateOk
<1>2. e \in Int /\ journal[i].epoch \in Int
  BY <1>1, TxnConstants DEF Epochs, TxOk
<1>3. txns[i].epoch = journal[i].epoch /\ (journal[i].state = "committed" => txns[i] = journal[i])
  BY <1>1, IsTxFacts DEF Follows, PrepareCommit, TxOk
<1>4. Decision[i][e] = IF txns[i].expired \/ txns[i].epoch # e THEN None ELSE txns[i].state
  BY DEF Decision
<1>5. QED
  BY <1>2, <1>3, <1>4 DEF Finished

\* A message of a finished transaction that is whole is visible.
LEMMA WholeShown ==
    ASSUME CoreInv, RecordsInv, NEW i \in Ids, NEW e \in Epochs, Finished(journal[i], e),
           NEW m \in Numbered, RecordIn(log, i, e, m), MarkerIn(log, i, e, m)
    PROVE  \E x \in Shown(i, e) : <<x[1], log[x[1]][x[2]].seq>> = m
<1> DEFINE p == m[1]
           recs == log[p]
<1>1. p \in Partitions /\ m = <<p, m[2]>>
  BY DEF Numbered
<1>2. i \in TxnClients
  BY IdsClients
<1>3. Orderly(recs) /\ Marked(p, recs, decided)
  BY <1>1 DEF RecordsInv
<1>4. PICK n \in DOMAIN recs : recs[n].txn = i /\ ~recs[n].mark /\ recs[n].epoch = e /\ recs[n].seq = m[2]
  BY <1>2, <1>3, HasRecord DEF RecordIn
<1>5. PICK k \in DOMAIN recs : recs[k].txn = i /\ recs[k].mark /\ recs[k].epoch = e
  BY <1>2, <1>3, HasRecord DEF MarkerIn
<1>6. i # Plain
  BY <1>2, TxnConstants DEF Plain
<1>7. n < k
  BY <1>3, <1>4, <1>5, <1>6 DEF Marked
<1>8. Decision[i][e] \in {None, "committed"}
  BY FinishedDecision
<1>9. n \in RecordsOf(p, i, e) /\ k \in MarkersOf(p, i, e)
  BY <1>4, <1>5 DEF RecordsOf, MarkersOf
<1>10. Visible(p, n, Decision)
  BY <1>4, <1>7, <1>8, <1>9 DEF Visible, Resolved
<1>11. <<p, n>> \in Shown(i, e)
  BY <1>1, <1>9, <1>10 DEF Shown
<1>12. QED
  BY <1>1, <1>4, <1>11

\* END_TXN's answers stand (Transactions!DecisionsHold): whatever answers are lost, journal appends
\* fail or surface after a crash, jobs are given up, retried and recovered, after "committed" every
\* message the client was acknowledged is visible to a read_committed reader for as long as the topic
\* keeps the storage it was written to, and after "aborted" no record of the transaction is in a log.
\* It is so until the coordinator deletes an epoch tombstone (pruneExpiredLocked).
THEOREM AnswersStand == Spec => [](forgot = {} => DecisionsHold)
<1>1. DecisionInv => DecisionsHold
  <2>1. SUFFICES ASSUME DecisionInv, NEW i \in Ids, NEW e \in Epochs
                 PROVE  /\ (told[i][e].what = "committed" /\ decided[i][e].gen = topic.gen) =>
                             told[i][e].msgs \subseteq {<<x[1], log[x[1]][x[2]].seq>> : x \in Shown(i, e)}
                        /\ told[i][e].what = "aborted" => \A p \in Partitions : RecordsOf(p, i, e) = {}
    BY DEF DecisionsHold, Remembered
  <2>2. CoreInv /\ RecordsInv /\ FinInv
    BY <2>1 DEF DecisionInv, OutcomeInv
  <2>3. ToldOk(told[i], decided[i], journal[i]) /\ DecidedOk(decided[i], journal[i])
    BY <2>2 DEF CoreInv, ToldInv, DecidedInv
  <2>4. ASSUME told[i][e].what = "committed", decided[i][e].gen = topic.gen, NEW m \in told[i][e].msgs
        PROVE  m \in {<<x[1], log[x[1]][x[2]].seq>> : x \in Shown(i, e)}
    <3>1. decided[i][e].gen # 0 /\ m \in decided[i][e].msgs /\ Finished(journal[i], e) /\ m \in Numbered
      BY <2>3, <2>4 DEF ToldOk, DecidedOk
    <3>2. RecordIn(log, i, e, m) /\ MarkerIn(log, i, e, m)
      BY <2>2, <2>4, <3>1 DEF FinInv, WholeIn
    <3>3. \E x \in Shown(i, e) : <<x[1], log[x[1]][x[2]].seq>> = m
      BY <2>2, <3>1, <3>2, WholeShown
    <3>4. QED
      BY <3>3
  <2>5. ASSUME told[i][e].what = "aborted", NEW p \in Partitions, NEW n \in RecordsOf(p, i, e) PROVE FALSE
    <3>1. decided[i][e].gen = 0
      BY <2>3, <2>5 DEF ToldOk
    <3>2. n \in DOMAIN log[p] /\ log[p][n].txn = i /\ log[p][n].epoch = e
      BY <2>5 DEF RecordsOf
    <3>3. i # Plain
      BY IdsClients, TxnConstants DEF Plain
    <3>4. QED
      BY <2>2, <3>1, <3>2, <3>3 DEF RecordsInv, Marked
  <2>6. QED
    BY <2>4, <2>5
<1>2. QED
  BY <1>1, DecisionInvariant, PTL

-----------------------------------------------------------------------------
(* The last stable offset.                                                 *)

\* Transactions of a partition's records, for what the coordinator says.
Concluded(recs, n, d) ==
    /\ \E j \in DOMAIN recs : recs[j].txn = recs[n].txn /\ recs[j].epoch = recs[n].epoch /\ recs[j].mark /\ j > n
    /\ d[recs[n].txn][recs[n].epoch] \in {None, "committed"}
Data(recs, n) == recs[n].txn # Plain /\ ~recs[n].mark
Peers(recs, n) == {k \in DOMAIN recs : recs[k].txn = recs[n].txn /\ recs[k].epoch = recs[n].epoch /\ ~recs[k].mark}
FirstOpen(recs, d) == {n \in DOMAIN recs : Data(recs, n) /\ n = Min(Peers(recs, n)) /\ ~Concluded(recs, n, d)}
Stable(recs, d) == IF FirstOpen(recs, d) = {} THEN Len(recs) ELSE Min(FirstOpen(recs, d)) - 1
Seen(recs, d) == {n \in 1 .. Stable(recs, d) : ~recs[n].mark /\ (recs[n].txn = Plain \/ Concluded(recs, n, d))}

\* They are what the model's operators say.
LEMMA StableIs ==
    ASSUME NEW p, NEW d
    PROVE  /\ LastStableOffset(p, d) = Stable(log[p], d) /\ ReadCommitted(p, d) = Seen(log[p], d)
           /\ (LastStableOffset(p, Decision))' = Stable(log'[p], Decision')
           /\ (ReadCommitted(p, Decision))' = Seen(log'[p], Decision')
<1>1. LastStableOffset(p, d) = Stable(log[p], d)
  BY DEF LastStableOffset, Stable, FirstOpen, Data, Peers, RecordsOf, Resolved, MarkersOf, Concluded
<1>2. (LastStableOffset(p, Decision))' = Stable(log'[p], Decision')
  BY DEF LastStableOffset, Stable, FirstOpen, Data, Peers, RecordsOf, Resolved, MarkersOf, Concluded
<1>3. \A n \in 1 .. Stable(log[p], d) : Visible(p, n, d) <=>
         ~log[p][n].mark /\ (log[p][n].txn = Plain \/ Concluded(log[p], n, d))
  BY DEF Visible, Resolved, MarkersOf, Concluded
<1>4. ReadCommitted(p, d) = Seen(log[p], d)
  BY <1>1, <1>3 DEF ReadCommitted, Seen
<1>5. QED
  <2>1. (ReadCommitted(p, Decision))' = Seen(log'[p], Decision')
    BY <1>2 DEF ReadCommitted, Seen, Visible, Resolved, MarkersOf, Concluded
  <2>2. QED
    BY <1>1, <1>2, <1>4, <2>1

\* The least element of a set of numbers.
LEMMA MinIs ==
    ASSUME NEW T \in SUBSET Nat, T # {}
    PROVE  Min(T) \in T /\ \A y \in T : Min(T) <= y
<1>1. PICK x \in T : \A y \in T : x <= y
  BY LeastNat
<1>2. QED
  BY <1>1 DEF Min

\* Up to the last stable offset every record of a transaction is settled, and it is the last such.
LEMMA StableFacts ==
    ASSUME NEW p, NEW recs, IsASeq(recs), NEW x, Marked(p, recs, x), NEW d
    PROVE  /\ Stable(recs, d) \in 0 .. Len(recs) /\ Len(recs) \in Nat
           /\ \A n \in 1 .. Stable(recs, d) : Data(recs, n) => Concluded(recs, n, d)
           /\ \A k \in 0 .. Len(recs) :
                (\A n \in 1 .. k : Data(recs, n) => Concluded(recs, n, d)) => k <= Stable(recs, d)
<1> DEFINE op == FirstOpen(recs, d)
           z == Stable(recs, d)
<1>1. Len(recs) \in Nat /\ DOMAIN recs = 1 .. Len(recs)
  BY AnySeq DEF IsASeq
<1>2. op \in SUBSET (1 .. Len(recs))
  BY <1>1 DEF FirstOpen
<1>3. op # {} => Min(op) \in op /\ Min(op) \in 1 .. Len(recs) /\ \A y \in op : y \in 1 .. Len(recs) /\ Min(op) <= y
  <2> HIDE DEF op
  <2>1. \A y \in op : y \in 1 .. Len(recs) /\ y \in Nat
    BY <1>1, <1>2
  <2>2. op \in SUBSET Nat
    BY <2>1
  <2>3. op # {} => Min(op) \in op /\ \A y \in op : Min(op) <= y
    BY <2>2, MinIs
  <2>4. QED
    BY <2>1, <2>3
<1>4. z = IF op = {} THEN Len(recs) ELSE Min(op) - 1
  BY DEF Stable
<1>5. z \in 0 .. Len(recs)
  <2> HIDE DEF op, z
  <2>1. QED
    BY <1>1, <1>2, <1>3, <1>4
<1>6. ASSUME NEW n \in DOMAIN recs, Data(recs, n), ~Concluded(recs, n, d) PROVE \E f \in op : f <= n
  <2> DEFINE f == Min(Peers(recs, n))
  <2>1. Peers(recs, n) \in SUBSET Nat /\ n \in Peers(recs, n)
    BY <1>1, <1>6 DEF Peers, Data
  <2>2. f \in Peers(recs, n) /\ f <= n
    BY <2>1, MinIs
  <2>3. /\ f \in DOMAIN recs /\ recs[f].txn = recs[n].txn /\ recs[f].epoch = recs[n].epoch /\ ~recs[f].mark
        /\ Peers(recs, f) = Peers(recs, n)
    BY <2>2 DEF Peers
  <2>4. Data(recs, f)
    BY <1>6, <2>3 DEF Data
  <2>5. ~Concluded(recs, f, d)
    <3>1. SUFFICES ASSUME Concluded(recs, f, d) PROVE FALSE
      OBVIOUS
    <3>2. PICK j \in DOMAIN recs : recs[j].txn = recs[n].txn /\ recs[j].epoch = recs[n].epoch /\ recs[j].mark
      BY <2>3, <3>1 DEF Concluded
    <3>3. n < j
      BY <1>6, <3>2 DEF Marked, Data
    <3>4. Concluded(recs, n, d)
      BY <1>1, <2>3, <3>1, <3>2, <3>3 DEF Concluded
    <3>5. QED
      BY <1>6, <3>4
  <2>6. f \in op
    BY <2>3, <2>4, <2>5 DEF FirstOpen
  <2>7. QED
    BY <2>2, <2>6
<1> HIDE DEF z, op
<1>7. ASSUME NEW n \in 1 .. z, Data(recs, n) PROVE Concluded(recs, n, d)
  <2>1. SUFFICES ASSUME ~Concluded(recs, n, d) PROVE FALSE
    OBVIOUS
  <2>2. n \in DOMAIN recs
    BY <1>1, <1>5
  <2>3. PICK f \in op : f <= n
    BY <1>6, <1>7, <2>1, <2>2
  <2>4. Min(op) <= f /\ Min(op) \in Nat /\ f \in Nat /\ z = Min(op) - 1
    BY <1>1, <1>2, <1>3, <1>4, <2>3
  <2>5. QED
    BY <2>3, <2>4, <1>5
<1>8. ASSUME NEW k \in 0 .. Len(recs), \A n \in 1 .. k : Data(recs, n) => Concluded(recs, n, d) PROVE k <= z
  <2>1. CASE op = {}
    BY <1>1, <1>4, <2>1
  <2>2. CASE op # {}
    <3>1. Min(op) \in op /\ Min(op) \in Nat \ {0} /\ z = Min(op) - 1
      BY <1>1, <1>2, <1>3, <1>4, <2>2
    <3>2. Data(recs, Min(op)) /\ ~Concluded(recs, Min(op), d)
      BY <3>1 DEF op, FirstOpen
    <3>3. ~(Min(op) \in 1 .. k)
      BY <1>8, <3>2
    <3>4. QED
      BY <1>1, <3>1, <3>3
  <2>3. QED
    BY <2>1, <2>2
<1>9. QED
  BY <1>1, <1>5, <1>7, <1>8 DEF z

\* Readers below the offset see every record there that is not a marker.
LEMMA SeenAll ==
    ASSUME NEW p, NEW recs, IsASeq(recs), NEW x, Marked(p, recs, x), NEW d
    PROVE  Seen(recs, d) = {n \in 1 .. Stable(recs, d) : ~recs[n].mark}
<1>1. \A n \in 1 .. Stable(recs, d) : Data(recs, n) => Concluded(recs, n, d)
  BY StableFacts
<1>2. QED
  BY <1>1 DEF Seen, Data

\* Records appended: those that are settled stay so when the coordinator's answers do.
SaysStill(recs, d, d2) ==
    \A n \in 1 .. Len(recs) : Data(recs, n) /\ d[recs[n].txn][recs[n].epoch] \in {None, "committed"} =>
        d2[recs[n].txn][recs[n].epoch] \in {None, "committed"}
Extended(recs, new) == Len(recs) <= Len(new) /\ \A n \in 1 .. Len(recs) : new[n] = recs[n]
StillSeen(recs, d, new, d2) ==
    /\ Stable(new, d2) >= Stable(recs, d)
    /\ Seen(recs, d) = {n \in Seen(new, d2) : n <= Stable(recs, d)}
LEMMA StableGrows ==
    ASSUME NEW p, NEW recs, IsASeq(recs), NEW x, Marked(p, recs, x), NEW d,
           NEW new, IsASeq(new), NEW y, Marked(p, new, y), NEW d2,
           Extended(recs, new), SaysStill(recs, d, d2)
    PROVE  StillSeen(recs, d, new, d2)
<1> DEFINE a == Stable(recs, d)
           b == Stable(new, d2)
<1>0. Len(recs) <= Len(new) /\ \A n \in 1 .. Len(recs) : new[n] = recs[n]
  BY DEF Extended
<1>1. /\ a \in 0 .. Len(recs) /\ Len(recs) \in Nat
      /\ \A n \in 1 .. a : Data(recs, n) => Concluded(recs, n, d)
  BY StableFacts
<1>2. /\ b \in 0 .. Len(new) /\ Len(new) \in Nat
      /\ \A k \in 0 .. Len(new) : (\A n \in 1 .. k : Data(new, n) => Concluded(new, n, d2)) => k <= b
  BY StableFacts
<1>3. DOMAIN recs = 1 .. Len(recs) /\ DOMAIN new = 1 .. Len(new)
  BY AnySeq DEF IsASeq
<1>4. Seen(recs, d) = {n \in 1 .. a : ~recs[n].mark} /\ Seen(new, d2) = {n \in 1 .. b : ~new[n].mark}
  BY SeenAll
<1> HIDE DEF a, b
<1>5. ASSUME NEW n \in 1 .. a, Data(new, n) PROVE Concluded(new, n, d2)
  <2>1. n \in 1 .. Len(recs) /\ new[n] = recs[n]
    BY <1>0, <1>1
  <2>2. Data(recs, n) /\ Concluded(recs, n, d)
    BY <1>1, <1>5, <2>1 DEF Data
  <2>3. PICK j \in DOMAIN recs : recs[j].txn = recs[n].txn /\ recs[j].epoch = recs[n].epoch /\ recs[j].mark /\ j > n
    BY <2>2 DEF Concluded
  <2>4. j \in DOMAIN new /\ new[j] = recs[j]
    BY <1>0, <1>1, <1>2, <1>3
  <2>5. d2[recs[n].txn][recs[n].epoch] \in {None, "committed"}
    BY <2>1, <2>2 DEF Concluded, SaysStill
  <2>6. QED
    BY <2>1, <2>3, <2>4, <2>5 DEF Concluded
<1>6. a \in 0 .. Len(new)
  BY <1>0, <1>1, <1>2
<1>7. a <= b
  BY <1>2, <1>5, <1>6
<1>8. {n \in 1 .. a : ~recs[n].mark} = {n \in {k \in 1 .. b : ~new[k].mark} : n <= a}
  BY <1>0, <1>1, <1>2, <1>7
<1>9. QED
  BY <1>1, <1>2, <1>4, <1>7, <1>8 DEF a, b, StillSeen

\* What the coordinator says of an epoch that was prepared, from the journal record x and its memory t.
LEMMA SaysFinished ==
    ASSUME NEW x, NEW t, StateOk(x, t), NEW e \in Epochs, Past(x, e)
    PROVE  (IF t.expired \/ t.epoch # e THEN None ELSE t.state) \in {None, "committed"} <=> Finished(x, e)
<1>1. TxOk(x) /\ TxOk(t) /\ Follows(x, t)
  BY DEF StateOk
<1>2. e \in Int /\ x.epoch \in Int
  BY <1>1, TxnConstants DEF Epochs, TxOk
<1>3. t.epoch = x.epoch /\ (x.state # "open" => t = x)
  BY <1>1, IsTxFacts DEF Follows, PrepareCommit, TxOk
<1>4. x.expired => x.state \in {"committed", "aborted"}
  BY <1>1 DEF TxOk, Terminal
<1>5. QED
  BY <1>2, <1>3, <1>4 DEF Past, Finished, None

\* The logs are only appended to while the topic keeps its storage.
Appended(p) == Extended(log[p], log'[p])
LEMMA LogsAppend ==
    ASSUME DecisionInv, [Next]_vars, topic'.gen = topic.gen, NEW p \in Partitions
    PROVE  Appended(p)
<1>1. ProducerInv /\ TxnInv /\ TopicOk /\ LogsOk /\ ShapeInv /\ CoreInv /\ OutcomeInv
  BY DEF DecisionInv, BrokerInv
<1>2. IsASeq(log[p]) /\ Len(log[p]) \in Nat
  BY <1>1, AnySeq DEF LogsOk, IsASeq
<1>3. log' = log => Appended(p)
  BY <1>2 DEF Appended, Extended
<1>4. PlainTo(log[p], producers[p], log'[p], producers'[p]) => Appended(p)
  BY DEF PlainTo, Appended, Extended
<1>5. CASE ProducerStep \/ ProducerFault
  BY <1>1, <1>4, <1>5, ProducerPlain
<1>6. CASE StreamStep
  BY <1>1, <1>4, <1>6, StreamPlain
<1>7. CASE LifecycleStep
  <2>1. PICK op, s : LifeRun(op, s) /\ Become(s)
    BY <1>1, <1>7, LifecycleCore
  <2>2. log' = log
    BY <2>1 DEF LifeRun, LifeInv, Become
  <2>3. QED
    BY <1>3, <2>2
<1>8. CASE BrokerCrash \/ Serve \/ UNCHANGED vars
  BY <1>3, <1>8 DEF BrokerCrash, Crash, Serve, Ready, vars, logVars
<1>9. CASE TxnStep
  <2>1. UNCHANGED logVars \/ \E q, m : m.pid # Pid /\ Store(q, EnqueueAll(q, <<m>>))
    BY <1>1, <1>9, TxnCommandOk, TxnWorkOk DEF TxnStep
  <2>2. CASE UNCHANGED logVars
    BY <1>3, <2>2 DEF logVars
  <2>3. CASE \E q, m : m.pid # Pid /\ Store(q, EnqueueAll(q, <<m>>))
    <3>1. PICK q, m : Store(q, EnqueueAll(q, <<m>>))
      BY <2>3
    <3>2. PICK old : /\ Staged(old) /\ old.recs = log[q] /\ old.known = producers[q]
                     /\ EnqueueAll(q, <<m>>) = Enqueue(old, m)
      BY EnqueueOne
    <3>3. Enqueue(old, m).recs = log[q] \/ Enqueue(old, m).recs = Append(log[q], m)
      BY <3>2, EnqueueCases
    <3>4. log'[p] = log[p] \/ log'[p] = Append(log[p], m)
      BY <1>1, <3>1, <3>2, <3>3 DEF Store, LogsOk
    <3>5. QED
      BY <1>2, <3>4 DEF Appended, Extended, IsASeq
  <2>4. QED
    BY <2>1, <2>2, <2>3
<1>10. QED
  BY <1>5, <1>6, <1>7, <1>8, <1>9 DEF Next

\* A prepared transaction that the coordinator does not deny is not denied later.
LEMMA SaysStays ==
    ASSUME CoreInv, CoreInv', CoreMoves, NEW i \in Ids, NEW e \in Epochs, decided[i][e].gen # 0,
           Decision[i][e] \in {None, "committed"}
    PROVE  Decision'[i][e] \in {None, "committed"}
<1>1. StateOk(journal[i], txns[i]) /\ DecidedOk(decided[i], journal[i]) /\ Ids' = Ids
  BY DEF CoreInv, StateInv, DecidedInv, CoreMoves
<1>2. StateOk(journal'[i], txns'[i])
  BY <1>1 DEF CoreInv, StateInv
<1>3. Past(journal[i], e)
  BY <1>1 DEF DecidedOk
<1>4. Decision[i][e] = IF txns[i].expired \/ txns[i].epoch # e THEN None ELSE txns[i].state
  BY DEF Decision
<1>5. Finished(journal[i], e)
  BY <1>1, <1>3, <1>4, SaysFinished
<1>6. Moves(journal[i], journal'[i])
  BY DEF CoreMoves, Concludes, Moves
<1>7. Finished(journal'[i], e) /\ Past(journal'[i], e)
  <2>1. e \in Int /\ TxOk(journal[i]) /\ TxOk(journal'[i])
    BY <1>1, <1>2, TxnConstants DEF Epochs, StateOk
  <2>2. QED
    BY <1>3, <1>5, <1>6, <2>1, MovesOn
<1>8. Decision'[i][e] = IF txns'[i].expired \/ txns'[i].epoch # e THEN None ELSE txns'[i].state
  BY <1>1 DEF Decision
<1>9. QED
  BY <1>2, <1>7, <1>8, SaysFinished

\* What a read_committed reader has passed stays (Transactions!LSOStable): while the topic keeps its
\* storage the last stable offset of a partition never moves back, and below it nothing appears or
\* disappears, whatever is committed, aborted, expired, recovered or reopened by a new epoch, in every
\* run of the broker in which no epoch tombstone is deleted (pruneExpiredLocked).
THEOREM StableReads == Spec => ([](forgot = {}) => LSOStable)
<1>1. ASSUME DecisionInv, [Next]_vars, forgot' = {}, topic'.gen = topic.gen, NEW p \in Partitions
      PROVE  /\ LastStableOffset(p, Decision)' >= LastStableOffset(p, Decision)
             /\ ReadCommitted(p, Decision) =
                  {i \in ReadCommitted(p, Decision)' : i <= LastStableOffset(p, Decision)}
  <2>1. DecisionInv' /\ CoreMoves /\ Appended(p)
    BY <1>1, DecisionStep, LogsAppend
  <2>2. /\ IsASeq(log[p]) /\ Marked(p, log[p], decided) /\ Orderly(log[p]) /\ CoreInv
        /\ IsASeq(log'[p]) /\ Marked(p, log'[p], decided') /\ CoreInv'
    BY <1>1, <2>1 DEF DecisionInv, BrokerInv, LogsOk, OutcomeInv, RecordsInv
  <2>3. DOMAIN log[p] = 1 .. Len(log[p])
    BY <2>2, AnySeq DEF IsASeq
  <2>4. ASSUME NEW n \in 1 .. Len(log[p]), Data(log[p], n),
               Decision[log[p][n].txn][log[p][n].epoch] \in {None, "committed"}
        PROVE  Decision'[log[p][n].txn][log[p][n].epoch] \in {None, "committed"}
    <3> DEFINE i == log[p][n].txn
               e == log[p][n].epoch
    <3>1. i \in DOMAIN decided /\ decided[i][e].gen # 0
      BY <2>2, <2>3, <2>4 DEF Marked, Data
    <3>2. i \in Ids
      BY <2>2, <3>1 DEF CoreInv, DecidedInv
    <3>3. e \in Epochs
      BY <2>2, <2>3, <2>4 DEF Orderly, Data, IsTxnRec, IsPlainRec
    <3> HIDE DEF i, e
    <3>4. QED
      BY <2>1, <2>2, <2>4, <3>1, <3>2, <3>3, SaysStays DEF i, e
  <2>5. StillSeen(log[p], Decision, log'[p], Decision')
    <3>1. SaysStill(log[p], Decision, Decision')
      BY <2>4 DEF SaysStill
    <3>2. Extended(log[p], log'[p])
      BY <2>1 DEF Appended
    <3>3. QED
      BY <2>2, <3>1, <3>2, StableGrows
  <2>6. /\ LastStableOffset(p, Decision) = Stable(log[p], Decision)
        /\ ReadCommitted(p, Decision) = Seen(log[p], Decision)
        /\ LastStableOffset(p, Decision)' = Stable(log'[p], Decision')
        /\ ReadCommitted(p, Decision)' = Seen(log'[p], Decision')
    BY StableIs
  <2>7. QED
    BY <2>5, <2>6 DEF StillSeen
<1>2. DecisionInv /\ [Next]_vars /\ (forgot = {})' =>
        [topic'.gen = topic.gen =>
         \A p \in {q \in Partitions : Tracked(q)'} :
            /\ LastStableOffset(p, Decision)' >= LastStableOffset(p, Decision)
            /\ ReadCommitted(p, Decision) =
                 {i \in ReadCommitted(p, Decision)' : i <= LastStableOffset(p, Decision)}]_<<log, txns>>
  BY <1>1
<1>3. QED
  BY <1>2, DecisionInvariant, PTL DEF Spec, LSOStable

-----------------------------------------------------------------------------
(* The topic's storage behind a lifecycle command.                         *)

\* Records of transactions in a log, and of one of them in the logs.
Recorded(recs) == \E n \in DOMAIN recs : recs[n].txn # Plain
Traced(l, i, e) == \E p \in Partitions : \E n \in DOMAIN l[p] : l[p][n].txn = i /\ l[p][n].epoch = e
Empty(s) == \A p \in Partitions : ~Recorded(s.log[p])

\* ResetPending, and storage that does not hold what the manifest declares.
Pending(s) == s.manifest.epoch > 1 /\ s.files.marker # s.manifest.epoch
Unfit(s) == s.manifest.parts = 0 \/ Pending(s) \/ ~(1 .. s.manifest.parts \subseteq s.files.logs)

\* A topic that is registered has its storage, and without a fence of the manifest's epoch.
RegistryOk(s) ==
    /\ s.manifest.parts \in 0 .. NumPartitions /\ s.manifest.epoch \in Nat /\ s.topic.parts \in 0 .. NumPartitions
    /\ s.manifest = NoTopic \/ (s.manifest.parts # 0 /\ s.manifest.epoch # 0)
    /\ s.topic.reg => /\ s.manifest.parts # 0 /\ s.topic.parts <= s.manifest.parts
                      /\ 1 .. s.manifest.parts \subseteq s.files.logs
    /\ s.topic.fenced => s.manifest.epoch > 1
    /\ s.topic.reg /\ ~s.topic.fenced => ~Pending(s)

\* Transactions are only in the logs that are there and declared.
PlacedOk(s) ==
    \A p \in Partitions :
        Recorded(s.log[p]) => p \in s.files.logs /\ (s.manifest.parts # 0 => p <= s.manifest.parts)

\* Of the finished transactions D, triples of id, epoch and messages: none has lost some of its
\* records and kept others while every directory it wrote to is there.
DoneShape(D) == \A x \in D : x[1] # Plain /\ x[3] \subseteq Numbered
KeptIn(s, x) ==
    \/ ~Traced(s.log, x[1], x[2])
    \/ WholeIn(s.log, x[1], x[2], x[3])
    \/ \E m \in x[3] : m[1] \notin s.files.logs
DoneOk(s, D) ==
    \A x \in D : KeptIn(s, x) /\ (s.manifest.parts # 0 => \A m \in x[3] : m[1] <= s.manifest.parts)

\* The group's offsets go with the storage, unless a truncation completes without its cleanup.
CleansUp == ~(Does("truncate") /\ Does("tombstone"))
GoffOk(g, d) == g \in (DOMAIN d) \X Epochs /\ d[g[1]][g[2]].gen # 0 /\ d[g[1]][g[2]].msgs \subseteq Numbered
OffsOk(s, d) ==
    /\ \A g \in s.goff : GoffOk(g, d)
    /\ CleansUp => \A g \in s.goff : Unfit(s) \/ WholeIn(s.log, g[1], g[2], d[g[1]][g[2]].msgs)

StoreOk(s, D, d) == Shaped(s) /\ RegistryOk(s) /\ PlacedOk(s) /\ DoneOk(s, D) /\ OffsOk(s, d)

\* What is known besides behind the steps did of a command; some words say how it began.
Flags(did, s) ==
    /\ "remove" \in did => Empty(s)
    /\ "remove" \in did /\ "complete" \notin did => s.files.marker = 0
    /\ "logs" \in did => Partitions \subseteq s.files.logs
    /\ "groups" \in did => s.goff = {}
    /\ "new" \in did => Empty(s) /\ ~s.topic.fenced /\ s.goff = {}
    /\ "fit" \in did /\ "commit" \notin did /\ "remove" \notin did => ~Unfit(s)
    /\ did \cap {"commit", "fence", "fenced"} # {} /\ "complete" \notin did => s.topic.fenced
    /\ "late" \in did => s.manifest.epoch > 1
    /\ "calm" \in did => ~s.topic.fenced
    /\ "define" \in did => s.manifest.epoch = 1 /\ s.manifest.parts # 0
    /\ "beside" \in did /\ topic.reg /\ ~topic.fenced =>
         s.topic.reg /\ ~s.topic.fenced /\ 1 .. topic.parts \subseteq 1 .. s.topic.parts
Track(did, s, D, d) == StoreOk(s, D, d) /\ Flags(did, s)

\* When a step may come.
Fit(did) == "fit" \in did /\ "commit" \notin did /\ "remove" \notin did
Allowed(did, what) ==
    /\ what \in StepNames
    /\ did \cap {"new", "beside"} # {} => what \in CreateNames
    /\ "calm" \in did => what \notin {"commit", "fence"}
    /\ "late" \in did => what \notin {"unregister", "define"}
    /\ "define" \in did => "new" \in did
    /\ what = "open" =>
         \/ "remove" \in did /\ "complete" \notin did /\ did \cap {"commit", "fence", "fenced"} # {}
         \/ Fit(did)
         \/ "define" \in did /\ "new" \in did
    /\ what = "logs" => Fit(did) \/ "new" \in did
    /\ what = "define" => "logs" \in did /\ "new" \in did /\ "fit" \notin did
    /\ what = "alter" => "logs" \in did /\ Fit(did)
    /\ what = "commit" => Fit(did)
    /\ what = "fence" => "late" \in did
    /\ what = "unregister" => "calm" \in did /\ "fit" \notin did
    /\ what = "remove" => "logs" \notin did
    /\ what = "complete" => "groups" \in did \/ ~CleansUp

\* The manifest, the directories, the registry and the committed offsets behind a step.
StoreFields(s, what, x) ==
    /\ Shaped(x)
    /\ what # "remove" => x.log = s.log
    /\ what = "remove" => x.log = [p \in Partitions |-> << >>] /\ x.files.logs = {} /\ x.files.marker = 0
    /\ what = "open" => x.files.logs = s.files.logs \cup (1 .. s.manifest.parts)
    /\ what = "logs" => x.files.logs = Partitions
    /\ what \notin {"remove", "open", "logs"} => x.files.logs = s.files.logs
    /\ what \notin {"remove", "complete"} => x.files.marker = s.files.marker
    /\ what = "complete" => x.files.marker = (IF s.topic.reg THEN s.manifest.epoch ELSE s.files.marker)
    /\ what \notin {"commit", "unregister", "define", "alter"} => x.manifest = s.manifest
    /\ what = "commit" => x.manifest.parts = s.manifest.parts /\ x.manifest.epoch = s.manifest.epoch + 1
    /\ what = "unregister" => x.manifest = NoTopic
    /\ what = "define" => x.manifest.parts = NumPartitions /\ x.manifest.epoch = 1
    /\ what = "alter" => x.manifest.parts = NumPartitions /\ x.manifest.epoch = s.manifest.epoch
    /\ what \in {"remove", "unregister"} => x.topic.reg = FALSE
    /\ what = "open" => x.topic.reg = TRUE /\ x.topic.parts = s.manifest.parts
    /\ what \notin {"remove", "unregister", "open"} => x.topic.reg = s.topic.reg
    /\ what # "open" => x.topic.parts = s.topic.parts
    /\ what \in {"commit", "fence"} => x.topic.fenced = TRUE
    /\ what = "complete" => x.topic.fenced = (IF s.topic.reg THEN FALSE ELSE s.topic.fenced)
    /\ what \notin {"commit", "fence", "complete"} => x.topic.fenced = s.topic.fenced
    /\ what = "groups" => x.goff = {}
    /\ what # "groups" => x.goff = s.goff

\* By the step's name.
LEMMA StoreEffect ==
    ASSUME NEW s, Shaped(s), NEW what \in StepNames
    PROVE  StoreFields(s, what, Step(s, what))
<1>1. CASE what = "close"
  BY <1>1, StepFields DEF Step, StoreFields, TopicSame, StoreSame, LogSame, GoffSame
<1>2. CASE what = "commit"
  BY <1>2, StepFields DEF Step, StoreFields, LogSame, GoffSame
<1>3. CASE what = "fence"
  BY <1>3, StepFields DEF Step, StoreFields, StoreSame, LogSame, GoffSame
<1>4. CASE what = "unregister"
  BY <1>4, StepFields DEF Step, StoreFields, LogSame, GoffSame
<1>5. CASE what = "remove"
  <2>k. PICK k : k = FALSE
    OBVIOUS
  <2> DEFINE x == RemoveStorage(s, Emptied, k)
  <2>1. IsFiles(Emptied) /\ Emptied.logs = {} /\ Emptied.marker = 0
    BY DEF Emptied, IsFiles
  <2>2. Step(s, what) = x
    BY <1>5, <2>k DEF Step
  <2>3. RemovedFrom(s, Emptied, x)
    BY <2>1, RemoveFields
  <2> HIDE DEF x
  <2>4. x.log = [p \in Partitions |-> << >>]
    BY <2>1, <2>3 DEF RemovedFrom, Cut
  <2>5. QED
    BY <1>5, <2>1, <2>2, <2>3, <2>4 DEF RemovedFrom, StoreFields, GoffSame
<1>6. CASE what = "open"
  BY <1>6, OpenFields DEF Step, StoreFields, GoffSame
<1>7. CASE what = "groups"
  BY <1>7, MoreFields DEF Step, StoreFields, TopicSame, StoreSame, LogSame
<1>8. CASE what = "journal"
  BY <1>8, MoreFields DEF Step, StoreFields, TopicSame, StoreSame, LogSame, GoffSame
<1>9. CASE what = "complete"
  BY <1>9, MoreFields DEF Step, StoreFields, LogSame, GoffSame
<1>10. CASE what = "logs"
  BY <1>10, MoreFields DEF Step, StoreFields, TopicSame, LogSame, GoffSame
<1>11. CASE what = "define"
  BY <1>11, MoreFields DEF Step, StoreFields, LogSame, GoffSame
<1>12. CASE what = "alter"
  BY <1>12, MoreFields DEF Step, StoreFields, TopicSame, LogSame, GoffSame
<1>13. CASE what = "default"
  BY <1>13, MoreFields DEF Step, StoreFields, TopicSame, StoreSame, LogSame, GoffSame
<1>14. QED
  BY <1>1, <1>2, <1>3, <1>4, <1>5, <1>6, <1>7, <1>8, <1>9, <1>10, <1>11, <1>12, <1>13 DEF StepNames

\* An empty log has no transaction.
LEMMA EmptyStore ==
    /\ \A s : Empty(s) => \A i, e : i # Plain => ~Traced(s.log, i, e)
    /\ \A s : s.log = [p \in Partitions |-> << >>] => Empty(s)
<1>1. DOMAIN << >> = {}
  OBVIOUS
<1>2. QED
  BY <1>1 DEF Empty, Traced, Recorded

\* The declared partitions.
LEMMA DeclaredParts ==
    ASSUME NEW n \in 0 .. NumPartitions
    PROVE  1 .. n \subseteq Partitions /\ (n # 0 => 1 .. n # {}) /\ Partitions = 1 .. NumPartitions
<1>1. n # 0 => 1 \in 1 .. n
  OBVIOUS
<1>2. QED
  BY <1>1, LogConstants DEF Partitions

\* The registry.
LEMMA TrackRegistry ==
    ASSUME NEW s, Shaped(s), RegistryOk(s), NEW did, Flags(did, s), NEW what, Allowed(did, what), NEW x, StoreFields(s, what, x)
    PROVE  RegistryOk(x)
<1>0. NoTopic.parts = 0 /\ NoTopic.epoch = 0 /\ NumPartitions \in Nat \ {0}
  BY LogConstants DEF NoTopic
<1>1. CASE what \in {"close", "groups", "journal", "default"}
  BY <1>1 DEF StoreFields, RegistryOk, Pending
<1>2. CASE what = "commit"
  <2>1. s.manifest.parts # 0
    BY <1>2 DEF Allowed, Fit, Flags, Unfit
  <2>2. s.manifest.epoch # 0
    BY <1>0, <2>1 DEF RegistryOk
  <2>3. QED
    BY <1>2, <2>1, <2>2 DEF StoreFields, RegistryOk
<1>3. CASE what = "fence"
  BY <1>3 DEF StoreFields, RegistryOk, Allowed, Flags
<1>4. CASE what = "unregister"
  BY <1>0, <1>4 DEF StoreFields, RegistryOk, Allowed, Flags
<1>5. CASE what = "remove"
  BY <1>5 DEF StoreFields, RegistryOk
<1>6. CASE what = "open"
  <2>1. s.manifest.parts # 0 /\ (~s.topic.fenced => ~Pending(s))
    <3>1. CASE "remove" \in did /\ "complete" \notin did /\ did \cap {"commit", "fence", "fenced"} # {}
      <4>1. s.topic.fenced
        BY <3>1 DEF Flags
      <4>2. QED
        BY <1>0, <4>1 DEF RegistryOk
    <3>2. CASE Fit(did)
      BY <3>2 DEF Fit, Flags, Unfit
    <3>3. CASE "define" \in did /\ "new" \in did
      BY <3>3 DEF Flags, Pending
    <3>4. QED
      BY <1>6, <3>1, <3>2, <3>3 DEF Allowed
  <2>2. Pending(x) <=> Pending(s)
    BY <1>6 DEF StoreFields, Pending
  <2>3. QED
    BY <1>6, <2>1, <2>2 DEF StoreFields, RegistryOk
<1>7. CASE what = "logs"
  <2>1. 1 .. s.manifest.parts \subseteq Partitions
    BY DeclaredParts DEF RegistryOk
  <2>2. QED
    BY <1>7, <2>1 DEF StoreFields, RegistryOk, Pending
<1>8. CASE what = "define"
  <2>1. Partitions \subseteq s.files.logs /\ ~s.topic.fenced
    BY <1>8 DEF Allowed, Flags
  <2>2. Partitions = 1 .. NumPartitions
    BY DEF Partitions
  <2>3. ~Pending(x)
    BY <1>8 DEF StoreFields, Pending
  <2>4. QED
    BY <1>0, <1>8, <2>1, <2>2, <2>3 DEF StoreFields, RegistryOk
<1>9. CASE what = "alter"
  <2>1. Partitions \subseteq s.files.logs /\ s.manifest.parts # 0
    BY <1>9 DEF Allowed, Fit, Flags, Unfit
  <2>2. Partitions = 1 .. NumPartitions
    BY DEF Partitions
  <2>3. Pending(x) <=> Pending(s)
    BY <1>9 DEF StoreFields, Pending
  <2>4. s.manifest.epoch # 0
    BY <1>0, <2>1 DEF RegistryOk
  <2>5. QED
    BY <1>0, <1>9, <2>1, <2>2, <2>3, <2>4 DEF StoreFields, RegistryOk
<1>10. CASE what = "complete"
  BY <1>10 DEF StoreFields, RegistryOk, Pending
<1>11. QED
  BY <1>1, <1>2, <1>3, <1>4, <1>5, <1>6, <1>7, <1>8, <1>9, <1>10 DEF Allowed, StepNames

\* Where transactions are.
LEMMA TrackPlaced ==
    ASSUME NEW s, Shaped(s), RegistryOk(s), PlacedOk(s), NEW what \in StepNames, NEW x, StoreFields(s, what, x)
    PROVE  PlacedOk(x)
<1>1. CASE what = "remove"
  BY <1>1, EmptyStore DEF StoreFields, Empty, PlacedOk
<1>2. CASE what # "remove"
  <2>1. x.log = s.log
    BY <1>2 DEF StoreFields
  <2>2. \A p \in Partitions : p \in s.files.logs => p \in x.files.logs
    BY <1>2 DEF StoreFields
  <2>3. \A p \in Partitions : p <= NumPartitions
    BY LogConstants DEF Partitions
  <2>4. x.manifest.parts = 0 \/ x.manifest.parts = NumPartitions \/ x.manifest.parts = s.manifest.parts
    BY DEF StoreFields, NoTopic
  <2>5. QED
    BY <2>1, <2>2, <2>3, <2>4 DEF PlacedOk
<1>3. QED
  BY <1>1, <1>2

\* The finished transactions.
LEMMA TrackDone ==
    ASSUME NEW s, Shaped(s), RegistryOk(s), NEW D, DoneShape(D), DoneOk(s, D), NEW did, Flags(did, s),
           NEW what, Allowed(did, what), NEW x, StoreFields(s, what, x)
    PROVE  DoneOk(x, D)
<1>1. ASSUME NEW y \in D, x.manifest.parts # 0, NEW m \in y[3] PROVE m[1] <= x.manifest.parts
  <2>1. m[1] <= NumPartitions /\ m[1] \in Partitions
    BY LogConstants DEF DoneShape, Numbered, Partitions
  <2>2. s.manifest.parts # 0 => m[1] <= s.manifest.parts
    BY DEF DoneOk
  <2>3. x.manifest.parts = 0 \/ x.manifest.parts = NumPartitions \/ x.manifest.parts = s.manifest.parts
    BY DEF StoreFields, NoTopic
  <2>4. QED
    BY <1>1, <2>1, <2>2, <2>3
<1>2. ASSUME NEW y \in D PROVE KeptIn(x, y)
  <2>0. KeptIn(s, y) /\ y[1] # Plain /\ y[3] \subseteq Numbered
    BY DEF DoneOk, DoneShape
  <2>1. CASE Empty(x)
    BY <2>0, <2>1, EmptyStore DEF KeptIn
  <2>2. CASE what \notin {"remove", "open", "logs"}
    BY <2>0, <2>2 DEF StoreFields, KeptIn
  <2>3. what = "remove" => Empty(x)
    BY EmptyStore DEF StoreFields
  <2>4. CASE what \in {"open", "logs"}
    <3>0. x.log = s.log /\ (Empty(s) => Empty(x))
      BY <2>4 DEF StoreFields, Empty
    <3>1. Fit(did) \/ Empty(s)
      BY <2>4 DEF Allowed, Flags
    <3>2. CASE Fit(did)
      <4>1. s.manifest.parts # 0 /\ 1 .. s.manifest.parts \subseteq s.files.logs
        BY <3>2 DEF Fit, Flags, Unfit
      <4>2. \A m \in y[3] : m[1] \in Partitions /\ m[1] <= s.manifest.parts
        BY <2>0, <4>1 DEF DoneOk, Numbered
      <4>3. \A m \in y[3] : m[1] \in s.files.logs
        BY <4>1, <4>2 DEF Partitions, RegistryOk
      <4>4. QED
        BY <2>0, <3>0, <4>3 DEF KeptIn
    <3>3. QED
      BY <2>1, <3>0, <3>1, <3>2
  <2>5. QED
    BY <2>1, <2>2, <2>3, <2>4
<1>3. QED
  BY <1>1, <1>2 DEF DoneOk

\* The group's offsets.
LEMMA TrackOffs ==
    ASSUME NEW s, Shaped(s), RegistryOk(s), NEW d, OffsOk(s, d), NEW did, Flags(did, s),
           NEW what, Allowed(did, what), NEW x, StoreFields(s, what, x)
    PROVE  OffsOk(x, d)
<1>0. NoTopic.parts = 0 /\ NoTopic.epoch = 0 /\ NumPartitions \in Nat \ {0}
  BY LogConstants DEF NoTopic
<1>1. SUFFICES ASSUME CleansUp, NEW g \in x.goff
               PROVE  Unfit(x) \/ WholeIn(x.log, g[1], g[2], d[g[1]][g[2]].msgs)
  <2>1. \A g \in x.goff : g \in s.goff
    BY DEF StoreFields
  <2>2. QED
    BY <2>1 DEF OffsOk
<1>2. g \in s.goff /\ what # "groups" /\ "groups" \notin did
  BY DEF StoreFields, Flags
<1>3. Unfit(s) \/ WholeIn(s.log, g[1], g[2], d[g[1]][g[2]].msgs)
  BY <1>1, <1>2 DEF OffsOk
<1>4. CASE what \in {"close", "journal", "default", "fence"}
  BY <1>3, <1>4 DEF StoreFields, Unfit, Pending
<1>5. CASE what = "remove"
  <2>1. x.files.logs = {} /\ x.manifest = s.manifest
    BY <1>5 DEF StoreFields
  <2>2. s.manifest.parts # 0 => 1 .. s.manifest.parts # {}
    BY DeclaredParts DEF RegistryOk
  <2>3. QED
    BY <2>1, <2>2 DEF Unfit
<1>6. CASE what = "unregister"
  BY <1>0, <1>6 DEF StoreFields, Unfit
<1>7. ASSUME Fit(did), what \in {"open", "logs", "alter", "commit"}
      PROVE  WholeIn(x.log, g[1], g[2], d[g[1]][g[2]].msgs)
  <2>1. ~Unfit(s) /\ x.log = s.log
    BY <1>7 DEF Fit, Flags, StoreFields
  <2>2. QED
    BY <1>3, <2>1
<1>8. CASE what = "open" /\ "remove" \in did /\ "complete" \notin did /\ did \cap {"commit", "fence", "fenced"} # {}
  <2>1. s.topic.fenced /\ s.files.marker = 0
    BY <1>8 DEF Flags
  <2>2. s.manifest.epoch > 1 /\ s.manifest.epoch \in Nat
    BY <2>1 DEF RegistryOk
  <2>3. x.files.marker = 0 /\ x.manifest = s.manifest
    BY <1>8, <2>1 DEF StoreFields
  <2>4. QED
    BY <2>2, <2>3 DEF Unfit, Pending
<1>9. "new" \notin did
  BY <1>2 DEF Flags
<1>10. QED
  BY <1>1, <1>2, <1>4, <1>5, <1>6, <1>7, <1>8, <1>9 DEF Allowed, StepNames

\* What is known besides.
LEMMA TrackFlags ==
    ASSUME NEW s, Shaped(s), RegistryOk(s), NEW did, Flags(did, s), NEW what, Allowed(did, what), NEW x, StoreFields(s, what, x)
    PROVE  Flags(did \cup {what}, x)
<1> DEFINE now == did \cup {what}
<1>0. NoTopic.parts = 0 /\ NoTopic.epoch = 0 /\ NumPartitions \in Nat \ {0}
  BY LogConstants DEF NoTopic
<1>a. what \in StepNames /\ \A w : w \in now <=> w \in did \/ w = what
  BY DEF Allowed
<1>b. \A w \in {"new", "fit", "fenced", "late", "calm", "beside"} : w \in now <=> w \in did
  BY <1>a DEF StepNames
<1> HIDE DEF now
<1>1. "remove" \in now => Empty(x)
  <2>1. CASE what = "remove"
    BY <2>1, EmptyStore DEF StoreFields
  <2>2. CASE what # "remove"
    BY <1>a, <2>2 DEF StoreFields, Flags, Empty
  <2>3. QED
    BY <2>1, <2>2
<1>2. "remove" \in now /\ "complete" \notin now => x.files.marker = 0
  BY <1>a DEF StoreFields, Flags
<1>3. "logs" \in now => Partitions \subseteq x.files.logs
  BY <1>a DEF StoreFields, Flags, Allowed
<1>4. "groups" \in now => x.goff = {}
  BY <1>a DEF StoreFields, Flags
<1>5. "new" \in now => Empty(x) /\ ~x.topic.fenced /\ x.goff = {}
  <2>1. CASE "new" \in now
    <3>1. "new" \in did /\ what \in CreateNames
      BY <1>b, <2>1 DEF Allowed
    <3>2. QED
      BY <3>1 DEF CreateNames, StoreFields, Flags, Empty
  <2>2. QED
    BY <2>1
<1>6. "fit" \in now /\ "commit" \notin now /\ "remove" \notin now => ~Unfit(x)
  <2>1. SUFFICES ASSUME "fit" \in did, "commit" \notin did, "remove" \notin did, what # "commit", what # "remove"
                 PROVE  ~Unfit(x)
    BY <1>a, <1>b
  <2>2. ~Unfit(s)
    BY <2>1 DEF Flags
  <2>3. what \notin {"define", "unregister"}
    BY <2>1 DEF Allowed
  <2>4. CASE what \in {"logs", "alter"}
    <3>1. 1 .. s.manifest.parts \subseteq Partitions /\ Partitions = 1 .. NumPartitions
      BY DeclaredParts DEF RegistryOk
    <3>2. CASE what = "logs"
      BY <2>2, <3>1, <3>2 DEF StoreFields, Unfit, Pending
    <3>3. CASE what = "alter"
      <4>1. Partitions \subseteq s.files.logs
        BY <3>3 DEF Allowed, Flags
      <4>2. x.manifest.parts = NumPartitions /\ x.files.logs = s.files.logs /\ (Pending(x) <=> Pending(s))
        BY <3>3 DEF StoreFields, Pending
      <4>3. QED
        BY <1>0, <2>2, <3>1, <4>1, <4>2 DEF Unfit
    <3>4. QED
      BY <2>4, <3>2, <3>3
  <2>5. CASE what = "complete"
    BY <2>2, <2>5 DEF StoreFields, Unfit, Pending
  <2>6. CASE what \notin {"logs", "alter", "complete"}
    BY <2>1, <2>2, <2>3, <2>6 DEF StoreFields, Unfit, Pending
  <2>7. QED
    BY <2>4, <2>5, <2>6
<1>7. now \cap {"commit", "fence", "fenced"} # {} /\ "complete" \notin now => x.topic.fenced
  <2>1. SUFFICES ASSUME now \cap {"commit", "fence", "fenced"} # {}, "complete" \notin did, what # "complete"
                 PROVE  x.topic.fenced
    BY <1>a
  <2>2. CASE what \in {"commit", "fence"}
    BY <2>2 DEF StoreFields
  <2>3. CASE what \notin {"commit", "fence"}
    <3>1. did \cap {"commit", "fence", "fenced"} # {}
      BY <1>a, <1>b, <2>1, <2>3
    <3>2. s.topic.fenced
      BY <2>1, <3>1 DEF Flags
    <3>3. QED
      BY <2>1, <2>3, <3>2 DEF StoreFields
  <2>4. QED
    BY <2>2, <2>3
<1>8. "late" \in now => x.manifest.epoch > 1
  <2>1. SUFFICES ASSUME "late" \in did PROVE x.manifest.epoch > 1
    BY <1>b
  <2>2. s.manifest.epoch > 1 /\ what \notin {"unregister", "define"} /\ s.manifest.epoch \in Nat
    BY <2>1 DEF Flags, Allowed, RegistryOk
  <2>3. QED
    BY <2>2 DEF StoreFields
<1>9. "calm" \in now => ~x.topic.fenced
  BY <1>b DEF StoreFields, Flags, Allowed
<1>10. "define" \in now => x.manifest.epoch = 1 /\ x.manifest.parts # 0
  <2>1. CASE what = "define"
    BY <1>0, <2>1 DEF StoreFields
  <2>2. CASE what # "define" /\ "define" \in did
    <3>1. what \in CreateNames /\ s.manifest.epoch = 1 /\ s.manifest.parts # 0
      BY <2>2 DEF Allowed, Flags
    <3>2. QED
      BY <1>0, <2>2, <3>1 DEF CreateNames, StoreFields
  <2>3. QED
    BY <1>a, <2>1, <2>2
<1>11. "beside" \in now /\ topic.reg /\ ~topic.fenced =>
         x.topic.reg /\ ~x.topic.fenced /\ 1 .. topic.parts \subseteq 1 .. x.topic.parts
  <2>1. SUFFICES ASSUME "beside" \in did, topic.reg, ~topic.fenced
                 PROVE  x.topic.reg /\ ~x.topic.fenced /\ 1 .. topic.parts \subseteq 1 .. x.topic.parts
    BY <1>b
  <2>2. s.topic.reg /\ ~s.topic.fenced /\ 1 .. topic.parts \subseteq 1 .. s.topic.parts /\ what \in CreateNames
    BY <2>1 DEF Flags, Allowed
  <2>3. x.topic.parts = s.topic.parts \/ what = "open"
    BY DEF StoreFields
  <2>4. CASE what = "open"
    <3>1. s.topic.parts <= s.manifest.parts /\ s.topic.parts \in 0 .. NumPartitions /\ s.manifest.parts \in 0 .. NumPartitions
      BY <2>2 DEF RegistryOk
    <3>2. x.topic.parts = s.manifest.parts /\ x.topic.reg /\ x.topic.fenced = s.topic.fenced
      BY <2>4 DEF StoreFields
    <3>3. QED
      BY <2>2, <3>1, <3>2
  <2>5. CASE what # "open"
    BY <2>2, <2>3, <2>5 DEF CreateNames, StoreFields
  <2>6. QED
    BY <2>4, <2>5
<1>12. Flags(now, x)
  BY <1>1, <1>2, <1>3, <1>4, <1>5, <1>6, <1>7, <1>8, <1>9, <1>10, <1>11 DEF Flags
<1>13. QED
  BY <1>12 DEF now

\* A step.
LEMMA TrackStep ==
    ASSUME NEW D, DoneShape(D), NEW d, NEW s, NEW did, Track(did, s, D, d), NEW what, Allowed(did, what)
    PROVE  Track(did \cup {what}, Step(s, what), D, d)
<1> DEFINE x == Step(s, what)
<1>1. Shaped(s) /\ RegistryOk(s) /\ PlacedOk(s) /\ DoneOk(s, D) /\ OffsOk(s, d) /\ Flags(did, s)
  BY DEF Track, StoreOk
<1>2. what \in StepNames
  BY DEF Allowed
<1>3. StoreFields(s, what, x)
  BY <1>1, <1>2, StoreEffect
<1> HIDE DEF x
<1>4. Shaped(x)
  BY <1>3 DEF StoreFields
<1>5. RegistryOk(x) /\ PlacedOk(x) /\ DoneOk(x, D) /\ OffsOk(x, d)
  BY <1>1, <1>2, <1>3, TrackRegistry, TrackPlaced, TrackDone, TrackOffs
<1>6. Flags(did \cup {what}, x)
  BY <1>1, <1>3, TrackFlags
<1>7. QED
  BY <1>4, <1>5, <1>6 DEF Track, StoreOk, x

\* The storage behind a step that ends in the middle.
PartlyFields(s, what, x) ==
    /\ Shaped(x) /\ x.manifest = s.manifest /\ x.goff = s.goff
    /\ what # "remove" => x.log = s.log /\ x.topic = s.topic /\ x.files.marker = s.files.marker
    /\ what = "remove" => /\ x.topic.reg = FALSE /\ x.topic.fenced = s.topic.fenced /\ x.topic.parts = s.topic.parts
                          /\ x.files.logs \subseteq s.files.logs /\ x.log = Cut(s, x.files.logs)
                          /\ x.files.marker \in {0, s.files.marker}
    /\ what \notin {"remove", "open", "logs"} => x.files.logs = s.files.logs
    /\ what = "open" => /\ s.files.logs \subseteq x.files.logs
                        /\ x.files.logs \subseteq s.files.logs \cup (1 .. s.manifest.parts)
    /\ what = "logs" => /\ s.files.logs \subseteq x.files.logs
                        /\ x.files.logs \subseteq s.files.logs \cup Partitions

\* By its name.
LEMMA StorePartly ==
    ASSUME NEW s, Shaped(s), NEW what, NEW x \in Partly(s, what)
    PROVE  PartlyFields(s, what, x)
<1>1. CASE what = "remove"
  <2>1. PICK kept \in [logs : SUBSET s.files.logs, marker : {0, s.files.marker}], k \in BOOLEAN :
          x = RemoveStorage(s, kept, k)
    BY <1>1 DEF Partly
  <2>2. IsFiles(kept) /\ kept.logs \in SUBSET s.files.logs /\ kept.marker \in {0, s.files.marker}
    BY DEF IsFiles
  <2>3. RemovedFrom(s, kept, x)
    BY <2>1, <2>2, RemoveFields
  <2>4. QED
    BY <1>1, <2>2, <2>3 DEF RemovedFrom, PartlyFields, GoffSame
<1>2. CASE what \in {"logs", "open"}
  <2>1. PICK l : /\ x = WithLogs(s, s.files.logs \cup l)
                 /\ what = "logs" => l \subseteq Partitions
                 /\ what = "open" => l \subseteq 1 .. s.manifest.parts
    BY <1>2 DEF Partly, WithLogs
  <2>2. \A k : LogsAre(s, k, WithLogs(s, k))
    BY MoreFields
  <2>3. LogsAre(s, s.files.logs \cup l, x)
    BY <2>1, <2>2
  <2>4. QED
    BY <1>2, <2>1, <2>3 DEF LogsAre, PartlyFields, LogSame, TopicSame, GoffSame
<1>3. CASE what \notin {"remove", "logs", "open"}
  BY <1>3 DEF Partly, PartlyFields
<1>4. QED
  BY <1>1, <1>2, <1>3

\* A step that ends in the middle.
LEMMA TrackPartly ==
    ASSUME NEW D, DoneShape(D), NEW d, NEW s, NEW did, Track(did, s, D, d), NEW what, Allowed(did, what),
           NEW x \in Partly(s, what)
    PROVE  Track(did \cap {"beside", "groups"}, x, D, d)
<1>1. Shaped(s) /\ RegistryOk(s) /\ PlacedOk(s) /\ DoneOk(s, D) /\ OffsOk(s, d) /\ Flags(did, s) /\ what \in StepNames
  BY DEF Track, StoreOk, Allowed
<1>2. PartlyFields(s, what, x)
  BY <1>1, StorePartly
<1>3. Shaped(x) /\ x.manifest = s.manifest /\ x.goff = s.goff
  BY <1>2 DEF PartlyFields
<1>4. CASE what = "remove"
  <2>1. /\ x.topic.reg = FALSE /\ x.topic.fenced = s.topic.fenced /\ x.topic.parts = s.topic.parts
        /\ x.files.logs \subseteq s.files.logs /\ x.log = Cut(s, x.files.logs)
        /\ x.files.marker \in {0, s.files.marker}
    BY <1>2, <1>4 DEF PartlyFields
  <2>2. /\ \A p \in Partitions : p \in x.files.logs => x.log[p] = s.log[p]
        /\ \A p \in Partitions : p \notin x.files.logs => x.log[p] = << >> /\ ~Recorded(x.log[p])
    <3>1. DOMAIN << >> = {}
      OBVIOUS
    <3>2. QED
      BY <2>1, <3>1 DEF Cut, Recorded
  <2>3. RegistryOk(x)
    BY <1>1, <1>3, <2>1 DEF RegistryOk
  <2>4. PlacedOk(x)
    BY <1>1, <1>3, <2>2 DEF PlacedOk
  <2>5. \A i, e : i # Plain /\ Traced(x.log, i, e) => Traced(s.log, i, e)
    BY <2>2 DEF Traced, Recorded
  <2>6. ASSUME NEW M, M \subseteq Numbered, NEW i, NEW e, WholeIn(s.log, i, e, M), \A m \in M : m[1] \in x.files.logs
        PROVE  WholeIn(x.log, i, e, M)
    <3>1. \A m \in M : m[1] \in Partitions /\ x.log[m[1]] = s.log[m[1]]
      BY <2>2, <2>6 DEF Numbered
    <3>2. QED
      BY <2>6, <3>1 DEF WholeIn, RecordIn, MarkerIn
  <2>7. DoneOk(x, D)
    <3>1. ASSUME NEW y \in D PROVE KeptIn(x, y)
      <4>1. KeptIn(s, y) /\ y[1] # Plain /\ y[3] \subseteq Numbered
        BY <1>1 DEF DoneOk, DoneShape
      <4>2. QED
        BY <2>1, <2>5, <2>6, <4>1 DEF KeptIn
    <3>2. QED
      BY <1>1, <1>3, <3>1 DEF DoneOk
  <2>8. OffsOk(x, d)
    <3>1. ASSUME CleansUp, NEW g \in s.goff
          PROVE  Unfit(x) \/ WholeIn(x.log, g[1], g[2], d[g[1]][g[2]].msgs)
      <4> DEFINE M == d[g[1]][g[2]].msgs
      <4>1. M \subseteq Numbered /\ (Unfit(s) \/ WholeIn(s.log, g[1], g[2], M))
        BY <1>1, <3>1 DEF OffsOk, GoffOk
      <4> HIDE DEF M
      <4>2. CASE Unfit(s)
        <5>1. Pending(s) => Pending(x)
          BY <1>3, <2>1 DEF Pending
        <5>2. QED
          BY <1>3, <2>1, <4>2, <5>1 DEF Unfit
      <4>3. CASE WholeIn(s.log, g[1], g[2], M) /\ \E m \in M : m[1] \notin x.files.logs
        <5>1. PICK m \in M : m[1] \notin x.files.logs
          BY <4>3
        <5>2. m[1] \in Partitions /\ RecordIn(s.log, g[1], g[2], m)
          BY <4>1, <4>3 DEF WholeIn, Numbered
        <5>3. Recorded(s.log[m[1]])
          BY <5>2 DEF RecordIn, Has, Recorded
        <5>4. s.manifest.parts # 0 => m[1] <= s.manifest.parts
          BY <1>1, <5>2, <5>3 DEF PlacedOk
        <5>5. s.manifest.parts # 0 => m[1] \in 1 .. s.manifest.parts
          BY <1>1, <5>2, <5>4 DEF RegistryOk, Partitions
        <5>6. QED
          BY <1>3, <5>1, <5>5 DEF Unfit
      <4>4. CASE WholeIn(s.log, g[1], g[2], M) /\ \A m \in M : m[1] \in x.files.logs
        <5>1. WholeIn(x.log, g[1], g[2], M)
          BY <2>6, <4>1, <4>4
        <5>2. QED
          BY <5>1 DEF M
      <4>5. QED
        BY <4>1, <4>2, <4>3, <4>4
    <3>2. QED
      BY <1>1, <1>3, <3>1 DEF OffsOk
  <2>9. Flags(did \cap {"beside", "groups"}, x)
    <3>1. "beside" \notin did
      BY <1>4 DEF Allowed, CreateNames
    <3>2. QED
      BY <1>1, <1>3, <3>1 DEF Flags
  <2>10. QED
    BY <1>3, <2>3, <2>4, <2>7, <2>8, <2>9 DEF Track, StoreOk
<1>5. CASE what # "remove"
  <2>1. /\ x.log = s.log /\ x.topic = s.topic /\ x.files.marker = s.files.marker /\ s.files.logs \subseteq x.files.logs
        /\ x.files.logs = s.files.logs \/ what \in {"open", "logs"}
    BY <1>2, <1>5 DEF PartlyFields
  <2>2. Pending(x) <=> Pending(s)
    BY <1>3, <2>1 DEF Pending
  <2>3. RegistryOk(x)
    BY <1>1, <1>3, <2>1, <2>2 DEF RegistryOk
  <2>4. PlacedOk(x)
    BY <1>1, <1>3, <2>1 DEF PlacedOk
  <2>8. DoneOk(x, D) /\ OffsOk(x, d)
    <3>1. CASE Fit(did)
      <4>1. ~Unfit(s)
        BY <1>1, <3>1 DEF Fit, Flags
      <4>2. ASSUME NEW y \in D PROVE KeptIn(x, y)
        <5>1. KeptIn(s, y) /\ y[3] \subseteq Numbered
          BY <1>1 DEF DoneOk, DoneShape
        <5>2. \A m \in y[3] : m[1] \in Partitions /\ m[1] <= s.manifest.parts
          BY <1>1, <4>1, <5>1 DEF DoneOk, Numbered, Unfit
        <5>3. \A m \in y[3] : m[1] \in s.files.logs
          BY <1>1, <4>1, <5>2 DEF Partitions, RegistryOk, Unfit
        <5>4. QED
          BY <2>1, <5>1, <5>3 DEF KeptIn
      <4>3. DoneOk(x, D)
        BY <1>1, <1>3, <4>2 DEF DoneOk
      <4>4. OffsOk(x, d)
        BY <1>1, <1>3, <2>1, <4>1 DEF OffsOk
      <4>5. QED
        BY <4>3, <4>4
    <3>2. CASE x.files.logs = s.files.logs
      <4>1. DoneOk(x, D)
        BY <1>1, <1>3, <2>1, <3>2 DEF DoneOk, KeptIn
      <4>2. Unfit(x) <=> Unfit(s)
        BY <1>3, <2>2, <3>2 DEF Unfit
      <4>3. OffsOk(x, d)
        BY <1>1, <1>3, <2>1, <4>2 DEF OffsOk
      <4>4. QED
        BY <4>1, <4>3
    <3>3. CASE x.files.logs # s.files.logs /\ ~Fit(did)
      <4>1. what \in {"open", "logs"} /\ Empty(s)
        BY <1>1, <2>1, <3>3 DEF Allowed, Flags
      <4>2. Empty(x)
        BY <2>1, <4>1 DEF Empty
      <4>3. DoneOk(x, D)
        BY <1>1, <1>3, <4>2, EmptyStore DEF DoneOk, KeptIn, DoneShape
      <4>4. x.goff = {} \/ Unfit(x)
        <5>1. CASE "new" \in did
          BY <1>1, <1>3, <5>1 DEF Flags
        <5>2. CASE "new" \notin did
          <6>1. "remove" \in did /\ "complete" \notin did /\ did \cap {"commit", "fence", "fenced"} # {}
            BY <3>3, <4>1, <5>2 DEF Allowed
          <6>2. s.topic.fenced /\ s.files.marker = 0
            BY <1>1, <6>1 DEF Flags
          <6>3. s.manifest.epoch > 1 /\ s.manifest.epoch \in Nat
            BY <1>1, <6>2 DEF RegistryOk
          <6>4. QED
            BY <1>3, <2>1, <6>2, <6>3 DEF Unfit, Pending
        <5>3. QED
          BY <5>1, <5>2
      <4>5. OffsOk(x, d)
        BY <1>1, <1>3, <4>4 DEF OffsOk
      <4>6. QED
        BY <4>3, <4>5
    <3>4. QED
      BY <3>1, <3>2, <3>3
  <2>9. Flags(did \cap {"beside", "groups"}, x)
    BY <1>1, <1>3, <2>1 DEF Flags
  <2>10. QED
    BY <1>3, <2>3, <2>4, <2>8, <2>9 DEF Track, StoreOk
<1>6. QED
  BY <1>4, <1>5

-----------------------------------------------------------------------------
(* A command as a whole.                                                   *)

\* The steps behind the first n, and the steps in their order.
Behind(did, steps, n) == did \cup {steps[k] : k \in 1 .. n}
AllAllowed(did, steps) == \A n \in 1 .. Len(steps) : Allowed(Behind(did, steps, n - 1), steps[n])

\* At most seven, one by one.
FewAllowed(did, steps, k) ==
    /\ Len(steps) = k
    /\ k >= 1 => Allowed(did, steps[1])
    /\ k >= 2 => Allowed(did \cup {steps[1]}, steps[2])
    /\ k >= 3 => Allowed(did \cup {steps[1], steps[2]}, steps[3])
    /\ k >= 4 => Allowed(did \cup {steps[1], steps[2], steps[3]}, steps[4])
    /\ k >= 5 => Allowed(did \cup {steps[1], steps[2], steps[3], steps[4]}, steps[5])
    /\ k >= 6 => Allowed(did \cup {steps[1], steps[2], steps[3], steps[4], steps[5]}, steps[6])
    /\ k >= 7 => Allowed(did \cup {steps[1], steps[2], steps[3], steps[4], steps[5], steps[6]}, steps[7])

\* That is all.
LEMMA SevenAllowed ==
    ASSUME NEW did, NEW steps, NEW k \in 0 .. 7, FewAllowed(did, steps, k)
    PROVE  AllAllowed(did, steps)
<1>0. Len(steps) = k
  BY DEF FewAllowed
<1>1. SUFFICES ASSUME NEW n \in 1 .. k PROVE Allowed(Behind(did, steps, n - 1), steps[n])
  BY <1>0 DEF AllAllowed
<1>2. n \in 1 .. 7 /\ k >= n
  OBVIOUS
<1>3. CASE n = 1
  <2>1. 1 .. n - 1 = {}
    BY <1>3
  <2>2. Behind(did, steps, n - 1) = did
    BY <2>1 DEF Behind
  <2>3. QED
    BY <1>2, <1>3, <2>2 DEF FewAllowed
<1>4. CASE n = 2
  <2>1. 1 .. n - 1 = {1}
    BY <1>4
  <2>2. Behind(did, steps, n - 1) = did \cup {steps[1]}
    BY <2>1 DEF Behind
  <2>3. QED
    BY <1>2, <1>4, <2>2 DEF FewAllowed
<1>5. CASE n = 3
  <2>1. 1 .. n - 1 = {1, 2}
    BY <1>5
  <2>2. Behind(did, steps, n - 1) = did \cup {steps[1], steps[2]}
    BY <2>1 DEF Behind
  <2>3. QED
    BY <1>2, <1>5, <2>2 DEF FewAllowed
<1>6. CASE n = 4
  <2>1. 1 .. n - 1 = {1, 2, 3}
    BY <1>6
  <2>2. Behind(did, steps, n - 1) = did \cup {steps[1], steps[2], steps[3]}
    BY <2>1 DEF Behind
  <2>3. QED
    BY <1>2, <1>6, <2>2 DEF FewAllowed
<1>7. CASE n = 5
  <2>1. 1 .. n - 1 = {1, 2, 3, 4}
    BY <1>7
  <2>2. Behind(did, steps, n - 1) = did \cup {steps[1], steps[2], steps[3], steps[4]}
    BY <2>1 DEF Behind
  <2>3. QED
    BY <1>2, <1>7, <2>2 DEF FewAllowed
<1>8. CASE n = 6
  <2>1. 1 .. n - 1 = {1, 2, 3, 4, 5}
    BY <1>8
  <2>2. Behind(did, steps, n - 1) = did \cup {steps[1], steps[2], steps[3], steps[4], steps[5]}
    BY <2>1 DEF Behind
  <2>3. QED
    BY <1>2, <1>8, <2>2 DEF FewAllowed
<1>9. CASE n = 7
  <2>1. 1 .. n - 1 = {1, 2, 3, 4, 5, 6}
    BY <1>9
  <2>2. Behind(did, steps, n - 1) = did \cup {steps[1], steps[2], steps[3], steps[4], steps[5], steps[6]}
    BY <2>1 DEF Behind
  <2>3. QED
    BY <1>2, <1>9, <2>2 DEF FewAllowed
<1>10. QED
  BY <1>2, <1>3, <1>4, <1>5, <1>6, <1>7, <1>8, <1>9

\* A run of steps.
LEMMA TrackRun ==
    ASSUME NEW D, DoneShape(D), NEW d, NEW s, NEW did, Track(did, s, D, d), NEW steps, Len(steps) \in Nat,
           AllAllowed(did, steps)
    PROVE  Track(Behind(did, steps, Len(steps)), Run(s, steps), D, d)
<1> DEFINE n == Len(steps)
<1>1. n \in Nat
  OBVIOUS
<1>2. PICK st : st[0] = s /\ (\A i \in 1 .. n : st[i] = Step(st[i - 1], steps[i])) /\ Run(s, steps) = st[n]
  BY <1>1, StepRun
<1>a. \A i \in 1 .. n : Allowed(Behind(did, steps, i - 1), steps[i])
  BY DEF AllAllowed
<1> HIDE DEF n
<1> DEFINE S == {i \in 0 .. n : Track(Behind(did, steps, i), st[i], D, d)}
<1>3. 0 \in S
  <2>1. Behind(did, steps, 0) = did /\ st[0] = s
    BY <1>2 DEF Behind
  <2>2. QED
    BY <1>1, <2>1
<1>4. ASSUME NEW i \in 0 .. n - 1, i \in S PROVE i + 1 \in S
  <2>1. i + 1 \in 1 .. n /\ (i + 1) - 1 = i /\ i + 1 \in 0 .. n /\ i \in Nat
    BY <1>1
  <2>2. st[i + 1] = Step(st[i], steps[i + 1]) /\ Allowed(Behind(did, steps, i), steps[i + 1])
    BY <1>1, <1>2, <1>a, <2>1
  <2>3. Track(Behind(did, steps, i) \cup {steps[i + 1]}, st[i + 1], D, d)
    BY <1>4, <2>2, TrackStep
  <2>4. Behind(did, steps, i + 1) = Behind(did, steps, i) \cup {steps[i + 1]}
    <3>1. 1 .. i + 1 = (1 .. i) \cup {i + 1}
      BY <2>1
    <3>2. QED
      BY <3>1 DEF Behind
  <2>5. QED
    BY <2>1, <2>3, <2>4
<1>5. 0 .. n \subseteq S
  <2> HIDE DEF S
  <2>1. QED
    BY <1>1, <1>3, <1>4, UpTo
<1>6. QED
  BY <1>1, <1>2, <1>5 DEF n

\* What is done after a failure.
LEMMA RestAllowed ==
    ASSUME NEW op, NEW what, MayFail(op, what), op = "create" => what \in CreateNames, op = "truncate" => Does("truncate"),
           NEW did, "beside" \in did => op = "create"
    PROVE  LET rest == Rest(op, what)
           IN  Len(rest) \in Nat /\ AllAllowed(did \cap {"beside", "groups"}, rest)
<1> DEFINE all == <<"groups", "journal", "complete">>
           one == <<"complete">>
           rest == Rest(op, what)
           b == did \cap {"beside", "groups"}
<1>1. /\ Len(all) = 3 /\ Len(one) = 1 /\ Len(<< >>) = 0
      /\ all[1] = "groups" /\ all[2] = "journal" /\ all[3] = "complete" /\ one[1] = "complete"
      /\ 1 .. 3 = {1, 2, 3} /\ 1 .. 1 = {1} /\ 1 .. 0 = {} /\ 1 - 1 = 0 /\ 2 - 1 = 1 /\ 3 - 1 = 2
      /\ 0 + 1 = 1 /\ 1 + 1 = 2
  OBVIOUS
<1>2. CASE rest = << >>
  BY <1>1, <1>2 DEF AllAllowed
<1>3. CASE rest = all
  <2>0. op # "create"
    BY <1>1, <1>3 DEF Rest, CreateNames, MayFail
  <2>1. "beside" \notin b /\ \A w \in b : w = "groups"
    BY <2>0
  <2> HIDE DEF all, one, b
  <2>3. /\ Allowed(b, "groups") /\ Allowed(b \cup {"groups"}, "journal") /\ Allowed(b \cup {"groups", "journal"}, "complete")
    BY <2>1 DEF Allowed, StepNames
  <2>4. AllAllowed(b, all)
    <3>1. PICK k \in 0 .. 7 : k = 3
      OBVIOUS
    <3>2. FewAllowed(b, all, k)
      BY <1>1, <2>3, <3>1 DEF FewAllowed
    <3>3. QED
      BY <3>2, SevenAllowed
  <2>5. QED
    BY <1>1, <1>3, <2>4 DEF b
<1>4. CASE rest = one
  <2>0. op = "truncate" /\ what \in {"groups", "journal"}
    BY <1>1, <1>4 DEF Rest
  <2>1. ~CleansUp
    BY <2>0 DEF CleansUp, MayFail
  <2>2. \A w \in b : w = "groups"
    BY <2>0
  <2> HIDE DEF all, one, b
  <2>4. Allowed(b, "complete")
    BY <2>1, <2>2 DEF Allowed, StepNames
  <2>5. AllAllowed(b, one)
    <3>1. PICK k \in 0 .. 7 : k = 1
      OBVIOUS
    <3>2. FewAllowed(b, one, k)
      BY <1>1, <2>4, <3>1 DEF FewAllowed
    <3>3. QED
      BY <3>2, SevenAllowed
  <2>6. QED
    BY <1>1, <1>4, <2>5 DEF b
<1>5. rest \in {all, one, << >>}
  BY DEF Rest
<1>6. QED
  BY <1>2, <1>3, <1>4, <1>5

\* The storage a command leaves, whether it ends, is killed or fails.
TrackLeaves(did, D, d) ==
    \E s, now : Track(now, s, D, d) /\ Become(s) /\ ("beside" \in did => "beside" \in now)

\* Each one.
LEMMA PerformTracks ==
    ASSUME NEW D, DoneShape(D), NEW d, NEW did, Track(did, Now, D, d), NEW op, NEW steps \in Seq(StepNames),
           AllAllowed(did, steps), "beside" \in did <=> op = "create", op = "truncate" => Does("truncate"),
           NEW then, Perform(op, steps, then)
    PROVE  TrackLeaves(did, D, d)
<1>1. CASE Become(Run(Now, steps))
  <2>1. Track(Behind(did, steps, Len(steps)), Run(Now, steps), D, d)
    BY TrackRun
  <2>2. "beside" \in did => "beside" \in Behind(did, steps, Len(steps))
    BY DEF Behind
  <2>3. QED
    BY <1>1, <2>1, <2>2 DEF TrackLeaves
<1>2. ASSUME NEW n \in DOMAIN steps, NEW s \in Partly(Run(Now, SubSeq(steps, 1, n - 1)), steps[n]),
             Become(s) \/ (MayFail(op, steps[n]) /\ Become(Run(s, Rest(op, steps[n]))))
      PROVE  TrackLeaves(did, D, d)
  <2> DEFINE front == SubSeq(steps, 1, n - 1)
             what == steps[n]
             rest == Rest(op, what)
             b == Behind(did, steps, n - 1)
  <2>1. n \in 1 .. Len(steps) /\ Len(steps) \in Nat
    OBVIOUS
  <2>2. Len(front) = n - 1 /\ Len(front) \in Nat /\ \A m \in 1 .. n - 1 : front[m] = steps[m]
    BY <2>1
  <2>3. Allowed(b, what)
    BY <2>1 DEF AllAllowed
  <2> HIDE DEF front, what
  <2>4. \A m \in 0 .. n - 1 : Behind(did, front, m) = Behind(did, steps, m)
    BY <2>1, <2>2 DEF Behind
  <2>5. AllAllowed(did, front)
    <3>1. ASSUME NEW m \in 1 .. Len(front) PROVE Allowed(Behind(did, front, m - 1), front[m])
      <4>1. m \in 1 .. Len(steps) /\ m - 1 \in 0 .. n - 1 /\ front[m] = steps[m]
        BY <2>1, <2>2
      <4>2. QED
        BY <2>4, <4>1 DEF AllAllowed
    <3>2. QED
      BY <3>1 DEF AllAllowed
  <2>6. Track(b, Run(Now, front), D, d)
    <3>1. Track(Behind(did, front, Len(front)), Run(Now, front), D, d)
      BY <2>2, <2>5, TrackRun
    <3>2. Len(front) \in 0 .. n - 1
      BY <2>1, <2>2
    <3>3. QED
      BY <2>2, <2>4, <3>1, <3>2
  <2>7. "beside" \in b <=> "beside" \in did
    <3>1. \A k \in 1 .. n - 1 : steps[k] \in StepNames
      BY <2>1
    <3>2. QED
      BY <3>1 DEF Behind, StepNames
  <2> HIDE DEF b
  <2> DEFINE c == b \cap {"beside", "groups"}
  <2>8. Track(c, s, D, d)
    BY <1>2, <2>3, <2>6, TrackPartly DEF front, what
  <2>9. CASE Become(s)
    <3>1. "beside" \in did => "beside" \in c
      BY <2>7
    <3>2. QED
      BY <2>8, <2>9, <3>1 DEF TrackLeaves
  <2>10. CASE MayFail(op, what) /\ Become(Run(s, rest))
    <3>1. op = "create" => what \in CreateNames
      BY <2>3, <2>7 DEF Allowed
    <3>2. Len(rest) \in Nat /\ AllAllowed(c, rest)
      BY <2>7, <2>10, <3>1, RestAllowed
    <3> HIDE DEF rest
    <3>3. Track(Behind(c, rest, Len(rest)), Run(s, rest), D, d)
      BY <2>8, <3>2, TrackRun
    <3>4. "beside" \in did => "beside" \in Behind(c, rest, Len(rest))
      BY <2>7 DEF Behind
    <3>5. QED
      BY <2>10, <3>3, <3>4 DEF TrackLeaves
  <2>11. QED
    BY <1>2, <2>9, <2>10 DEF rest, what
<1>3. \/ Become(Run(Now, steps))
      \/ \E n \in DOMAIN steps : \E s \in Partly(Run(Now, SubSeq(steps, 1, n - 1)), steps[n]) :
            Become(s) \/ (MayFail(op, steps[n]) /\ Become(Run(s, Rest(op, steps[n]))))
  BY DEF Perform
<1>4. QED
  BY <1>1, <1>2, <1>3

\* The commands and startup: a CREATE, which may run beside the jobs, takes no partition away.
LEMMA LifecycleTracks ==
    ASSUME NEW D, DoneShape(D), NEW d, StoreOk(Now, D, d), LifecycleStep
    PROVE  \E did : /\ TrackLeaves(did, D, d)
                    /\ "beside" \in did \/ Truncate \/ Delete \/ RestoreTopics \/ RecoverPendingTruncations
<1> DEFINE t1 == <<"close", "commit", "remove", "open", "groups", "journal", "complete">>
           t2 == <<"close", "remove", "open", "groups", "journal", "complete">>
           d1 == <<"close", "unregister", "remove", "groups", "journal">>
           d2 == <<"groups", "journal">>
           c1 == <<"logs", "define", "open", "default">>
           c2 == <<"logs", "alter", "open", "default">>
           r1 == <<"remove", "fence", "open">>
           r2 == <<"open">>
<1>1. /\ t1 \in Seq(StepNames) /\ t2 \in Seq(StepNames) /\ d1 \in Seq(StepNames) /\ d2 \in Seq(StepNames)
      /\ c1 \in Seq(StepNames) /\ c2 \in Seq(StepNames) /\ r1 \in Seq(StepNames) /\ r2 \in Seq(StepNames)
      /\ << >> \in Seq(StepNames)
  BY DEF StepNames
<1>2. PICK k2 \in 0 .. 7, k3 \in 0 .. 7, k4 \in 0 .. 7, k5 \in 0 .. 7, k6 \in 0 .. 7, k7 \in 0 .. 7, k1 \in 0 .. 7 :
        k1 = 1 /\ k2 = 2 /\ k3 = 3 /\ k4 = 4 /\ k5 = 5 /\ k6 = 6 /\ k7 = 7
  OBVIOUS
<1>3. /\ AllAllowed({"fit"}, t1) /\ AllAllowed({"fenced"}, t2) /\ AllAllowed({"calm"}, d1) /\ AllAllowed({"calm"}, d2)
      /\ AllAllowed({"new", "beside"}, c1) /\ AllAllowed({"fit", "beside"}, c2) /\ AllAllowed({"late"}, r1)
      /\ AllAllowed({"fit"}, r2)
  <2>1. FewAllowed({"fit"}, t1, k7)
    <3>1. /\ Len(t1) = 7 /\ t1[1] = "close" /\ t1[2] = "commit" /\ t1[3] = "remove" /\ t1[4] = "open" /\ t1[5] = "groups"
          /\ t1[6] = "journal" /\ t1[7] = "complete"
      OBVIOUS
    <3>2. /\ Allowed({"fit"}, "close") /\ Allowed({"fit"} \cup {"close"}, "commit")
          /\ Allowed({"fit"} \cup {"close", "commit"}, "remove") /\ Allowed({"fit"} \cup {"close", "commit", "remove"}, "open")
          /\ Allowed({"fit"} \cup {"close", "commit", "remove", "open"}, "groups")
          /\ Allowed({"fit"} \cup {"close", "commit", "remove", "open", "groups"}, "journal")
          /\ Allowed({"fit"} \cup {"close", "commit", "remove", "open", "groups", "journal"}, "complete")
      BY DEF Allowed, Fit, StepNames
    <3> HIDE DEF t1
    <3>3. QED
      BY <1>2, <3>1, <3>2 DEF FewAllowed
  <2>2. FewAllowed({"fenced"}, t2, k6)
    <3>1. /\ Len(t2) = 6 /\ t2[1] = "close" /\ t2[2] = "remove" /\ t2[3] = "open" /\ t2[4] = "groups"
          /\ t2[5] = "journal" /\ t2[6] = "complete"
      OBVIOUS
    <3>2. /\ Allowed({"fenced"}, "close")
          /\ Allowed({"fenced"} \cup {"close"}, "remove") /\ Allowed({"fenced"} \cup {"close", "remove"}, "open")
          /\ Allowed({"fenced"} \cup {"close", "remove", "open"}, "groups")
          /\ Allowed({"fenced"} \cup {"close", "remove", "open", "groups"}, "journal")
          /\ Allowed({"fenced"} \cup {"close", "remove", "open", "groups", "journal"}, "complete")
      BY DEF Allowed, Fit, StepNames
    <3> HIDE DEF t2
    <3>3. QED
      BY <1>2, <3>1, <3>2 DEF FewAllowed
  <2>3. FewAllowed({"calm"}, d1, k5)
    <3>1. /\ Len(d1) = 5 /\ d1[1] = "close" /\ d1[2] = "unregister" /\ d1[3] = "remove" /\ d1[4] = "groups"
          /\ d1[5] = "journal"
      OBVIOUS
    <3>2. /\ Allowed({"calm"}, "close")
          /\ Allowed({"calm"} \cup {"close"}, "unregister") /\ Allowed({"calm"} \cup {"close", "unregister"}, "remove")
          /\ Allowed({"calm"} \cup {"close", "unregister", "remove"}, "groups")
          /\ Allowed({"calm"} \cup {"close", "unregister", "remove", "groups"}, "journal")
      BY DEF Allowed, Fit, StepNames
    <3> HIDE DEF d1
    <3>3. QED
      BY <1>2, <3>1, <3>2 DEF FewAllowed
  <2>4. FewAllowed({"calm"}, d2, k2)
    <3>1. Len(d2) = 2 /\ d2[1] = "groups" /\ d2[2] = "journal"
      OBVIOUS
    <3>2. Allowed({"calm"}, "groups") /\ Allowed({"calm"} \cup {"groups"}, "journal")
      BY DEF Allowed, Fit, StepNames
    <3> HIDE DEF d2
    <3>3. QED
      BY <1>2, <3>1, <3>2 DEF FewAllowed
  <2>5. FewAllowed({"new", "beside"}, c1, k4)
    <3>1. Len(c1) = 4 /\ c1[1] = "logs" /\ c1[2] = "define" /\ c1[3] = "open" /\ c1[4] = "default"
      OBVIOUS
    <3>2. /\ Allowed({"new", "beside"}, "logs") /\ Allowed({"new", "beside"} \cup {"logs"}, "define")
          /\ Allowed({"new", "beside"} \cup {"logs", "define"}, "open")
          /\ Allowed({"new", "beside"} \cup {"logs", "define", "open"}, "default")
      BY DEF Allowed, Fit, StepNames, CreateNames
    <3> HIDE DEF c1
    <3>3. QED
      BY <1>2, <3>1, <3>2 DEF FewAllowed
  <2>6. FewAllowed({"fit", "beside"}, c2, k4)
    <3>1. Len(c2) = 4 /\ c2[1] = "logs" /\ c2[2] = "alter" /\ c2[3] = "open" /\ c2[4] = "default"
      OBVIOUS
    <3>2. /\ Allowed({"fit", "beside"}, "logs") /\ Allowed({"fit", "beside"} \cup {"logs"}, "alter")
          /\ Allowed({"fit", "beside"} \cup {"logs", "alter"}, "open")
          /\ Allowed({"fit", "beside"} \cup {"logs", "alter", "open"}, "default")
      BY DEF Allowed, Fit, StepNames, CreateNames
    <3> HIDE DEF c2
    <3>3. QED
      BY <1>2, <3>1, <3>2 DEF FewAllowed
  <2>7. FewAllowed({"late"}, r1, k3)
    <3>1. Len(r1) = 3 /\ r1[1] = "remove" /\ r1[2] = "fence" /\ r1[3] = "open"
      OBVIOUS
    <3>2. /\ Allowed({"late"}, "remove") /\ Allowed({"late"} \cup {"remove"}, "fence")
          /\ Allowed({"late"} \cup {"remove", "fence"}, "open")
      BY DEF Allowed, Fit, StepNames
    <3> HIDE DEF r1
    <3>3. QED
      BY <1>2, <3>1, <3>2 DEF FewAllowed
  <2>8. FewAllowed({"fit"}, r2, k1)
    <3>1. Len(r2) = 1 /\ r2[1] = "open"
      OBVIOUS
    <3>2. Allowed({"fit"}, "open")
      BY DEF Allowed, Fit, StepNames
    <3> HIDE DEF r2
    <3>3. QED
      BY <1>2, <3>1, <3>2 DEF FewAllowed
  <2> HIDE DEF t1, t2, d1, d2, c1, c2, r1, r2
  <2>9. QED
    BY <2>1, <2>2, <2>3, <2>4, <2>5, <2>6, <2>7, <2>8, SevenAllowed
<1>4. d1 = <<"close", "unregister", "remove">> \o d2 /\ d2 = << >> \o d2
  OBVIOUS
<1> HIDE DEF t1, t2, d1, d2, c1, c2, r1, r2
<1>5. /\ Now.topic = topic /\ Now.manifest = manifest /\ Now.files = files /\ Now.log = log /\ Now.goff = goff
  BY DEF Now
<1>6. RegistryOk(Now) /\ PlacedOk(Now)
  BY DEF StoreOk
<1>7. topic.reg /\ ~topic.fenced => ~Unfit(Now)
  BY <1>5, <1>6 DEF RegistryOk, Unfit
<1>8. topic.reg /\ ~topic.fenced => Track({"fit"}, Now, D, d) /\ Track({"fit", "beside"}, Now, D, d)
  BY <1>5, <1>7 DEF Track, Flags
<1>9. CASE Truncate
  <2>0. Does("truncate")
    BY <1>9 DEF Truncate
  <2>1. CASE topic.reg /\ ~topic.fenced /\ Perform("truncate", t1, "up")
    <3>1. TrackLeaves({"fit"}, D, d)
      BY <1>1, <1>3, <1>8, <2>0, <2>1, PerformTracks
    <3>2. QED
      BY <1>9, <3>1
  <2>2. CASE topic.fenced /\ Perform("truncate", t2, "up")
    <3>1. Track({"fenced"}, Now, D, d)
      BY <1>5, <2>2 DEF Track, Flags
    <3>2. TrackLeaves({"fenced"}, D, d)
      BY <1>1, <1>3, <2>0, <2>2, <3>1, PerformTracks
    <3>3. QED
      BY <1>9, <3>2
  <2>3. QED
    BY <1>9, <2>1, <2>2 DEF Truncate, t1, t2
<1>10. CASE Delete
  <2>1. ~topic.fenced /\ (Perform("delete", d1, "up") \/ Perform("delete", d2, "up"))
    BY <1>4, <1>10 DEF Delete, d2
  <2>2. Track({"calm"}, Now, D, d)
    BY <1>5, <2>1 DEF Track, Flags
  <2>3. TrackLeaves({"calm"}, D, d)
    BY <1>1, <1>3, <2>1, <2>2, PerformTracks
  <2>4. QED
    BY <1>10, <2>3
<1>11. CASE Create
  <2>1. ~topic.fenced /\ goff = {} /\ files.logs = {} /\ ~topic.reg /\ Perform("create", c1, "up")
    BY <1>11 DEF Create, RecreationIsClean, c1
  <2>2. Empty(Now)
    BY <1>5, <1>6, <2>1 DEF PlacedOk, Empty
  <2>3. Track({"new", "beside"}, Now, D, d)
    BY <1>5, <2>1, <2>2 DEF Track, Flags
  <2>4. TrackLeaves({"new", "beside"}, D, d)
    BY <1>1, <1>3, <2>1, <2>3, PerformTracks
  <2>5. QED
    BY <2>4
<1>12. CASE Grow
  <2>1. topic.reg /\ ~topic.fenced /\ Perform("create", c2, "up")
    BY <1>12 DEF Grow, c2
  <2>2. TrackLeaves({"fit", "beside"}, D, d)
    BY <1>1, <1>3, <1>8, <2>1, PerformTracks
  <2>3. QED
    BY <2>2
<1>13. CASE RestoreTopics
  <2>1. StorageConsistent
    BY <1>13 DEF RestoreTopics
  <2>2. ResetPending <=> Pending(Now)
    BY <1>5 DEF ResetPending, Pending
  <2>3. CASE Perform("restore", << >>, "recover")
    <3>1. TrackLeaves({}, D, d)
      <4>1. Track({}, Now, D, d)
        BY DEF Track, Flags
      <4>2. AllAllowed({}, << >>)
        <5>1. 1 .. Len(<< >>) = {}
          OBVIOUS
        <5>2. QED
          BY <5>1 DEF AllAllowed
      <4>3. QED
        BY <1>1, <2>3, <4>1, <4>2, PerformTracks
    <3>2. QED
      BY <1>13, <3>1
  <2>4. CASE ResetPending /\ Perform("restore", r1, "recover")
    <3>1. Track({"late"}, Now, D, d)
      BY <1>5, <2>4 DEF Track, Flags, ResetPending
    <3>2. TrackLeaves({"late"}, D, d)
      BY <1>1, <1>3, <2>4, <3>1, PerformTracks
    <3>3. QED
      BY <1>13, <3>2
  <2>5. CASE manifest # NoTopic /\ ~ResetPending /\ Perform("restore", r2, "recover")
    <3>1. ~Unfit(Now)
      BY <1>5, <1>6, <2>1, <2>2, <2>5 DEF StorageConsistent, RegistryOk, Unfit
    <3>2. Track({"fit"}, Now, D, d)
      BY <3>1 DEF Track, Flags
    <3>3. TrackLeaves({"fit"}, D, d)
      BY <1>1, <1>3, <2>5, <3>2, PerformTracks
    <3>4. QED
      BY <1>13, <3>3
  <2>6. QED
    BY <1>13, <2>3, <2>4, <2>5 DEF RestoreTopics, r1, r2
<1>14. CASE RecoverPendingTruncations
  <2>1. topic.fenced /\ Perform("recover", t2, "recover")
    BY <1>14 DEF RecoverPendingTruncations, t2
  <2>2. Track({"fenced"}, Now, D, d)
    BY <1>5, <2>1 DEF Track, Flags
  <2>3. TrackLeaves({"fenced"}, D, d)
    BY <1>1, <1>3, <2>1, <2>2, PerformTracks
  <2>4. QED
    BY <1>14, <2>3
<1>15. QED
  BY <1>9, <1>10, <1>11, <1>12, <1>13, <1>14 DEF LifecycleStep

-----------------------------------------------------------------------------
(* The storage behind every other step.                                    *)

\* The finished transactions of the ids I, and their messages.
DoneOf(I, d, j) ==
    {x \in I \X Epochs \X SUBSET Numbered :
        /\ d[x[1]][x[2]].gen # 0 /\ x[3] = d[x[1]][x[2]].msgs
        /\ Finished(j[x[1]], x[2])}

\* A job that has passed validateTransaction finds its partitions.
JobsOn ==
    \A i \in Ids : Locked(i) /\ job[i].todo[1].do # "apply" => \A m \in MsgsOf(i) : HasPartition(m[1])
StoreInv == StoreOk(Now, DoneOf(Ids, decided, journal), decided) /\ JobsOn

\* What is done, by id and epoch.
LEMMA DoneIs ==
    ASSUME NEW d, NEW j
    PROVE  /\ DoneShape(DoneOf(Ids, d, j))
           /\ \A x \in DoneOf(Ids, d, j) :
                /\ x[1] \in Ids /\ x[2] \in Epochs /\ d[x[1]][x[2]].gen # 0 /\ x[3] = d[x[1]][x[2]].msgs
                /\ x[3] \subseteq Numbered /\ Finished(j[x[1]], x[2])
           /\ \A i \in Ids : \A e \in Epochs :
                d[i][e].gen # 0 /\ d[i][e].msgs \subseteq Numbered /\ Finished(j[i], e) =>
                    <<i, e, d[i][e].msgs>> \in DoneOf(Ids, d, j)
<1>1. \A x \in DoneOf(Ids, d, j) :
        /\ x[1] \in Ids /\ x[2] \in Epochs /\ d[x[1]][x[2]].gen # 0 /\ x[3] = d[x[1]][x[2]].msgs
        /\ x[3] \subseteq Numbered /\ Finished(j[x[1]], x[2])
  BY DEF DoneOf
<1>2. \A i \in Ids : i # Plain
  BY IdsClients, TxnConstants DEF Plain
<1>3. QED
  BY <1>1, <1>2 DEF DoneOf, DoneShape

\* A step's decisions and outcomes, for the storage it starts from.
LEMMA StoreAhead ==
    ASSUME TopicOk, TxnInv, CoreInv, CoreInv', CoreMoves, OutcomeInv, StoreInv
    PROVE  StoreOk(Now, DoneOf(Ids, decided', journal'), decided')
<1>0. Ids' = Ids /\ DOMAIN decided = Ids /\ DOMAIN decided' = Ids
  BY DEF CoreMoves, CoreInv, DecidedInv
<1>1. \A i \in Ids : /\ TxOk(journal[i]) /\ TxOk(journal'[i])
                     /\ DecidedOk(decided[i], journal[i]) /\ DecidedOk(decided'[i], journal'[i])
  BY <1>0 DEF CoreInv, StateInv, StateOk, DecidedInv
<1>2. PICK d, j : d = decided' /\ j = journal'
  OBVIOUS
<1>3. /\ Shaped(Now) /\ RegistryOk(Now) /\ PlacedOk(Now) /\ DoneOk(Now, DoneOf(Ids, decided, journal))
      /\ OffsOk(Now, decided)
  BY DEF StoreInv, StoreOk
<1>4. Now.log = log /\ Now.goff = goff
  BY DEF Now
<1>5. ASSUME NEW x \in DoneOf(Ids, d, j)
      PROVE  KeptIn(Now, x) /\ (Now.manifest.parts # 0 => \A m \in x[3] : m[1] <= Now.manifest.parts)
  <2> DEFINE i == x[1]
             e == x[2]
  <2>1. /\ i \in Ids /\ e \in Epochs /\ d[i][e].gen # 0 /\ x[3] = d[i][e].msgs
        /\ x[3] \subseteq Numbered /\ Finished(j[i], e)
    BY DoneIs
  <2>0. e \in Int
    BY <2>1 DEF Epochs
  <2> HIDE DEF i, e
  <2>2. decided'[i][e] = decided[i][e]
    <3>1. ~(journal'[i].state = "committing" /\ journal'[i].epoch = e)
      BY <1>1, <1>2, <2>0, <2>1 DEF Finished, TxOk
    <3>2. QED
      BY <2>1, <3>1 DEF CoreMoves
  <2>3. decided[i][e].gen # 0 /\ x[3] = decided[i][e].msgs
    BY <1>2, <2>1, <2>2
  <2>4. CASE Finished(journal[i], e)
    <3>1. x \in DoneOf(Ids, decided, journal)
      BY <2>1, <2>3, <2>4 DEF DoneOf, i, e
    <3>2. QED
      BY <1>3, <3>1 DEF DoneOk
  <2>5. CASE ~Finished(journal[i], e)
    <3>1. Past(journal[i], e)
      BY <1>1, <2>1, <2>3 DEF DecidedOk
    <3>2. ~Later(journal[i], journal'[i])
      <4>1. Later(journal[i], journal'[i]) => Moves(journal[i], journal'[i])
        BY DEF Moves
      <4>2. QED
        BY <1>1, <1>2, <2>0, <2>1, <2>5, <3>1, <4>1, MovesOn
    <3>3. Concludes(i)
      BY <2>1, <3>2 DEF CoreMoves
    <3>4. journal[i].state = "committing" /\ journal[i].epoch = e
      BY <1>1, <2>0, <2>1, <2>5, <3>1 DEF Past, Finished, TxOk
    <3>5. WholeIn(log, i, journal[i].epoch, MsgsOf(i))
      <4>1. CASE Doing(i) = "decide"
        BY <2>1, <4>1, DecidesWhole DEF OutcomeInv
      <4>2. CASE \E t : tail = <<i, t>> /\ t.state = "committed"
        BY <2>1, <3>4, <4>2 DEF OutcomeInv, TailWhole
      <4>3. QED
        BY <3>3, <4>1, <4>2 DEF Concludes
    <3>6. WholeIn(log, i, e, x[3])
      BY <2>3, <3>4, <3>5 DEF MsgsOf
    <3>7. ASSUME NEW m \in x[3], Now.manifest.parts # 0 PROVE m[1] <= Now.manifest.parts
      <4>1. Recorded(log[m[1]]) /\ m[1] \in Partitions
        BY <2>1, <3>6 DEF WholeIn, RecordIn, Has, Recorded, Numbered
      <4>2. QED
        BY <1>3, <1>4, <3>7, <4>1 DEF PlacedOk
    <3>8. KeptIn(Now, x)
      BY <1>4, <3>6 DEF KeptIn, i, e
    <3>9. QED
      BY <3>7, <3>8
  <2>6. QED
    BY <2>4, <2>5
<1>6. ASSUME NEW g \in goff
      PROVE  GoffOk(g, d) /\ d[g[1]][g[2]].msgs = decided[g[1]][g[2]].msgs
  <2>1. GoffOk(g, decided)
    BY <1>3, <1>4 DEF OffsOk
  <2>2. g[1] \in Ids /\ g[2] \in Epochs /\ decided[g[1]][g[2]].gen # 0
    BY <1>0, <2>1 DEF GoffOk
  <2>3. d[g[1]][g[2]].gen # 0 /\ d[g[1]][g[2]].msgs = decided[g[1]][g[2]].msgs
    BY <1>2, <2>2, DecisionStands
  <2>4. QED
    BY <1>0, <1>2, <2>1, <2>3 DEF GoffOk
<1>7. OffsOk(Now, d)
  BY <1>3, <1>4, <1>6 DEF OffsOk
<1>8. QED
  BY <1>2, <1>3, <1>5, <1>7 DEF StoreOk, DoneOk

\* Appending: a record of a transaction goes where the transaction has one, or it is of a registered
\* partition and of a transaction that is not done.
Fresh(s, x, D) ==
    \A p \in Partitions : \A n \in DOMAIN x.log[p] : x.log[p][n].txn # Plain =>
        \/ \E k \in DOMAIN s.log[p] : /\ s.log[p][k].txn = x.log[p][n].txn
                                      /\ s.log[p][k].epoch = x.log[p][n].epoch
        \/ /\ s.topic.reg /\ p <= s.topic.parts
           /\ \A y \in D : ~(y[1] = x.log[p][n].txn /\ y[2] = x.log[p][n].epoch)
Adds(s, x, D, d) ==
    /\ Shaped(x) /\ x.manifest = s.manifest /\ x.files = s.files /\ x.topic.parts = s.topic.parts
    /\ x.topic.reg => s.topic.reg /\ x.topic.fenced = s.topic.fenced
    /\ x.topic.fenced => s.topic.fenced
    /\ \A p \in Partitions : \A q, e, n : Has(s.log[p], q, e, n) => Has(x.log[p], q, e, n)
    /\ Fresh(s, x, D)
    /\ \A g \in x.goff : g \in s.goff \/ (GoffOk(g, d) /\ WholeIn(x.log, g[1], g[2], d[g[1]][g[2]].msgs))

\* Such a step keeps the storage as it should be.
LEMMA StoreAdds ==
    ASSUME NEW s, NEW D, DoneShape(D), NEW d, StoreOk(s, D, d), NEW x, Adds(s, x, D, d)
    PROVE  StoreOk(x, D, d)
<1>1. /\ Shaped(s) /\ RegistryOk(s) /\ PlacedOk(s) /\ DoneOk(s, D) /\ OffsOk(s, d)
      /\ Shaped(x) /\ x.manifest = s.manifest /\ x.files = s.files /\ Fresh(s, x, D)
  BY DEF StoreOk, Adds
<1>2. Pending(x) = Pending(s) /\ Unfit(x) = Unfit(s)
  BY <1>1 DEF Pending, Unfit
<1>3. RegistryOk(x)
  BY <1>1, <1>2 DEF RegistryOk, Adds
<1>4. PlacedOk(x)
  <2>1. SUFFICES ASSUME NEW p \in Partitions, NEW n \in DOMAIN x.log[p], x.log[p][n].txn # Plain
                 PROVE  p \in s.files.logs /\ (s.manifest.parts # 0 => p <= s.manifest.parts)
    BY <1>1 DEF PlacedOk, Recorded
  <2>2. CASE \E k \in DOMAIN s.log[p] : s.log[p][k].txn = x.log[p][n].txn
    BY <1>1, <2>1, <2>2 DEF PlacedOk, Recorded
  <2>3. CASE s.topic.reg /\ p <= s.topic.parts
    <3>1. /\ s.manifest.parts \in 0 .. NumPartitions /\ s.topic.parts \in 0 .. NumPartitions
          /\ s.topic.parts <= s.manifest.parts /\ 1 .. s.manifest.parts \subseteq s.files.logs
      BY <1>1, <2>3 DEF RegistryOk
    <3>2. p \in 1 .. s.manifest.parts
      BY <2>3, <3>1 DEF Partitions
    <3>3. QED
      BY <3>1, <3>2
  <2>4. QED
    BY <1>1, <2>1, <2>2, <2>3 DEF Fresh
<1>5. \A i, e, M : M \subseteq Numbered /\ WholeIn(s.log, i, e, M) => WholeIn(x.log, i, e, M)
  BY DEF Adds, WholeIn, RecordIn, MarkerIn, Numbered
<1>6. DoneOk(x, D)
  <2>1. ASSUME NEW y \in D PROVE KeptIn(x, y)
    <3>1. KeptIn(s, y) /\ y[1] # Plain /\ y[3] \subseteq Numbered
      BY <1>1 DEF DoneOk, DoneShape
    <3>2. ~Traced(s.log, y[1], y[2]) => ~Traced(x.log, y[1], y[2])
      BY <1>1, <3>1 DEF Traced, Fresh
    <3>3. QED
      BY <1>1, <1>5, <3>1, <3>2 DEF KeptIn
  <2>2. QED
    BY <1>1, <2>1 DEF DoneOk
<1>7. OffsOk(x, d)
  <2>1. ASSUME NEW g \in x.goff
        PROVE  GoffOk(g, d) /\ (CleansUp => Unfit(x) \/ WholeIn(x.log, g[1], g[2], d[g[1]][g[2]].msgs))
    <3>1. CASE g \in s.goff
      BY <1>1, <1>2, <1>5, <3>1 DEF OffsOk, GoffOk
    <3>2. QED
      BY <3>1 DEF Adds
  <2>2. QED
    BY <2>1 DEF OffsOk
<1>8. QED
  BY <1>1, <1>3, <1>4, <1>6, <1>7 DEF StoreOk

\* The next state's storage.
LEMMA NowNext ==
    /\ Now.topic = topic /\ Now.manifest = manifest /\ Now.files = files /\ Now.log = log /\ Now.goff = goff
    /\ Now'.topic = topic' /\ Now'.manifest = manifest' /\ Now'.files = files' /\ Now'.log = log' /\ Now'.goff = goff'
    /\ TopicOk' /\ ShapeInv' => Shaped(Now')
<1>1. /\ Now.topic = topic /\ Now.manifest = manifest /\ Now.files = files /\ Now.log = log /\ Now.goff = goff
      /\ Now'.topic = topic' /\ Now'.manifest = manifest' /\ Now'.files = files' /\ Now'.log = log' /\ Now'.goff = goff'
  BY DEF Now
<1>2. DOMAIN Now' = {"topic", "manifest", "files", "log", "producers", "index", "snap", "registered",
                     "goff", "txns", "journal", "tail"}
  BY DEF Now
<1>3. TopicOk' /\ ShapeInv' => Shaped(Now')
  BY <1>1, <1>2 DEF Shaped, LifeShape, TopicOk, ShapeInv
<1>4. QED
  BY <1>1, <1>3

\* What is said of it before is said of it after.
LEMMA StorePrimed ==
    ASSUME CoreMoves, StoreOk(Now', DoneOf(Ids, decided', journal'), decided'), JobsOn'
    PROVE  StoreInv'
<1>1. Ids' = Ids /\ work' = work
  BY DEF CoreMoves
<1>2. OffsOk(Now', decided') => OffsOk(Now, decided)'
  BY <1>1 DEF OffsOk, CleansUp, Does
<1>3. QED
  BY <1>1, <1>2 DEF StoreInv, StoreOk

\* Jobs that a step keeps, ends, starts or moves on.
LEMMA JobsOnKept ==
    ASSUME TopicOk, CoreInv, CoreInv', CoreMoves, JobsOn, \A p \in Partitions : HasPartition(p) => HasPartition(p)',
           \A i \in Ids : \/ job'[i] = job[i] \/ job'[i] = NoJob \/ job'[i].todo[1].do = "apply"
                          \/ Locked(i) /\ \A m \in MsgsOf(i) : HasPartition(m[1])
    PROVE  JobsOn'
<1>1. Ids' = Ids
  BY DEF CoreMoves
<1>2. ASSUME NEW i \in Ids, Locked(i)', job'[i].todo[1].do # "apply", NEW m \in MsgsOf(i)' PROVE HasPartition(m[1])'
  <2>1. job'[i] # NoJob
    BY <1>2 DEF Locked, NoJob, Nobody
  <2>2. Locked(i) /\ (job[i].todo[1].do # "apply" \/ \A k \in MsgsOf(i) : HasPartition(k[1]))
    BY <1>2, <2>1 DEF Locked
  <2>3. \A k \in MsgsOf(i) : HasPartition(k[1])
    BY <2>2 DEF JobsOn
  <2>4. MsgsOf(i)' = MsgsOf(i) /\ MsgsOf(i) \subseteq Numbered
    BY <2>2, LockedStays
  <2>5. m[1] \in Partitions /\ HasPartition(m[1])
    BY <1>2, <2>3, <2>4 DEF Numbered
  <2>6. QED
    BY <2>5
<1>3. QED
  BY <1>1, <1>2 DEF JobsOn

\* Steps beside the topic's lifecycle.
LEMMA StoreBeside ==
    ASSUME TopicOk, TopicOk', ShapeInv', TxnInv, CoreInv, CoreInv', CoreMoves, OutcomeInv, StoreInv,
           Grows, UNCHANGED <<topic, manifest, files>>,
           \A i \in Ids : \/ job'[i] = job[i] \/ job'[i] = NoJob \/ job'[i].todo[1].do = "apply"
                          \/ Locked(i) /\ \A m \in MsgsOf(i) : HasPartition(m[1]),
           Fresh(Now, Now', DoneOf(Ids, decided', journal')),
           \A g \in goff' : g \in goff \/ (GoffOk(g, decided') /\ WholeIn(log', g[1], g[2], decided'[g[1]][g[2]].msgs))
    PROVE  StoreInv'
<1>1. PICK D, d : D = DoneOf(Ids, decided', journal') /\ d = decided'
  OBVIOUS
<1>2. DoneShape(D) /\ StoreOk(Now, D, d)
  BY <1>1, StoreAhead, DoneIs
<1>3. Adds(Now, Now', D, d)
  BY <1>1, NowNext DEF Adds, Grows
<1>4. StoreOk(Now', D, d)
  BY <1>2, <1>3, StoreAdds
<1>5. JobsOn'
  BY JobsOnKept DEF StoreInv, HasPartition
<1>6. QED
  BY <1>1, <1>4, <1>5, StorePrimed

\* Records of other producers.
LEMMA PlainFresh ==
    ASSUME LogsOk, \A p \in Partitions : PlainTo(log[p], producers[p], log'[p], producers'[p]), NEW D
    PROVE  Fresh(Now, Now', D)
<1>1. ASSUME NEW p \in Partitions, NEW n \in DOMAIN log'[p], log'[p][n].txn # Plain
      PROVE  n \in DOMAIN log[p] /\ log[p][n] = log'[p][n]
  <2>1. IsASeq(log[p]) /\ PlainTo(log[p], producers[p], log'[p], producers'[p])
    BY DEF LogsOk
  <2>2. /\ DOMAIN log[p] = 1 .. Len(log[p]) /\ DOMAIN log'[p] = 1 .. Len(log'[p])
        /\ Len(log[p]) \in Nat /\ Len(log'[p]) \in Nat
    BY <2>1, AnySeq DEF IsASeq, PlainTo
  <2>3. ~(n > Len(log[p]))
    BY <1>1, <2>1, <2>2 DEF PlainTo, IsPlainRec
  <2>4. QED
    BY <2>1, <2>2, <2>3 DEF PlainTo
<1>2. QED
  BY <1>1, NowNext DEF Fresh

\* The producer, the streams and the end of recovery.
LEMMA StoreElse ==
    ASSUME TopicOk, TopicOk', ShapeInv', LogsOk, TxnInv, CoreInv, CoreInv', CoreMoves, OutcomeInv, StoreInv,
           UNCHANGED <<topic, manifest, files, job, goff>>,
           \A p \in Partitions : PlainTo(log[p], producers[p], log'[p], producers'[p])
    PROVE  StoreInv'
<1>1. Grows
  BY PlainStep DEF OutcomeInv
<1>2. PICK D : D = DoneOf(Ids, decided', journal')
  OBVIOUS
<1>3. Fresh(Now, Now', D)
  BY PlainFresh
<1>4. QED
  BY <1>1, <1>2, <1>3, StoreBeside

\* The clients' commands, and pruning.
LEMMA StoreCommand ==
    ASSUME TopicOk, TopicOk', ShapeInv', LogsOk, TxnInv, CoreInv, CoreInv', CoreMoves, OutcomeInv, StoreInv,
           TxnCommand \/ Rebalance \/ (\E n \in Ids : PruneExpired(n)), TxnAlone
    PROVE  StoreInv'
<1>1. UNCHANGED <<topic, log, producers, manifest, files, goff>>
  BY DEF TxnCommand, Rebalance, InitProducerID, BeginTxn, BeginRefused, SendOffsets, EndTxnAbort, EndTxnCommit,
         EndTxnCommitted, TxnRefused, TxnPublish, PruneExpired, logVars, TxnAlone, lifecycleVars
<1>2. \A i \in Ids : job'[i] = job[i] \/ job'[i].todo[1].do = "apply"
  <2>1. ASSUME NEW c \in TxnClients, EndTxnCommit(c) PROVE <1>2
    <3> DEFINE n == IdOf(c)
               tx == PrepareCommit(txns[n])
    <3>1. UNCHANGED job \/ job' = [k \in Ids |-> IF k = n THEN [todo |-> Todo(n, tx), by |-> c] ELSE job[k]]
      BY <2>1 DEF EndTxnCommit, Prepared, SetJob, TxnInv, JobsOk
    <3>2. tx.msgs \in Seq(Numbered)
      <4>1. TxOk(txns[n])
        BY IdOfIds DEF CoreInv, StateInv, StateOk
      <4>2. tx.msgs = txns[n].msgs
        BY <4>1, IsTxFacts DEF PrepareCommit, TxOk
      <4>3. QED
        BY <4>1, <4>2 DEF TxOk
    <3> HIDE DEF n, tx
    <3>3. Todo(n, tx)[1].do = "apply"
      BY <3>2, TodoPlan
    <3>4. QED
      BY <3>1, <3>3
  <2>2. ASSUME \A c \in TxnClients : ~EndTxnCommit(c) PROVE UNCHANGED job
    BY <2>2 DEF TxnCommand, Rebalance, InitProducerID, BeginTxn, BeginRefused, SendOffsets, EndTxnAbort,
         EndTxnCommitted, TxnRefused, TxnPublish, PruneExpired
  <2>3. QED
    BY <2>1, <2>2
<1>3. Grows
  BY <1>1 DEF Grows
<1>4. PICK D : D = DoneOf(Ids, decided', journal')
  OBVIOUS
<1>5. Fresh(Now, Now', D)
  BY <1>1, NonePlain, PlainFresh
<1>6. QED
  BY <1>1, <1>2, <1>3, <1>4, <1>5, StoreBeside

\* A job's next part: of one that goes on the partitions are there.
LEMMA JobGoesOn ==
    ASSUME TxnInv, CoreInv, StoreInv, NEW i \in Ids, Doing(i) # None,
           Doing(i) = "apply" => ValidateTransaction(txns[i])
    PROVE  Locked(i) /\ \A m \in MsgsOf(i) : HasPartition(m[1])
<1>1. Locked(i) /\ job[i].todo[1].do = Doing(i)
  BY TodoFacts DEF Doing
<1>2. JobFor(i)
  BY <1>1 DEF CoreInv, WorkInv
<1>3. CASE Doing(i) = "apply"
  <2>1. ValidateTransaction(journal[i]) /\ MsgsOf(i) = Range(journal[i].msgs)
    BY <1>2, <1>3, MsgsFacts DEF JobFor
  <2>2. QED
    BY <1>1, <2>1 DEF ValidateTransaction
<1>4. CASE Doing(i) # "apply"
  BY <1>1, <1>4 DEF StoreInv, JobsOn
<1>5. QED
  BY <1>3, <1>4

\* Records, markers, offsets and outcome of a job, and a job that recovery starts.
LEMMA StoreWork ==
    ASSUME TopicOk, TopicOk', ShapeInv', LogsOk, TxnInv, CoreInv, CoreInv', CoreMoves, OutcomeInv, StoreInv,
           NEW i \in Ids, TxnApply(i) \/ ApplyFails(i) \/ RecoverTransaction(i), TxnAlone
    PROVE  StoreInv'
<1>0. UNCHANGED <<topic, manifest, files>>
  BY DEF TxnApply, ApplyTransaction, PublishNext, Store, CommitTxnOffsets, DecideCommitted, ApplyFails,
         RecoverTransaction, logVars, TxnAlone, lifecycleVars
<1>1. job = [k \in Ids |-> job[k]]
  BY DEF TxnInv, JobsOk
<1>2. GiveUpJob(i) => \A k \in Ids : job'[k] = job[k] \/ job'[k] = NoJob
  BY <1>1 DEF GiveUpJob, SetJob
<1>3. Advance(i) => \A k \in Ids : job'[k] = job[k] \/ k = i
  BY <1>1 DEF Advance, SetJob
<1>4. RecoverTransaction(i) => \A k \in Ids : job'[k] = job[k] \/ job'[k].todo[1].do = "apply"
  <2>1. SUFFICES ASSUME RecoverTransaction(i) PROVE \A k \in Ids : job'[k] = job[k] \/ job'[k].todo[1].do = "apply"
    OBVIOUS
  <2> DEFINE tx == txns[i]
  <2>2. job' = [k \in Ids |-> IF k = i THEN [todo |-> Todo(i, tx), by |-> Recovery] ELSE job[k]]
    BY <1>1, <2>1 DEF RecoverTransaction, Prepared, SetJob
  <2>3. tx.msgs \in Seq(Numbered)
    BY DEF CoreInv, StateInv, StateOk, TxOk
  <2> HIDE DEF tx
  <2>4. Todo(i, tx)[1].do = "apply"
    BY <2>3, TodoPlan
  <2>5. QED
    BY <2>2, <2>4
<1>5. PICK D : D = DoneOf(Ids, decided', journal')
  OBVIOUS
<1>6. CASE PublishNext(i)
  <2>1. Doing(i) = "write" /\ Locked(i) /\ \A m \in MsgsOf(i) : HasPartition(m[1])
    BY <1>6, JobGoesOn DEF PublishNext, None
  <2>2. Grows
    BY <1>6, PublishKeeps
  <2> DEFINE t == job[i].todo[1]
             r == t.rec
             p == t.p
             st == EnqueueAll(p, <<r>>)
  <2>3. PICK m \in MsgsOf(i) : t = Head(job[i].todo) /\ p = m[1] /\ r.txn = i /\ r.epoch = journal[i].epoch
    BY <2>1, NextWrite
  <2>4. /\ Store(p, st) /\ (GiveUpJob(i) \/ Advance(i)) /\ UNCHANGED <<journal, decided, goff>>
    BY <1>6, <2>3 DEF PublishNext
  <2>5. PICK old : Staged(old) /\ old.recs = log[p] /\ old.known = producers[p] /\ st = Enqueue(old, r)
    BY EnqueueOne
  <2> HIDE DEF t, r, p, st
  <2>6. st.recs = log[p] \/ st.recs = Append(log[p], r)
    BY <2>5, EnqueueCases
  <2>7. \A q \in Partitions : log'[q] = log[q] \/ (q = p /\ log'[q] = Append(log[q], r))
    BY <2>4, <2>6 DEF Store, LogsOk
  <2>8. topic.reg /\ p <= topic.parts
    BY <2>1, <2>3 DEF HasPartition
  <2>9. \A y \in D : ~(y[1] = i /\ y[2] = journal[i].epoch)
    <3>1. JobFor(i) /\ TxOk(journal[i])
      BY <2>1 DEF CoreInv, WorkInv, StateInv, StateOk
    <3>2. ~Finished(journal[i], journal[i].epoch)
      BY <3>1 DEF JobFor, Finished, TxOk
    <3>3. \A y \in D : Finished(journal'[y[1]], y[2])
      BY <1>5, DoneIs
    <3>4. QED
      BY <2>4, <3>2, <3>3
  <2>10. Fresh(Now, Now', D)
    <3>1. ASSUME NEW q \in Partitions, NEW n \in DOMAIN log'[q], log'[q][n].txn # Plain
          PROVE  \/ \E k \in DOMAIN log[q] : log[q][k].txn = log'[q][n].txn /\ log[q][k].epoch = log'[q][n].epoch
                 \/ /\ topic.reg /\ q <= topic.parts
                    /\ \A y \in D : ~(y[1] = log'[q][n].txn /\ y[2] = log'[q][n].epoch)
      <4>1. CASE log'[q] = log[q]
        BY <3>1, <4>1
      <4>2. CASE q = p /\ log'[q] = Append(log[q], r)
        <5>1. IsASeq(log[q])
          BY DEF LogsOk
        <5>2. /\ Len(log[q]) \in Nat /\ DOMAIN log[q] = 1 .. Len(log[q]) /\ DOMAIN log'[q] = 1 .. Len(log[q]) + 1
              /\ \A k \in 1 .. Len(log[q]) : log'[q][k] = log[q][k]
              /\ log'[q][Len(log[q]) + 1] = r
          BY <4>2, <5>1, AppendAny
        <5>3. CASE n = Len(log[q]) + 1
          BY <2>3, <2>8, <2>9, <4>2, <5>2, <5>3
        <5>4. CASE n # Len(log[q]) + 1
          <6>1. n \in DOMAIN log[q] /\ log'[q][n] = log[q][n]
            BY <5>2, <5>4
          <6>2. QED
            BY <6>1
        <5>5. QED
          BY <5>3, <5>4
      <4>3. QED
        BY <2>7, <4>1, <4>2
    <3>2. QED
      BY <3>1, NowNext DEF Fresh
  <2>11. QED
    BY <1>0, <1>2, <1>3, <1>5, <2>1, <2>2, <2>4, <2>10, StoreBeside
<1>7. CASE ~PublishNext(i)
  <2>1. UNCHANGED <<log, producers>>
    BY <1>7 DEF TxnApply, ApplyTransaction, CommitTxnOffsets, DecideCommitted, ApplyFails, RecoverTransaction, logVars
  <2>2. Grows /\ Fresh(Now, Now', D)
    BY <2>1, NonePlain, PlainFresh DEF Grows
  <2>3. CASE CommitTxnOffsets(i) /\ OwnsOffsets(txns[i].offs)
    <3>1. Doing(i) = "offsets" /\ Advance(i) /\ goff' = goff \cup {<<i, txns[i].epoch>>} /\ UNCHANGED <<journal, decided>>
      BY <2>3 DEF CommitTxnOffsets
    <3>2. Locked(i) /\ \A m \in MsgsOf(i) : HasPartition(m[1])
      BY <3>1, JobGoesOn DEF None
    <3>3. JobFor(i) /\ JobPlan(i)
      BY <3>2 DEF CoreInv, WorkInv, OutcomeInv, JobsInv
    <3> DEFINE e == journal[i].epoch
    <3>4. txns[i].epoch = e /\ e \in Epochs /\ decided[i][e].gen # 0 /\ MsgsOf(i) \subseteq Numbered
      BY <3>3, MsgsFacts DEF JobFor
    <3>5. WholeIn(log, i, e, MsgsOf(i))
      <4>1. job[i].todo # << >> /\ IsASeq(job[i].todo) /\ job[i].todo[1].do = "offsets"
        BY <3>1, <3>2, TodoFacts DEF Doing, None
      <4>2. Rank(job[i].todo[1]) = 3
        BY <4>1, Ranks
      <4>3. QED
        BY <3>3, <4>1, <4>2, WrittenBefore DEF JobPlan
    <3>6. DOMAIN decided = Ids
      BY DEF CoreInv, DecidedInv
    <3> DEFINE g == <<i, e>>
    <3>7. g[1] = i /\ g[2] = e /\ g \in (DOMAIN decided) \X Epochs
      BY <3>4, <3>6
    <3>8. decided[g[1]][g[2]].msgs = MsgsOf(i) /\ decided[g[1]][g[2]].gen # 0
      BY <3>4, <3>7 DEF MsgsOf
    <3>9. GoffOk(g, decided') /\ WholeIn(log', g[1], g[2], decided'[g[1]][g[2]].msgs)
      <4> HIDE DEF g
      <4>1. GoffOk(g, decided)
        BY <3>4, <3>7, <3>8 DEF GoffOk
      <4>2. WholeIn(log, g[1], g[2], decided[g[1]][g[2]].msgs)
        BY <3>5, <3>7, <3>8
      <4>3. QED
        BY <2>1, <3>1, <4>1, <4>2
    <3>10. \A k \in goff' : k \in goff \/ k = g
      BY <3>1, <3>4
    <3> HIDE DEF g, e
    <3>11. QED
      BY <1>0, <1>3, <1>5, <2>2, <3>1, <3>2, <3>9, <3>10, StoreBeside
  <2>4. CASE ~(CommitTxnOffsets(i) /\ OwnsOffsets(txns[i].offs))
    <3>1. UNCHANGED goff
      BY <1>7, <2>4 DEF TxnApply, CommitTxnOffsets, ApplyTransaction, DecideCommitted, ApplyFails, RecoverTransaction
    <3>2. \/ GiveUpJob(i) \/ RecoverTransaction(i)
          \/ Advance(i) /\ Doing(i) = "apply" /\ ValidateTransaction(txns[i])
      BY <1>7, <2>4 DEF TxnApply, CommitTxnOffsets, ApplyTransaction, DecideCommitted, ApplyFails
    <3>3. \A k \in Ids : \/ job'[k] = job[k] \/ job'[k] = NoJob \/ job'[k].todo[1].do = "apply"
                         \/ Locked(k) /\ \A m \in MsgsOf(k) : HasPartition(m[1])
      <4>1. CASE GiveUpJob(i) \/ RecoverTransaction(i)
        BY <1>2, <1>4, <4>1
      <4>2. CASE Advance(i) /\ Doing(i) = "apply" /\ ValidateTransaction(txns[i])
        <5>1. Locked(i) /\ \A m \in MsgsOf(i) : HasPartition(m[1])
          BY <4>2, JobGoesOn DEF None
        <5>2. QED
          BY <1>3, <4>2, <5>1
      <4>3. QED
        BY <3>2, <4>1, <4>2
    <3>4. QED
      BY <1>0, <1>5, <2>2, <3>1, <3>3, StoreBeside
  <2>5. QED
    BY <2>3, <2>4
<1>8. QED
  BY <1>6, <1>7

\* A crash loses the registration, the fence and the jobs.
LEMMA StoreCrash ==
    ASSUME TopicOk, TopicOk', ShapeInv', LogsOk, TxnInv, CoreInv, CoreInv', CoreMoves, OutcomeInv, StoreInv, BrokerCrash
    PROVE  StoreInv'
<1>1. /\ UNCHANGED <<log, producers, goff, manifest, files>> /\ job' = [i \in Ids |-> NoJob]
      /\ topic' = [topic EXCEPT !.reg = FALSE, !.fenced = FALSE]
  BY DEF BrokerCrash, Crash, lifecycleVars
<1>2. ~topic'.reg /\ ~topic'.fenced /\ topic'.parts = topic.parts
  BY <1>1 DEF TopicOk, TopicFields
<1>3. PICK D, d : D = DoneOf(Ids, decided', journal') /\ d = decided'
  OBVIOUS
<1>4. DoneShape(D) /\ StoreOk(Now, D, d)
  BY <1>3, StoreAhead, DoneIs
<1>5. Fresh(Now, Now', D)
  BY <1>1, NonePlain, PlainFresh
<1>6. Adds(Now, Now', D, d)
  BY <1>1, <1>2, <1>5, NowNext DEF Adds
<1>7. StoreOk(Now', D, d)
  BY <1>4, <1>6, StoreAdds
<1>8. JobsOn'
  BY <1>1 DEF JobsOn, CoreMoves, Locked, NoJob, Nobody
<1>9. QED
  BY <1>3, <1>7, <1>8, StorePrimed

\* The topic's commands and startup.
LEMMA StoreLifecycle ==
    ASSUME TopicOk, TopicOk', ShapeInv', LogsOk, TxnInv, CoreInv, CoreInv', CoreMoves, OutcomeInv, StoreInv,
           LifecycleStep
    PROVE  StoreInv'
<1>1. PICK D, d : D = DoneOf(Ids, decided', journal') /\ d = decided'
  OBVIOUS
<1>2. DoneShape(D) /\ StoreOk(Now, D, d)
  BY <1>1, StoreAhead, DoneIs
<1>3. PICK did : /\ TrackLeaves(did, D, d)
                 /\ "beside" \in did \/ Truncate \/ Delete \/ RestoreTopics \/ RecoverPendingTruncations
  BY <1>2, LifecycleTracks
<1>4. PICK s, now : Track(now, s, D, d) /\ Become(s) /\ ("beside" \in did => "beside" \in now)
  BY <1>3 DEF TrackLeaves
<1>5. /\ topic' = s.topic /\ manifest' = s.manifest /\ files' = s.files /\ log' = s.log /\ goff' = s.goff
  BY <1>4 DEF Become
<1>6. StoreOk(s, D, d) /\ Flags(now, s)
  BY <1>4 DEF Track
<1>7. StoreOk(Now', D, d)
  <2>1. /\ Now'.topic = s.topic /\ Now'.manifest = s.manifest /\ Now'.files = s.files /\ Now'.log = s.log
        /\ Now'.goff = s.goff /\ Shaped(Now')
    BY <1>5, NowNext
  <2>2. PICK x : x = Now'
    OBVIOUS
  <2>3. x.topic = s.topic /\ x.manifest = s.manifest /\ x.files = s.files /\ x.log = s.log /\ x.goff = s.goff /\ Shaped(x)
    BY <2>1, <2>2
  <2>4. RegistryOk(x)
    BY <1>6, <2>3 DEF StoreOk, RegistryOk, Pending
  <2>5. PlacedOk(x) /\ DoneOk(x, D)
    BY <1>6, <2>3 DEF StoreOk, PlacedOk, DoneOk, KeptIn
  <2>6. OffsOk(x, d)
    BY <1>6, <2>3 DEF StoreOk, OffsOk, Unfit, Pending
  <2>7. QED
    BY <2>2, <2>3, <2>4, <2>5, <2>6 DEF StoreOk
<1>8. job' = job
  BY DEF LifecycleStep, Truncate, Delete, Create, Grow, RestoreTopics, RecoverPendingTruncations, Perform
<1>9. JobsOn'
  <2>1. CASE "beside" \in did
    <3>1. topic.reg /\ ~topic.fenced => topic'.reg /\ ~topic'.fenced /\ 1 .. topic.parts \subseteq 1 .. topic'.parts
      BY <1>4, <1>5, <1>6, <2>1 DEF Flags
    <3>2. topic.parts \in Nat /\ topic'.parts \in Nat
      <4>1. RegistryOk(Now) /\ RegistryOk(s)
        BY <1>2, <1>6 DEF StoreOk
      <4>2. QED
        BY <1>5, <4>1, NowNext DEF RegistryOk
    <3>3. \A p \in Partitions : HasPartition(p) => HasPartition(p)'
      <4>1. ASSUME NEW p \in Partitions, HasPartition(p) PROVE HasPartition(p)'
        <5>1. p \in 1 .. topic.parts
          BY <3>2, <4>1 DEF HasPartition, Partitions
        <5>2. p \in 1 .. topic'.parts
          BY <3>1, <4>1, <5>1 DEF HasPartition
        <5>3. QED
          BY <3>1, <3>2, <4>1, <5>2 DEF HasPartition
      <4>2. QED
        BY <4>1
    <3>4. QED
      BY <1>8, <3>3, JobsOnKept DEF StoreInv
  <2>2. CASE "beside" \notin did
    <3>1. \A i \in Ids : ~Locked(i)
      <4>1. CASE Truncate \/ Delete
        BY <4>1 DEF Truncate, Delete, Exclusive
      <4>2. CASE RestoreTopics \/ RecoverPendingTruncations
        BY <4>2 DEF RestoreTopics, RecoverPendingTruncations, CoreInv, QuietInv
      <4>3. QED
        BY <1>3, <2>2, <4>1, <4>2
    <3>2. QED
      BY <1>8, <3>1 DEF JobsOn, CoreMoves, Locked, NoJob, Nobody
  <2>3. QED
    BY <2>1, <2>2
<1>10. QED
  BY <1>1, <1>7, <1>9, StorePrimed

\* Initially the storage is as declared, and nothing is in it.
LEMMA StoreStarts ==
    ASSUME Init
    PROVE  StoreInv
<1>1. /\ log = [p \in Partitions |-> << >>] /\ goff = {}
      /\ decided = [i \in Ids |-> [e \in Epochs |-> [gen |-> 0, msgs |-> {}]]] /\ job = [i \in Ids |-> NoJob]
      /\ topic = [reg |-> TRUE, fenced |-> FALSE, gen |-> 1, parts |-> IF Does("grow") THEN 1 ELSE NumPartitions]
      /\ manifest = [rev |-> 1, epoch |-> 1, parts |-> topic.parts, gen |-> 1]
      /\ files = [logs |-> 1 .. topic.parts, marker |-> 0]
  BY DEF Init, TxnInit, LogInit, LifecycleInit
<1>2. TopicOk /\ LogsOk /\ TxnInv /\ ShapeInv
  BY InitOk, OutcomeStarts DEF BrokerInv
<1>4. Shaped(Now)
  BY <1>2, LifeRunNow DEF LifeRun
<1>5. DoneOf(Ids, decided, journal) = {}
  <2>1. \A i \in Ids : \A e \in Epochs : decided[i][e].gen = 0
    BY <1>1
  <2>2. QED
    BY <2>1 DEF DoneOf
<1>6. topic.parts \in 1 .. NumPartitions /\ topic.reg /\ ~topic.fenced
  BY <1>1, LogConstants
<1>7. manifest.parts = topic.parts /\ manifest.epoch = 1 /\ files.logs = 1 .. topic.parts /\ files.marker = 0
  BY <1>1
<1>8. RegistryOk(Now)
  BY <1>6, <1>7, NowNext DEF RegistryOk, Pending
<1>9. PlacedOk(Now)
  BY <1>1, NowNext, EmptyStore DEF PlacedOk, Empty
<1>10. DoneOk(Now, {}) /\ OffsOk(Now, decided)
  BY <1>1, NowNext DEF DoneOk, OffsOk
<1>11. JobsOn
  BY <1>1 DEF JobsOn, Locked
<1>12. QED
  BY <1>4, <1>5, <1>8, <1>9, <1>10, <1>11 DEF StoreInv, StoreOk

\* A step of the broker that deletes no tombstone.
LEMMA StoreStep ==
    ASSUME DecisionInv, StoreInv, [Next]_vars, forgot' = {}
    PROVE  StoreInv'
<1>1. /\ DecisionInv' /\ CoreMoves
  BY DecisionStep
<1>2. /\ CoreInv /\ OutcomeInv /\ ProducerInv /\ TxnInv /\ TopicOk /\ LogsOk
      /\ CoreInv' /\ ShapeInv' /\ TopicOk'
  BY <1>1 DEF DecisionInv, BrokerInv
<1>3. CASE ProducerStep /\ ProducerAlone
  BY <1>1, <1>2, <1>3, ProducerPlain, StoreElse DEF ProducerAlone, txnVars, lifecycleVars
<1>4. CASE ProducerFault /\ UNCHANGED <<up, txnVars, streamVars, lifecycleVars>>
  BY <1>1, <1>2, <1>4, ProducerPlain, StoreElse DEF txnVars, lifecycleVars
<1>5. CASE TxnStep /\ TxnAlone
  <2>1. CASE TxnCommand \/ Rebalance \/ \E i \in Ids : PruneExpired(i)
    BY <1>1, <1>2, <1>5, <2>1, StoreCommand
  <2>2. CASE ~(TxnCommand \/ Rebalance \/ \E i \in Ids : PruneExpired(i))
    <3>1. PICK i \in Ids : TxnApply(i) \/ ApplyFails(i) \/ RecoverTransaction(i)
      BY <1>5, <2>2 DEF TxnStep
    <3>2. QED
      BY <1>1, <1>2, <1>5, <3>1, StoreWork
  <2>3. QED
    BY <2>1, <2>2
<1>6. CASE StreamStep /\ UNCHANGED <<work, producerVars, txnVars, lifecycleVars>>
  BY <1>1, <1>2, <1>6, StreamPlain, StoreElse DEF txnVars, lifecycleVars
<1>7. CASE LifecycleStep
  BY <1>1, <1>2, <1>7, StoreLifecycle
<1>8. CASE BrokerCrash
  BY <1>1, <1>2, <1>8, StoreCrash
<1>9. CASE Serve \/ UNCHANGED vars
  <2>1. UNCHANGED <<topic, log, producers, manifest, files, job, goff>>
    BY <1>9 DEF Serve, Ready, logVars, vars, txnVars, lifecycleVars
  <2>2. QED
    BY <1>1, <1>2, <2>1, NonePlain, StoreElse
<1>10. QED
  BY <1>3, <1>4, <1>5, <1>6, <1>7, <1>8, <1>9 DEF Next

\* The topic's storage and its transactions agree in every reachable state, inside and behind every
\* interrupted CREATE, DELETE and TRUNCATE: a registered topic has the storage its manifest declares, a
\* finished transaction has lost none of its records or all of them or one of its logs is gone, and what
\* the group committed as a transaction's offsets is in the logs or the topic is not fit to be served.
\* It is so until the coordinator deletes an epoch tombstone (pruneExpiredLocked).
THEOREM StoreInvariant == Spec => [](forgot = {} => StoreInv)
<1>1. Init => StoreInv
  BY StoreStarts
<1>2. (forgot = {} => DecisionInv) /\ (forgot = {} => StoreInv) /\ [Next]_vars => (forgot = {} => StoreInv)'
  BY ForgotGrows, StoreStep
<1>3. QED
  BY <1>1, <1>2, DecisionInvariant, PTL DEF Spec

-----------------------------------------------------------------------------
(* What a reader of the topic finds.                                       *)

\* A one-to-one map.
LEMMA SameSize ==
    ASSUME NEW S, NEW T, IsFiniteSet(T), NEW f \in [S -> T], \A a, b \in S : f[a] = f[b] => a = b,
           \A t \in T : \E a \in S : f[a] = t
    PROVE  Cardinality(S) = Cardinality(T)
<1> DEFINE g == [t \in T |-> CHOOSE a \in S : f[a] = t]
<1>1. \A t \in T : g[t] \in S /\ f[g[t]] = t
  OBVIOUS
<1>2. g \in [T -> S]
  BY <1>1
<1>3. \A a \in S : f[a] \in T /\ g[f[a]] = a
  BY <1>1
<1>4. DOMAIN g = T
  OBVIOUS
<1> HIDE DEF g
<1>5. g \in Injection(T, S) /\ g \in Surjection(T, S)
  BY <1>1, <1>2, <1>3, <1>4 DEF Injection, Surjection, IsInjective
<1>6. ExistsBijection(T, S)
  BY <1>5 DEF ExistsBijection, Bijection
<1>7. QED
  BY <1>6, FS_Bijection

\* What is shown of a transaction.
LEMMA ShownIs ==
    ASSUME NEW i, NEW e, NEW x \in Shown(i, e)
    PROVE  /\ x = <<x[1], x[2]>> /\ x[1] \in Partitions /\ x[2] \in RecordsOf(x[1], i, e)
           /\ Visible(x[1], x[2], Decision)
<1>1. PICK p \in Partitions : x \in {p} \X {n \in RecordsOf(p, i, e) : Visible(p, n, Decision)}
  BY DEF Shown
<1>2. QED
  BY <1>1

\* A transaction of which something is shown is finished and whole.
LEMMA ShownWhole ==
    ASSUME DecisionInv, StoreInv, topic.reg, ~topic.fenced, NEW i \in Ids, NEW e \in Epochs, Shown(i, e) # {}
    PROVE  /\ decided[i][e].gen # 0 /\ Finished(journal[i], e) /\ decided[i][e].msgs \subseteq Numbered
           /\ WholeIn(log, i, e, decided[i][e].msgs)
<1>1. CoreInv /\ RecordsInv
  BY DEF DecisionInv, OutcomeInv
<1>2. PICK x : x \in Shown(i, e)
  OBVIOUS
<1> DEFINE p == x[1]
           n == x[2]
           M == decided[i][e].msgs
<1>3. p \in Partitions /\ n \in RecordsOf(p, i, e) /\ Visible(p, n, Decision)
  BY <1>2, ShownIs
<1>4. n \in DOMAIN log[p] /\ log[p][n].txn = i /\ log[p][n].epoch = e /\ ~log[p][n].mark
  BY <1>3 DEF RecordsOf
<1>5. i # Plain
  BY IdsClients, TxnConstants DEF Plain
<1>6. Decision[i][e] \in {None, "committed"}
  BY <1>3, <1>4, <1>5 DEF Visible, Resolved
<1>7. decided[i][e].gen # 0
  BY <1>1, <1>3, <1>4, <1>5 DEF RecordsInv, Marked
<1>8. StateOk(journal[i], txns[i]) /\ DecidedOk(decided[i], journal[i])
  BY <1>1 DEF CoreInv, StateInv, DecidedInv
<1>9. Past(journal[i], e) /\ M \subseteq Numbered
  BY <1>7, <1>8 DEF DecidedOk
<1>10. Finished(journal[i], e)
  <2>1. Decision[i][e] = IF txns[i].expired \/ txns[i].epoch # e THEN None ELSE txns[i].state
    BY DEF Decision
  <2>2. QED
    BY <1>6, <1>8, <1>9, <2>1, SaysFinished
<1>11. Traced(log, i, e)
  BY <1>3, <1>4 DEF Traced
<1> HIDE DEF M, p, n
<1> DEFINE y == <<i, e, M>>
<1>12. y \in DoneOf(Ids, decided, journal) /\ y[1] = i /\ y[2] = e /\ y[3] = M
  BY <1>7, <1>9, <1>10, DoneIs DEF M
<1> HIDE DEF y
<1>13. /\ RegistryOk(Now) /\ KeptIn(Now, y)
       /\ Now.manifest.parts # 0 => \A m \in y[3] : m[1] <= Now.manifest.parts
  BY <1>12 DEF StoreInv, StoreOk, DoneOk
<1>14. manifest.parts # 0 /\ manifest.parts \in 0 .. NumPartitions /\ 1 .. manifest.parts \subseteq files.logs
  BY <1>13, NowNext DEF RegistryOk
<1>15. \A m \in M : m[1] \in files.logs
  BY <1>9, <1>12, <1>13, <1>14, NowNext DEF Numbered, Partitions
<1>16. WholeIn(log, i, e, M)
  BY <1>11, <1>12, <1>13, <1>15, NowNext DEF KeptIn
<1>17. QED
  BY <1>7, <1>9, <1>10, <1>16 DEF M

\* All or nothing, once each (Transactions!AtomicVisible): whatever is given up, retried, recovered, lost
\* or interrupted, of the topic that is served a read_committed reader sees no record of a transaction or
\* every message that it had staged when it was prepared, each exactly once.  It is so until the
\* coordinator deletes an epoch tombstone (pruneExpiredLocked).
THEOREM AllOrNothing == Spec => [](forgot = {} => AtomicVisible)
<1>1. DecisionInv /\ StoreInv => AtomicVisible
  <2>1. SUFFICES ASSUME DecisionInv, StoreInv, topic.reg, ~topic.fenced, NEW i \in Ids, NEW e \in Epochs, Shown(i, e) # {}
                 PROVE  /\ {<<x[1], log[x[1]][x[2]].seq>> : x \in Shown(i, e)} = decided[i][e].msgs
                        /\ Cardinality(Shown(i, e)) = Cardinality(decided[i][e].msgs)
    BY DEF AtomicVisible, Remembered
  <2> DEFINE M == decided[i][e].msgs
             S == Shown(i, e)
             f == [x \in S |-> <<x[1], log[x[1]][x[2]].seq>>]
  <2>2. CoreInv /\ RecordsInv /\ IsFiniteSet(M)
    BY <2>1 DEF DecisionInv, OutcomeInv, CoreInv, DecidedInv, DecidedOk
  <2>3. /\ decided[i][e].gen # 0 /\ Finished(journal[i], e) /\ M \subseteq Numbered /\ WholeIn(log, i, e, M)
    BY <2>1, ShownWhole
  <2>4. i \in TxnClients /\ i # Plain
    BY IdsClients, TxnConstants DEF Plain
  <2>5. ASSUME NEW x \in S PROVE <<x[1], log[x[1]][x[2]].seq>> \in M
    <3>1. x[1] \in Partitions /\ x[2] \in RecordsOf(x[1], i, e)
      BY ShownIs
    <3>2. QED
      BY <2>2, <2>4, <3>1 DEF RecordsInv, Marked, RecordsOf
  <2>6. ASSUME NEW m \in M PROVE \E x \in S : <<x[1], log[x[1]][x[2]].seq>> = m
    <3>1. RecordIn(log, i, e, m) /\ MarkerIn(log, i, e, m) /\ m \in Numbered
      BY <2>3 DEF WholeIn
    <3>2. QED
      BY <2>2, <2>3, <3>1, WholeShown
  <2>7. ASSUME NEW x \in S, NEW y \in S, <<x[1], log[x[1]][x[2]].seq>> = <<y[1], log[y[1]][y[2]].seq>> PROVE x = y
    <3> DEFINE recs == log[x[1]]
               a == x[2]
               b == y[2]
    <3>1. /\ x = <<x[1], x[2]>> /\ x[1] \in Partitions /\ x[2] \in RecordsOf(x[1], i, e)
          /\ y = <<y[1], y[2]>> /\ y[2] \in RecordsOf(y[1], i, e)
      BY ShownIs
    <3>2. x[1] = y[1] /\ recs[a].seq = recs[b].seq
      BY <2>7
    <3>3. /\ a \in DOMAIN recs /\ recs[a].txn = i /\ recs[a].epoch = e /\ ~recs[a].mark
          /\ b \in DOMAIN recs /\ recs[b].txn = i /\ recs[b].epoch = e /\ ~recs[b].mark
      BY <3>1, <3>2 DEF RecordsOf
    <3>4. Orderly(recs) /\ IsASeq(recs)
      BY <2>1, <2>2, <3>1 DEF RecordsInv, DecisionInv, BrokerInv, LogsOk
    <3>5. a \in Int /\ b \in Int
      BY <3>3, <3>4, AnySeq DEF IsASeq
    <3>6. recs[a].pid = i /\ recs[b].pid = i /\ recs[a].seq \in Int /\ e \in Int
      BY <2>4, <3>3, <3>4, RecKinds DEF Orderly, IsTxnRec, PidFor
    <3>7. ~Before(recs[a], recs[b]) /\ ~Before(recs[b], recs[a])
      BY <3>2, <3>3, <3>6 DEF Before
    <3>8. ~(a < b) /\ ~(b < a)
      BY <2>4, <3>3, <3>4, <3>6, <3>7 DEF Orderly
    <3>9. a = b
      BY <3>5, <3>8
    <3>10. QED
      BY <3>1, <3>2, <3>9
  <2>8. {<<x[1], log[x[1]][x[2]].seq>> : x \in S} = M
    BY <2>5, <2>6
  <2>9. /\ f \in [S -> M] /\ (\A x, y \in S : f[x] = f[y] => x = y) /\ \A m \in M : \E x \in S : f[x] = m
    BY <2>5, <2>6, <2>7
  <2> HIDE DEF f, S, M
  <2>10. Cardinality(S) = Cardinality(M)
    BY <2>2, <2>9, SameSize
  <2>11. QED
    BY <2>8, <2>10 DEF S, M
<1>2. QED
  BY <1>1, DecisionInvariant, StoreInvariant, PTL

\* Input offsets only with the output (Transactions!OffsetsImplyOutput): what a transaction committed for
\* the group is only there with its records and markers, in the logs of the topic that is served, also
\* behind a TRUNCATE or DELETE that was killed or failed, unless a truncation completes without cleaning
\* up (handleTruncate answers so, and the deployment has both).  It is so until the coordinator deletes
\* an epoch tombstone (pruneExpiredLocked).
THEOREM OutputBeforeOffsets == Spec => [](forgot = {} /\ CleansUp => OffsetsImplyOutput)
<1>1. DecisionInv /\ StoreInv => (CleansUp => OffsetsImplyOutput)
  <2>1. SUFFICES ASSUME DecisionInv, StoreInv, CleansUp, topic.reg, ~topic.fenced, NEW x \in goff,
                        NEW m \in decided[x[1]][x[2]].msgs
                 PROVE  /\ MarkersOf(m[1], x[1], x[2]) # {}
                        /\ \E n \in RecordsOf(m[1], x[1], x[2]) : log[m[1]][n].seq = m[2]
    BY DEF OffsetsImplyOutput
  <2>2. CoreInv /\ RecordsInv
    BY <2>1 DEF DecisionInv, OutcomeInv
  <2>3. RegistryOk(Now) /\ OffsOk(Now, decided)
    BY <2>1 DEF StoreInv, StoreOk
  <2>4. GoffOk(x, decided) /\ (Unfit(Now) \/ WholeIn(log, x[1], x[2], decided[x[1]][x[2]].msgs))
    BY <2>1, <2>3, NowNext DEF OffsOk
  <2>5. ~Unfit(Now)
    BY <2>1, <2>3, NowNext DEF RegistryOk, Unfit
  <2>6. x[1] \in TxnClients /\ m \in Numbered
    <3>1. DOMAIN decided = Ids
      BY <2>2 DEF CoreInv, DecidedInv
    <3>2. QED
      BY <2>4, <3>1, IdsClients DEF GoffOk
  <2>7. RecordIn(log, x[1], x[2], m) /\ MarkerIn(log, x[1], x[2], m)
    BY <2>1, <2>4, <2>5 DEF WholeIn
  <2>8. Orderly(log[m[1]])
    BY <2>2, <2>6 DEF RecordsInv, Numbered
  <2>9. QED
    BY <2>6, <2>7, <2>8, HasRecord DEF RecordIn, MarkerIn, RecordsOf, MarkersOf
<1>2. QED
  BY <1>1, DecisionInvariant, StoreInvariant, PTL
=============================================================================
