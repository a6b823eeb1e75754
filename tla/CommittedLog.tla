---------------------------- MODULE CommittedLog ----------------------------
(***************************************************************************)
(* What a partition promises its clients: one log of committed records     *)
(* that only grows, and strong acknowledgements (acks=all) that name the   *)
(* record committed at the acknowledged offset.  PartitionReplication      *)
(* implements it with the leader's log up to the committed HWM.            *)
(***************************************************************************)
EXTENDS Naturals, Sequences

VARIABLES
    entries,        \* the committed records, entries[k] at offset k - 1
    acks            \* the <<record, offset + 1>> pairs strongly acknowledged

Init == entries = <<>> /\ acks = {}

\* Records become committed after the ones that are.
Commit ==
    /\ Len(entries') > Len(entries)
    /\ SubSeq(entries', 1, Len(entries)) = entries
    /\ UNCHANGED acks

\* A producer learns that its record is committed.
Acknowledge ==
    /\ \E k \in DOMAIN entries : acks' = acks \cup {<<entries[k], k>>}
    /\ UNCHANGED entries

Next == Commit \/ Acknowledge

Spec == Init /\ [][Next]_<<entries, acks>>

=============================================================================
