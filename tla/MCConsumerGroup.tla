--------------------------- MODULE MCConsumerGroup ---------------------------
(* Two consumers; partition 0 holds two records, the others none. *)
EXTENDS ConsumerGroup

MCLogEnd == [p \in Partitions |-> IF p = 0 THEN 2 ELSE 0]
=============================================================================
