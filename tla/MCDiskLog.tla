------------------------------ MODULE MCDiskLog ------------------------------
(* Records of one key, with and without an idempotent producer. *)
EXTENDS DiskLogWorkloads

MCKinds == {[key |-> "k", prod |-> "p"], [key |-> "k", prod |-> None]}
=============================================================================
