-------------------------- MODULE DiskLogWorkloads --------------------------
(***************************************************************************)
(* The combinations of callers and policies for which the disk log keeps   *)
(* its promises.  The theorems assume them and the passing run's instance  *)
(* is checked to have no other.                                            *)
(***************************************************************************)
EXTENDS DiskLog

\* A partition has one kind of writer: acks=0, acks=1 on a standalone broker, or replication, the
\* only one that installs compacted ranges.  The timed roll, which takes the assigned offset as the
\* base of the next segment, meets neither queued records nor those of a failed write, whose
\* offsets are still below it.
ASSUME WorkloadsAssumption ==
    \A w \in Workloads :
        /\ \A a, c \in w \cap {"queued", "direct", "replicated"} : a = c
        /\ "range" \in w => "replicated" \in w
        /\ "roll" \in w => {"queued", "fault"} \cap w = {}
=============================================================================
