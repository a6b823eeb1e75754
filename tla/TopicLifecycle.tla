---------------------------- MODULE TopicLifecycle ----------------------------
(***************************************************************************)
(* CREATE, DELETE and TRUNCATE of a standalone broker's topic (TopicManager*)
(* in pkg/topic, handleCreate, handleDelete and handleTruncate in          *)
(* pkg/controller) and what startup makes of one that was interrupted.     *)
(* Each command is a sequence of steps on the manifest, the topic's        *)
(* directory, the consumer groups and the transaction journal; the process *)
(* may be killed inside any of them, and a step may fail.  DELETE and      *)
(* TRUNCATE exclude every other command (topicLifecycleMu).                *)
(***************************************************************************)
EXTENDS EventSource

CONSTANT MaxGenerations    \* bound: the topic's generations

ASSUME LifecycleConstants == MaxGenerations \in Nat

VARIABLES
    manifest,     \* the topic's definition in the metadata store, or NoTopic
    files,        \* its directory: the partitions with a log, and the lifecycle epoch marker
    registered,   \* some consumer group refers to the topic
    shown         \* the generation last served to clients

lifecycleVars == <<manifest, files, registered, shown>>

NoTopic == [rev |-> 0, epoch |-> 0, parts |-> 0, gen |-> 0]
Emptied == [logs |-> {}, marker |-> 0]
NoSnapshots == [open |-> FALSE, version |-> 0, torn |-> None]

LifecycleInit ==
    /\ manifest = [rev |-> 1, epoch |-> 1, parts |-> topic.parts, gen |-> 1]
    /\ files = [logs |-> 1 .. topic.parts, marker |-> 0]
    /\ registered = TRUE /\ shown = 1

\* Everything a lifecycle command changes.
Now ==
    [topic |-> topic, manifest |-> manifest, files |-> files, log |-> log, producers |-> producers,
     index |-> index, snap |-> snap, registered |-> registered, goff |-> goff, txns |-> txns,
     journal |-> journal, tail |-> tail]
Become(s) ==
    /\ topic' = s.topic /\ manifest' = s.manifest /\ files' = s.files /\ log' = s.log
    /\ producers' = s.producers /\ index' = s.index /\ snap' = s.snap
    /\ registered' = s.registered /\ goff' = s.goff /\ txns' = s.txns
    /\ journal' = s.journal /\ tail' = s.tail

(***************************************************************************)
(* The steps.                                                              *)
(***************************************************************************)
\* stateWithoutTopicReferencesLocked
References(tx) == tx.msgs # <<>> \/ tx.offs # 0
Stripped(tx) == [tx EXCEPT !.msgs = <<>>, !.offs = 0]

\* deleteTopicLogDirLocked with some of the files left; resetTopicStorageLocked first takes the
\* topic out of the registry.
RemoveStorage(s, kept, snapKept) ==
    [s EXCEPT !.topic.reg = FALSE, !.topic.gen = @ + 1, !.files = kept,
              !.log = [p \in Partitions |-> IF p \in kept.logs THEN s.log[p] ELSE <<>>],
              !.producers = [p \in Partitions |-> << >>],
              !.index = Closed, !.snap = IF snapKept THEN s.snap ELSE NoSnapshots]

\* newTopicWithDefinition: every partition's log is opened, or created, and scanned for producers.
Open(s) ==
    [s EXCEPT !.topic.reg = TRUE, !.topic.parts = s.manifest.parts,
              !.files.logs = @ \cup (1 .. s.manifest.parts),
              !.producers = [p \in Partitions |-> RecoverProducers(s.log[p])]]

\* closeEventSourcingTopic
CloseStream(s) == [s EXCEPT !.index = Closed, !.snap.open = FALSE]

\* TruncateTopicDurable up to its commit point: the manifest's next revision and epoch, and the fence.
CommitTruncation(s) ==
    [s EXCEPT !.manifest.rev = @ + 1, !.manifest.epoch = @ + 1,
              !.manifest.gen = s.topic.gen + 1, !.topic.fenced = TRUE]

\* DeleteTopicDurable up to its commit point.
Unregister(s) == [s EXCEPT !.manifest = NoTopic, !.topic.reg = FALSE]

\* DeleteInactiveGroupsForTopic
DeleteGroups(s) == [s EXCEPT !.registered = FALSE, !.goff = {}]

\* applyStandaloneTopicDependencyCleanup: PruneTopicReferences and the journal's Rewrite.
PruneReferences(s) ==
    LET stripped == [i \in Ids |-> Stripped(s.txns[i])]
    IN  [s EXCEPT !.txns = stripped, !.journal = stripped, !.tail = <<>>]

\* writeLifecycleEpochMarkerLocked
WriteMarker(s) == [s EXCEPT !.files.marker = s.manifest.epoch]

\* CompleteTruncation: the epoch marker in the new directory, then the fence goes.
CompleteTruncation(s) == IF s.topic.reg THEN [WriteMarker(s) EXCEPT !.topic.fenced = FALSE] ELSE s

\* prepareTruncationRecoveryLocked, behind its removal of the storage.
FenceTruncation(s) == [s EXCEPT !.topic.fenced = TRUE]

\* The directories and logs of the partitions, before the definition that names them.
CreateLogs(s) == [s EXCEPT !.files.logs = Partitions]

\* RegisterGroup of the default group.
RegisterDefault(s) == [s EXCEPT !.registered = TRUE]

\* persistDefinitionLocked for a new topic, and for one with more partitions.
Define(s) ==
    [s EXCEPT !.manifest = [rev |-> 1, epoch |-> 1, parts |-> NumPartitions, gen |-> s.topic.gen + 1],
              !.topic.gen = @ + 1]
Alter(s) == [s EXCEPT !.manifest.rev = @ + 1, !.manifest.parts = NumPartitions]

Step(s, what) ==
    CASE what = "close"      -> CloseStream(s)
      [] what = "commit"     -> CommitTruncation(s)
      [] what = "fence"      -> FenceTruncation(s)
      [] what = "unregister" -> Unregister(s)
      [] what = "remove"     -> RemoveStorage(s, Emptied, FALSE)
      [] what = "open"       -> Open(s)
      [] what = "groups"     -> DeleteGroups(s)
      [] what = "journal"    -> PruneReferences(s)
      [] what = "complete"   -> CompleteTruncation(s)
      [] what = "logs"       -> CreateLogs(s)
      [] what = "define"     -> Define(s)
      [] what = "alter"      -> Alter(s)
      [] what = "default"    -> RegisterDefault(s)

\* What a step leaves when it ends in the middle: directories are not changed atomically.
Partly(s, what) ==
    CASE what = "remove" -> {RemoveStorage(s, left.files, left.snap) :
                                left \in [files : [logs : SUBSET s.files.logs, marker : {0, s.files.marker}],
                                          snap  : BOOLEAN]}
      [] what = "logs"   -> {[s EXCEPT !.files.logs = @ \cup l] : l \in SUBSET Partitions}
      [] what = "open"   -> {[s EXCEPT !.files.logs = @ \cup l] : l \in SUBSET (1 .. s.manifest.parts)}
      [] OTHER           -> {s}

\* What is still done after a step failed: the dependencies of removed storage are cleaned, and
\* handleTruncate completes whether they could be or not.
Rest(op, failed) ==
    IF failed \in {"remove", "open"} /\ op # "restore" THEN <<"groups", "journal", "complete">>
    ELSE IF failed \in {"groups", "journal"} /\ op = "truncate" THEN <<"complete">>
    ELSE <<>>

\* CREATE has opened the partitions before their definition is persisted.
MayFail(op, what) ==
    \/ Does("ioerr") /\ what \in {"commit", "unregister", "remove", "open", "logs", "define", "alter"}
         /\ ~(op = "create" /\ what = "open")
    \/ Does("tombstone") /\ what \in {"groups", "journal"}

Run(s, steps) ==
    LET done[n \in 0 .. Len(steps)] == IF n = 0 THEN s ELSE Step(done[n - 1], steps[n])
    IN  done[Len(steps)]
Shows ==
    shown' = IF up' = "up" /\ topic'.reg /\ ~topic'.fenced THEN manifest'.gen ELSE shown

\* The steps in turn; or the process is killed inside one; or one fails, which ends startup.
Perform(op, steps, then) ==
    /\ \/ Become(Run(Now, steps)) /\ up' = then /\ UNCHANGED faults
       \/ \E n \in DOMAIN steps :
            LET before == Run(Now, SubSeq(steps, 1, n - 1)) IN
            /\ Fault
            /\ \E s \in Partly(before, steps[n]) :
                 \/ Does("crash") /\ up' = "killed" /\ Become(s)
                 \/ /\ MayFail(op, steps[n]) /\ up' = (IF then = "up" THEN "up" ELSE "killed")
                    /\ Become(Run(s, Rest(op, steps[n])))
    /\ Shows
    /\ UNCHANGED <<work, producerVars, job, client, group, told, decided, forgot, writer, appended>>

(***************************************************************************)
(* The commands.                                                           *)
(***************************************************************************)
Exclusive == (\A i \in Ids : ~Locked(i)) /\ \A c \in Writers : writer[c].at = "idle"

\* prepareStandaloneTopicDependencies: members of a group and unfinished transactions.
Blocked ==
    \/ Does("offsets") /\ group.member
    \/ \E i \in Ids : References(txns[i]) /\ ~txns[i].expired /\ txns[i].state \in {"open", "committing"}

\* handleTruncate at the topic's revision, or again while its cleanup is pending.
Truncate ==
    /\ Does("truncate") /\ up = "up" /\ Exclusive /\ ~Blocked
    /\ \/ /\ topic.reg /\ ~topic.fenced /\ topic.gen < MaxGenerations
          /\ Perform("truncate", <<"close", "commit", "remove", "open", "groups", "journal", "complete">>, "up")
       \/ /\ topic.fenced
          /\ Perform("truncate", <<"close", "remove", "open", "groups", "journal", "complete">>, "up")

\* handleDelete; of a missing topic (if_exists) only the dependencies are cleaned.
Delete ==
    /\ Does("delete") /\ up = "up" /\ Exclusive /\ ~Blocked /\ ~topic.fenced
    /\ Perform("delete", (IF topic.reg THEN <<"close", "unregister", "remove">> ELSE <<>>)
                             \o <<"groups", "journal">>, "up")

\* handleCreate of a missing topic without ensureTopicRecreationIsClean.
RecreateAnyway == TRUE

\* ensureTopicRecreationIsClean
RecreationIsClean == ~registered /\ goff = {} /\ \A i \in Ids : ~References(txns[i])

\* handleCreate of a missing topic: CreateTopicWithPatch, which rejects orphaned storage, and the
\* default group.
Create ==
    /\ Does("create") /\ up = "up" /\ ~topic.reg /\ ~topic.fenced /\ topic.gen < MaxGenerations
    /\ RecreationIsClean /\ files.logs = {}
    /\ Perform("create", <<"logs", "define", "open", "default">>, "up")

\* handleCreate of an existing topic: applyFullDefinition stages the partitions that are missing.
Grow ==
    /\ Does("grow") /\ up = "up" /\ topic.reg /\ ~topic.fenced /\ topic.parts < NumPartitions
    /\ Perform("create", <<"logs", "alter", "open", "default">>, "up")

(***************************************************************************)
(* Startup.                                                                *)
(***************************************************************************)
\* lifecycleEpochResetPendingConfig that trusts the directory it finds.
NothingPending == FALSE

\* lifecycleEpochResetPendingConfig: the directory is not of the manifest's epoch.
ResetPending == manifest.epoch > 1 /\ files.marker # manifest.epoch

\* Load (orphanedTopicDirectories, validateDeclaredTopicStorage) accepts the storage; startup
\* fails otherwise.
StorageConsistent ==
    IF manifest = NoTopic THEN files.logs = {}
    ELSE /\ manifest.epoch > 1 => files.marker <= manifest.epoch
         /\ ResetPending \/ files.logs = 1 .. manifest.parts

\* RestoreTopics: an unfinished truncation is fenced and its storage reset
\* (prepareTruncationRecoveryLocked).
RestoreTopics ==
    /\ up = "down" /\ StorageConsistent
    /\ Perform("restore", IF manifest = NoTopic THEN <<>>
                          ELSE IF ResetPending THEN <<"remove", "fence", "open">> ELSE <<"open">>, "recover")

\* RecoverPendingTruncations
RecoverPendingTruncations ==
    /\ up = "recover" /\ topic.fenced /\ ~Blocked
    /\ Perform("recover", <<"close", "remove", "open", "groups", "journal", "complete">>, "recover")

LifecycleStep == Truncate \/ Delete \/ Create \/ Grow \/ RestoreTopics \/ RecoverPendingTruncations

(***************************************************************************)
(* Properties.                                                             *)
(***************************************************************************)
\* A recreated or truncated topic starts from nothing: the step that first serves a generation
\* leaves no record, producer, snapshot, committed offset or transaction of an earlier one, however
\* often the command that made it was interrupted, failed or was repeated.
CleanSlate ==
    [][shown' # shown =>
         /\ \A p \in Partitions : log'[p] = <<>> /\ producers'[p] = << >>
         /\ index'.at = <<>> /\ snap'.version = 0
         /\ goff' = {} /\ \A i \in Ids : ~References(txns'[i])]_<<shown, log>>

\* Whatever is interrupted is finished: again and again the broker is up and no durable decision to
\* commit is left undone (protocol-spec: a broker that restores committing state retries the prepared
\* work; startup resumes the cleanup of a truncation).  Staged offsets can lose their group membership,
\* a CREATE, DELETE or new partition interrupted in the topic's directory stops startup, and the epoch 0
\* of an id that was forgotten is stale wherever an earlier session has written.
Interruptible == {"offsets", "create", "delete", "grow"} \cap work = {} /\ forgot = {}
RestartFinishes ==
    []<>(Interruptible => up = "up" /\ \A i \in Ids : journal[i].state # "committing")
=============================================================================
