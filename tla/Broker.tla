------------------------------- MODULE Broker -------------------------------
(***************************************************************************)
(* A standalone broker with its clients: the composition of the partitions *)
(* (PartitionLog), an SDK producer (IdempotentProducer), transactions      *)
(* (Transactions), event streams (EventSource) and the topic's lifecycle   *)
(* (TopicLifecycle), with crashes and restarts (pkg/server/main.go).       *)
(***************************************************************************)
EXTENDS TopicLifecycle

vars == <<work, up, faults, logVars, producerVars, txnVars, streamVars, lifecycleVars>>

Init == LogInit /\ ProducerInit /\ TxnInit /\ StreamInit /\ LifecycleInit

ProducerAlone == UNCHANGED <<work, up, faults, txnVars, streamVars, lifecycleVars>>
TxnAlone == UNCHANGED <<streamVars, lifecycleVars>>

\* RunServer fails or the process dies.
BrokerCrash == Crash /\ StreamRestart /\ UNCHANGED lifecycleVars

\* RunServerContext starts the workers that serve connections once recovery is through.
Serve == Ready /\ UNCHANGED <<streamVars, manifest, files, registered>> /\ Shows

Next ==
    \/ ProducerStep /\ ProducerAlone
    \/ ProducerFault /\ UNCHANGED <<up, txnVars, streamVars, lifecycleVars>>
    \/ TxnStep /\ TxnAlone
    \/ StreamStep /\ UNCHANGED <<work, producerVars, txnVars, lifecycleVars>>
    \/ LifecycleStep \/ BrokerCrash \/ Serve

(***************************************************************************)
(* Fairness: goroutines that can run do; a connection that has failed is   *)
(* reopened in the end when its broker is up; the application retries an   *)
(* END_TXN that was not answered; a broker that stopped is started again.  *)
(***************************************************************************)
SenderStep ==
    \E p \in Partitions : Take(p) \/ Drain(p) \/ Write(p) \/ HandleBatch(p) \/ HandleBatchRefused(p) \/ ReadAck(p)
Fairness ==
    /\ WF_vars(SenderStep /\ ProducerAlone)
    /\ SF_vars((\E p \in Partitions : WriteFails(p)) /\ ProducerAlone)
    /\ WF_vars((\E i \in Ids : TxnApply(i) \/ RecoverTransaction(i)) /\ TxnAlone)
    /\ WF_vars((\E c \in TxnClients : client[c].at = "commit" /\ EndTxnCommit(c)) /\ TxnAlone)
    /\ WF_vars((up = "killed" /\ BrokerCrash) \/ RestoreTopics \/ RecoverPendingTruncations \/ Serve)

Spec == Init /\ [][Next]_vars /\ Fairness
=============================================================================
