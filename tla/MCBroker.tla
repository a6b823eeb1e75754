------------------------------ MODULE MCBroker ------------------------------
\* The instances of the standalone broker that TLC checks.
EXTENDS Broker

BrokerWorks ==
    {{"produce", "crash"}, {"produce", "delete", "create"}, {"produce", "truncate", "ioerr"},
     {"produce", "disk", "drop", "twice"}, {"produce", "late"}, {"produce", "ttl"},
     {"txn", "crash"}, {"txn", "shared", "journal", "crash"}, {"txn", "shared", "lost", "disk"},
     {"txn", "shared", "offsets", "crash"}, {"txn", "shared", "expire"}, {"txn", "expire"},
     {"txn", "offsets", "rebalance", "truncate"}, {"txn", "truncate", "crash"},
     {"txn", "truncate", "ioerr"}, {"txn", "delete", "create", "crash"},
     {"txn", "delete", "create", "tombstone"}, {"txn", "grow", "crash"},
     {"events", "lost"}, {"events", "plain"}, {"events", "delete", "create"},
     {"events", "solo", "disk", "lost", "twice"}, {"events", "solo", "index", "crash", "twice"},
     {"events", "solo", "truncate", "crash"}}
=============================================================================
