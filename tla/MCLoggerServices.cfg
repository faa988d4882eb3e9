\* Every service fails in every way, with retries and a crash.
SPECIFICATION FairSpec
CONSTANTS
    e1 = e1
    e2 = e2
    a1 = a1
    a2 = a2
    w1 = w1
    w2 = w2
    Workers <- MCWorkers
    NoWorker = NoWorker
    Messages <- MCMessages
    Severities <- MCSeverities
    MaxTopic = 1
    MaxRetries = 2
    MaxFaults = 1
    Faults = {"ipfs", "ipfs_gc", "key", "fabric", "redis", "redis_ttl", "dlq", "crash"}
    PinEnabled = TRUE
    ContractFunctions <- ContractWithLogEvent
    NoRecord = NoRecord
INVARIANTS
    IndexMatchesLedger
    EvidenceRetrievable
PROPERTIES
    KeepsStore
    EventuallyDone
\* Once every message is committed the workers only poll.
CHECK_DEADLOCK FALSE
