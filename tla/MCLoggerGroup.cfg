\* Two workers that crash and lose the partition to each other twice in all,
\* while Fabric and Redis fail and two events may share an id.
SPECIFICATION Spec
CONSTANTS
    e1 = e1
    e2 = e2
    a1 = a1
    a2 = a2
    w1 = w1
    w2 = w2
    Workers <- MCWorkers
    NoWorker = NoWorker
    Messages <- MCMessages
    Severities <- MCSeverities
    MaxTopic = 2
    MaxRetries = 1
    MaxFaults = 2
    Faults = {"fabric", "redis", "crash", "steal"}
    PinEnabled = TRUE
    ContractFunctions <- ContractWithLogEvent
    NoRecord = NoRecord
SYMMETRY WorkerSymmetry
INVARIANTS
    TypeOK
    NoSilentLoss
    RedisMirrorsLedger
PROPERTIES
    LedgerIsTrail
    CommittedNeverRegresses
\* Once every message is committed the workers only poll.
CHECK_DEADLOCK FALSE
