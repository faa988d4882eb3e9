\* The certificate cannot be read when the key is first loaded.
SPECIFICATION Spec
CONSTANTS
    e1 = e1
    e2 = e2
    a1 = a1
    a2 = a2
    w1 = w1
    w2 = w2
    Workers <- MCWorkers
    NoWorker = NoWorker
    Messages <- MCGoodMessages
    Severities <- MCSeverities
    MaxTopic = 1
    MaxRetries = 2
    MaxFaults = 0
    Faults = {"key"}
    PinEnabled = TRUE
    ContractFunctions <- ContractWithLogEvent
    NoRecord = NoRecord
INVARIANT
    RecordsVerify
\* Once every message is committed the workers only poll.
CHECK_DEADLOCK FALSE
