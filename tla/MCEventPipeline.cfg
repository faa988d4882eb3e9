\* Two events, in one request or in a batch on a queue of one; the partition moves once
\* and the adapter has one fault.
SPECIFICATION FairPipelineSpec
CONSTANTS
    e1 = e1
    e2 = e2
    a1 = a1
    w1 = w1
    w2 = w2
    Workers <- MCWorkers
    NoWorker = NoWorker
    Messages <- MCMessages
    Severities <- MCSeverities
    MaxTopic = 3
    MaxRetries = 1
    MaxFaults = 1
    Faults = {"steal"}
    PinEnabled = TRUE
    ContractFunctions <- MCContract
    NoRecord = NoRecord
    MaxRequests = 1
    MaxBatch = 2
    QueueLimit = 1
    MaxDetectorFaults = 1
    DetectorFaults = {"refused", "ack", "kill"}
    Carries <- MCCarries
INVARIANT
    LoggedWasAccepted
PROPERTY
    AcceptedIsQueryable
\* Everything has stopped once no request is left.
CHECK_DEADLOCK FALSE
