\* A single request and a batch, or two of either, on a queue shorter than a batch.
SPECIFICATION FairSpec
CONSTANTS
    MaxRequests = 2
    MaxBatch = 3
    QueueLimit = 2
    MaxFaults = 2
    Faults = {"refused", "broker", "ack", "kill", "no_client"}
INVARIANTS
    TypeOK
    AcceptedIsKept
    RejectedIsNotForwarded
    ForwardedOnce
    AnsweredBatchIsSettled
PROPERTY
    EventuallyForwarded
