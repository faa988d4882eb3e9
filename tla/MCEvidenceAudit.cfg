\* Three runs of two events: two at once, and a third that repeats or follows, some of
\* them the benchmark's; and one audit at any moment.  The model ends when they do.
SPECIFICATION AuditSpec
CHECK_DEADLOCK FALSE
CONSTANTS
    MaxEvents = 2
    MaxRuns = 3
    MaxAtOnce = 2
    MaxFaults = 1
    Faults = {"crash", "pki", "ipfs", "fabric", "gateway"}
    NoEvent = NoEvent
    NoPayload = NoPayload
    NoRecord = NoRecord
INVARIANTS
    TypeOK
    RecordsPassIntegrity
    EvidenceDecrypts
    SuccessIsLogged
    AuditAgreesWithRuns
