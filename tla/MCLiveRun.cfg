\* Every kind of fault, two of them in all, in any order and at any step.
SPECIFICATION FairSpec
CONSTANTS
    MaxChannels = 3
    MaxPairs = 3
    MaxFaults = 2
    ContractFunctions = {"LogSecurityEvent", "LogEvent"}
    Faults = {"torn", "volume", "unreachable", "not_found", "crash", "loss", "teardown", "skip", "service", "interrupt"}
INVARIANTS
    TypeOK
    ServedByLiveLedger
    CachedRecordsVerify
PROPERTIES
    AgentPairIsKept
    LiveLedgerIsKept
    RerunConverges
    SampleIsSettled
\* Once the services run, run.py does nothing more.
CHECK_DEADLOCK FALSE
