\* Interleaved endorsements and commits of three transactions.
SPECIFICATION Spec
CONSTANTS
    e1 = e1
    e2 = e2
    a1 = a1
    a2 = a2
    org1 = org1
    org2 = org2
    t1 = t1
    t2 = t2
    t3 = t3
    EventIds <- MCEventIds
    Assets <- MCAssets
    Severities <- MCSeverities
    Times <- MCTimes
    NoTime = 0
    Msps <- MCMsps
    AuthorizedMsp <- org1
    TxIds <- MCTxIds
    NoRecord = NoRecord
    p1 = p1
    Payloads <- MCPayloads
SYMMETRY Symmetry
INVARIANTS
    TypeOK
    ValidTxKept
    InvalidOnlyIfTaken
    Provenance
PROPERTIES
    ImplementsTrail
    HistoryNeverShrinks
\* Every transaction ends valid or invalid: the system may stop.
CHECK_DEADLOCK FALSE
