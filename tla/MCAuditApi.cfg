\* Three events of one asset, with every alteration of a cached record in up to three parts;
\* another event's whole record may stand in its place.
SPECIFICATION Spec
CONSTANTS
    a1 = a1
    MCEvents = {1, 2, 3}
    EventIds = {1, 2, 3}
    Records <- MCRecords
    NoRecord = NoRecord
    Cids = {1, 2, 3}
    IndexKeys <- MCIndexKeys
    PinEnabled = TRUE
    PageSizes = {0, 1, 2}
    ReportLimit = 1
    Windows <- MCWindows
    Alterable = {3}
    MaxAlterations = 3
INVARIANTS
    TypeOK
    AnswerIsSound
    AnswerIsComplete
    ValidIsGenuine
    GenuineIsNotRefuted
