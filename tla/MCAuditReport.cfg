\* The report and the period it is asked for.
SPECIFICATION Spec
CONSTANTS
    a1 = a1
    MCEvents = {1, 2, 3}
    EventIds = {1, 2, 3}
    Records <- MCRecords
    NoRecord = NoRecord
    Cids = {1, 2, 3}
    IndexKeys <- MCIndexKeys
    PinEnabled = TRUE
    PageSizes = {}
    ReportLimit = 3
    Windows <- MCWindows
    Alterable = {}
    MaxAlterations = 0
INVARIANT
    ReportIsOfItsPeriod
