SPECIFICATION Spec
CONSTANTS
    Processes = {serve}
    Retention = 2
    Written = 3
    MaxRecords = 6
    MaxCrashes = 2
    NoFile = NoFile
    Torn = Torn
CHECK_DEADLOCK FALSE
INVARIANTS
    TypeOK
    HistoryIsRecent
    FileAlwaysOpens
    AcknowledgedSurvives
    HistoryShowsFile
