SPECIFICATION Spec
CONSTANTS
    Processes = {serve, cli}
    Retention = 2
    Written = 3
    MaxRecords = 5
    MaxCrashes = 0
    NoFile = NoFile
    Torn = Torn
CHECK_DEADLOCK FALSE
INVARIANTS
    AcknowledgedSurvives
