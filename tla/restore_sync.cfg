\* A restore whose switch fails after the rename.
SPECIFICATION Spec
CONSTANTS
    scheduler = scheduler
    handler = handler
    serve = serve
    cli = cli
    Callers = {scheduler, handler}
    Processes = {serve}
    ProcessOf <- OneProcess
    Contents = {c1, c2}
    NoFile = NoFile
    NoCaller = NoCaller
    Foreign = Foreign
    Down = Down
    BackupRetention = 1
    MaxTx = 2
    MaxCrashes = 0
    MaxLate = 1
    MaxUnremoved = 0
INVARIANT UnconfirmedSwitchIsUndone
