\* The rollback of a first configuration.
SPECIFICATION Spec
CONSTANTS
    scheduler = scheduler
    handler = handler
    serve = serve
    cli = cli
    Callers = {scheduler, handler}
    Processes = {serve}
    ProcessOf <- OneProcess
    Contents = {c1, c2}
    NoFile = NoFile
    NoCaller = NoCaller
    Foreign = Foreign
    Down = Down
    BackupRetention = 1
    MaxTx = 1
    MaxCrashes = 0
    MaxLate = 1
    MaxUnremoved = 0
INVARIANT RolledBackIsReloaded
