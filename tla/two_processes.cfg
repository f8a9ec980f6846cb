\* The serve process beside a CLI update.
SPECIFICATION Spec
CONSTANTS
    scheduler = scheduler
    handler = handler
    serve = serve
    cli = cli
    Callers = {scheduler, handler}
    Processes = {serve, cli}
    ProcessOf <- SchedulerAndCLI
    Contents = {c1, c2}
    NoFile = NoFile
    NoCaller = NoCaller
    Foreign = Foreign
    Down = Down
    BackupRetention = 1
    MaxTx = 2
    MaxCrashes = 1
    MaxLate = 1
    MaxUnremoved = 0
INVARIANT OneTransaction
