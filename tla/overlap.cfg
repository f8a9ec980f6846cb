\* What is left of the guarantees when a CLI update overlaps serve.
SPECIFICATION Spec
CONSTANTS
    scheduler = scheduler
    handler = handler
    serve = serve
    cli = cli
    Callers = {scheduler, handler}
    Processes = {serve, cli}
    ProcessOf <- SchedulerAndCLI
    Contents = {c1}
    NoFile = NoFile
    NoCaller = NoCaller
    Foreign = Foreign
    Down = Down
    BackupRetention = 1
    MaxTx = 2
    MaxCrashes = 1
    MaxLate = 0
    MaxUnremoved = 1
INVARIANT LitterHasACause
PROPERTY SwitchIsTested
