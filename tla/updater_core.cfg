\* The serve process: scheduler and API handler, every fault once, and the
\* timeouts that make every call end.
SPECIFICATION FairSpec
CONSTANTS
    scheduler = scheduler
    handler = handler
    serve = serve
    cli = cli
    Callers = {scheduler, handler}
    Processes = {serve}
    ProcessOf <- OneProcess
    Contents = {c1, c2}
    NoFile = NoFile
    NoCaller = NoCaller
    Foreign = Foreign
    Down = Down
    BackupRetention = 1
    MaxTx = 3
    MaxCrashes = 1
    MaxLate = 1
    MaxUnremoved = 0
INVARIANTS
    TypeOK
    OneTransaction
    BusyCoversWork
    ValidatedIsLive
    PreviousConfigKept
    SuccessPrunesBackups
    RollbackFailsOnlyByFault
    ReportedConfigRuns
PROPERTIES
    TransactionRefinement
    EveryTransactionEnds
    SuccessEventuallyRuns
