\* serve with its scheduler and a request.
SPECIFICATION FairSpec
CONSTANTS
    Contents = {c1}
    NoFile = NoFile
    Requests = {r1}
    scheduler = scheduler
    Nobody = Nobody
    MaxTicks = 1
CHECK_DEADLOCK FALSE
INVARIANTS
    TypeOK
    AnswersMatchHistory
    StoppedSchedulerNeverSwitches
PROPERTIES
    TickIsTaken
    StopEnds
