\* A page, one token and none, sessions of one second in half seconds.
SPECIFICATION FairSpec
CONSTANTS
    TTL = 2
    Second = 2
    Tokens = {t1}
    NoToken = NoToken
    NoCookie = NoCookie
    Requests = 2
    None = None
    MaxClicks = 3
    MaxRecords = 2
    MaxTime = 2
    MaxRestarts = 1
INVARIANTS
    TypeOK
    DashboardHasData
PROPERTIES
    ActionShowsOutcome
    SessionLifetime
    PageSettles
\* Nobody has to use the page.
CHECK_DEADLOCK FALSE
