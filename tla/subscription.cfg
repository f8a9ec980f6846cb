SPECIFICATION FairSpec
CONSTANTS
    N = 3
    Documents <- SmallDocuments
    Unusable = Unusable
    NoDocument = NoDocument
    Operator = Operator
    NoName = NoName
    Conflict = Conflict
CHECK_DEADLOCK FALSE
INVARIANTS
    TypeOK
    NoFetchOutlivesBuild
    AllOrNothing
    EntriesSurvive
    FollowsListOrder
    NamesStayUnique
    RefusedForAReason
PROPERTY BuildReturns
