\* The default timeouts, and short ones with up to two fields changed.
SPECIFICATION Spec
CONSTANTS
    Configs <- MCConfigs
    Endless = 40
INVARIANTS
    TypeOK
    StartsSound
    RollbackWithinBudget
    AnsweredInTime
\* A refused configuration ends the process.
CHECK_DEADLOCK FALSE
