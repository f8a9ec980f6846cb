\* serve is stopped while its scheduler updates.
SPECIFICATION Spec
CONSTANTS
    Contents = {c1}
    NoFile = NoFile
    Requests = {r1}
    scheduler = scheduler
    Nobody = Nobody
    MaxTicks = 1
CHECK_DEADLOCK FALSE
PROPERTY StopCutsNoSwitch
