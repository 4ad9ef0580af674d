SPECIFICATION Spec
CONSTANTS
    d1 = d1
    Device = {d1}
    HookOutlivesStop = FALSE
    MaxEvent = 2
INVARIANTS TypeOK 
PROPERTIES OperationalAtLast  NoGhost 
CHECK_DEADLOCK FALSE
