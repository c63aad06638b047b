SPECIFICATION Spec
CONSTANTS
    Requests = {r1, r2}
    NULL = NULL
    CMD_TERM = CMD_TERM
    MaxOpens = 2
INVARIANTS RequestOwned ClosedReleases
PROPERTY CallsReturn
\* the opener may stop after its last close
CHECK_DEADLOCK FALSE
