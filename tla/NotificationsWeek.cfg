SPECIFICATION Spec
CONSTANTS
    \* Two views of one user in a process that is ahead of Los Angeles.
    Event = {e1, e2}
    Viewer = {v}
    External = {}
    Owner = Owner
    Nobody = Nobody
    Day = 2
    Offset = 1
    StartTime = 10
    MaxTime = 14
    MayFail = FALSE
INVARIANT
    ViewerOncePerWeek
CHECK_DEADLOCK FALSE
