\* One run whose calls may fail.
CONSTANTS
    Apps = {a1, a2}
    Other = Other
    Absent = Absent
    Empty = Empty
    None = None
    NotFound = NotFound
    Outage = Outage
    Runs = {1}
    Choices <- MCFull
    Plans <- MCFullPlan
    RoleAttempts = 2
SPECIFICATION Spec
CHECK_DEADLOCK FALSE
INVARIANT OwnAppAnnotated
