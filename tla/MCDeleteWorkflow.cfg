\* Two runs that may overlap, with any remains of create.
CONSTANTS
    Apps = {a1, a2}
    Other = Other
    Absent = Absent
    Empty = Empty
    None = None
    NotFound = NotFound
    Outage = Outage
    Lag = TRUE
    Runs = {1, 2}
    Choices <- MCChoices
    Overlap = TRUE
SPECIFICATION Spec
CHECK_DEADLOCK FALSE
INVARIANTS TypeOK DoneMeansGone NoDanglingAnnotation
