\* Three runs one after another with up to date listings, or two at the same
\* time with stale ones.
CONSTANTS
    Apps = {a1, a2}
    Other = Other
    Absent = Absent
    Empty = Empty
    None = None
    NotFound = NotFound
    Outage = Outage
    Runs = {1, 2, 3}
    Choices <- MCChoices
    Plans <- MCPlans
    RoleAttempts = 2
SPECIFICATION Spec
CHECK_DEADLOCK FALSE
INVARIANTS TypeOK OneApplication OnePrincipal TrustMatchesAnnotation
PROPERTY AnnotationKept
