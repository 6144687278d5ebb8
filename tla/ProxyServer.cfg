\* A pod with two requests, whose proxy is started three times at most.
CONSTANTS
    Requests = {q1, q2}
    RetryCount = 3
    MaxStarts = 3
    MaxCrashes = 1
SPECIFICATION FairSpec
CHECK_DEADLOCK FALSE
INVARIANTS TypeOK PartialIsError NoRefusal
PROPERTIES CutOnlyLate Terminates
