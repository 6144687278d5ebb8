\* Three requests, two clients, room for one entry.
CONSTANTS
    Requests = {r1, r2, r3}
    Clients = {c1, c2}
    NoClient = NoClient
    EnvClient = c1
    NoRequest = NoRequest
    NoCred = NoCred
    CacheSize = 1
SPECIFICATION FairSpec
INVARIANTS TypeOK FreshOwnCred CacheHoldsNewest
PROPERTIES NoNeedlessCreate ImplementsCredStore CredReturned
CHECK_DEADLOCK FALSE
