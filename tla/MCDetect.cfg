\* Two runs in small namespaces, in which two things are deleted meanwhile.
CONSTANTS
    s1 = s1 s2 = s2
    i1 = i1 i2 = i2 i3 = i3
    c1 = c1 c2 = c2 c3 = c3
    None = None
    Gone = Gone
    Broken = Broken
    Default = Default
    Selectors = {s1, s2}
    Clusters <- MCClusters
    Bindings <- MCBindings
    Identities <- MCIdentities
    Parts <- MCParts
    Names <- MCNames
    MaxRuns = 2
    MaxDeletes = 2
SPECIFICATION Spec
CHECK_DEADLOCK FALSE
INVARIANTS TypeOK AccountFirst DoneMeansMigrated WholeFiles RerunStable
PROPERTIES LookupFirst
