\* Replicas of one version, pods without a proxy of their own.
CONSTANTS
    Replicas = {m1, m2}
    NativeChoices <- Uniform
    Pods <- MCPods
    Accounts <- MCAccounts
    Added <- MCAdded
    Config <- MCConfig
    Text <- Strings
    MaxUpdates = 1
    Absent = Absent
    Junk = Junk
SPECIFICATION Spec
CHECK_DEADLOCK FALSE
INVARIANTS TypeOK EveryContainerConfigured ReinvocationIdempotent NamesStayDistinct
    ProxyStartsFirst OneIdentity
PROPERTIES NothingOverridden LagIsNoReason
