\* The proxy was put into the pod by hand.
CONSTANTS
    Replicas = {m1, m2}
    NativeChoices <- AnyVersion
    Pods <- MCManualPods
    Accounts <- MCAccounts
    Added <- MCAdded
    Config <- MCConfig
    Text <- Strings
    MaxUpdates = 1
    Absent = Absent
    Junk = Junk
SPECIFICATION Spec
CHECK_DEADLOCK FALSE
INVARIANTS NamesStayDistinct
