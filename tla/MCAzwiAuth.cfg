\* One command and three changes of the CLI's account.
CONSTANTS
    public = public
    china = china
    u1 = u1 u2 = u2 u3 = u3
    t1 = t1 t2 = t2
    None = None
    Malformed = Malformed
    Clouds = {public, china}
    AzureCloud = public
    Subscriptions = {u1, u2, u3}
    Tenants = {t1, t2}
    TenantOf <- MCTenantOf
    Flags <- MCFlags
    MaxSwitches = 3
    MaxCalls = 2
SPECIFICATION Spec
CHECK_DEADLOCK FALSE
INVARIANTS TypeOK OneTenant SubscriptionWasCurrent
