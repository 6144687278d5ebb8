\* One replica that is not restarted.
CONSTANTS
    Replicas = {m1}
    Configs <- MCPlain
    MaxRestarts = 0
SPECIFICATION Spec
INVARIANT ReadyWhenRegistered
