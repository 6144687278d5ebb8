\* Two replicas, each of the configurations, an exit of its own for each.
CONSTANTS
    Replicas = {m1, m2}
    Configs <- MCConfigs
    MaxRestarts = 1
SPECIFICATION FairSpec
INVARIANTS TypeOK CertificatesFirst RegisteredIsConsistent
PROPERTIES ComesUpOrFails
