SPECIFICATION MCFairSpec
CONSTANTS
    Tasks = {t1, t2}
    FailureThreshold = 1
    RecoveryTimeout = 1
    HalfOpenMax = 1
PROPERTY HalfOpenAlwaysDecides
