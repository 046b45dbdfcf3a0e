SPECIFICATION MCFairSpec
CONSTANTS
    Tasks = {t1, t2}
    FailureThreshold = 2
    RecoveryTimeout = 2
    HalfOpenMax = 2
INVARIANTS NoEarlyTrip ProbeBudget
PROPERTIES ImplementsLifecycle OpenIsTried HalfOpenDecides
