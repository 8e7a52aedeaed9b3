SPECIFICATION Spec
CONSTANTS
    m1 = m1
    m2 = m2
    r1 = r1
    r2 = r2
    Checks = 1
    Threshold = 1
    Cap = 1
    CooldownTicks = 2
    Monitors = {m1}
    Requests = {r1}
    NumChecks <- EachChecks
    Recovery <- RunOnly
    FailureThreshold <- EachThreshold
    MaxRecoveryAttempts <- EachCap
    Cooldown <- EachCooldown
    EventsMaxEntries = 1
    TicksPerSecond = 2
    SaveOutcomes = {"saved", "stateOld"}
    EnabledSets <- AllOn
    MaxTime = 2
    MaxHalts = 1
    MaxFailures = 1
INVARIANTS
    EventsNeverAheadOfState
PROPERTIES
    CooldownRespected
