SPECIFICATION LiveSpec
CONSTANTS
    m1 = m1
    m2 = m2
    r1 = r1
    r2 = r2
    Checks = 1
    Threshold = 1
    Cap = 0
    CooldownTicks = 0
    Monitors = {m1}
    Requests = {r1}
    NumChecks <- EachChecks
    Recovery <- RunOnly
    FailureThreshold <- EachThreshold
    MaxRecoveryAttempts <- EachCap
    Cooldown <- EachCooldown
    EventsMaxEntries = 1
    TicksPerSecond = 1
    SaveOutcomes = {"saved", "stateOld"}
    EnabledSets <- SomeOn
    MaxTime = 0
    MaxHalts = 0
    MaxFailures = 1
PROPERTIES
    RequestsAnswered
    MonitorsStayWatched
