SPECIFICATION Spec
CONSTANTS
    m1 = m1
    m2 = m2
    r1 = r1
    r2 = r2
    Checks = 1
    Threshold = 2
    Cap = 1
    CooldownTicks = 0
    Monitors = {m1}
    Requests = {r1}
    NumChecks <- EachChecks
    Recovery <- RunOnly
    FailureThreshold <- EachThreshold
    MaxRecoveryAttempts <- EachCap
    Cooldown <- EachCooldown
    EventsMaxEntries = 1
    TicksPerSecond = 1
    SaveOutcomes = {"saved", "stateOld", "eventsOld", "eventsNew"}
    EnabledSets <- AllOn
    MaxTime = 0
    MaxHalts = 1
    MaxFailures = 2
INVARIANTS
    RecoveryBudget
    ActionsAreDurable
    UnsavedHistoryIsDirty
PROPERTIES
    KeepsPolicy
    OnlyAnEndStrands
