SPECIFICATION QueriesSpec
CONSTANTS
    m1 = m1
    m2 = m2
    m3 = m3
    Configured <- InOrder
    Monitors = {m1, m2}
    EventTypes = {t1, t2}
    Times = {1, 2}
    Unparsed = Unparsed
    Any = Any
    Limits = {0, 1, 3}
    DefaultLimit = 2
    MaxLimit = 2
    EventsMaxEntries = 3
INVARIANTS
    HealthTypeOK
    OverallIsWorst
    CountsAgree
    QueryTypeOK
    AnswerIsExact
PROPERTIES
    HealthIsHonest
