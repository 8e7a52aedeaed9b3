SPECIFICATION ChecksSpec
CONSTANTS
    c1 = c1
    c2 = c2
    h1 = h1
    h2 = h2
    h3 = h3
    v1 = v1
    v2 = v2
    app = app
    python = python
    Children = {c1, c2}
    ExitCodes <- SomeCodes
    MaxOutput = 3
    MaxWritten = 4
    Hosts = {h1, h2, h3}
    Configurations <- Targets
    Codes = {0, 1, 255}
    Logs <- SomeLogs
    Values = {v1, v2}
    NoValue = NoValue
    Rules <- SomeRules
    Pids = {p1, p2}
    Files = {"device"}
    PathLists <- OnceOrTwice
    Commands = {app, python}
    AllowLists = {{}, {app}}
    Name <- Names
    Nothing = Nothing
    Expected = {0, 1, 255}
    Outputs <- SomeOutputs
CHECK_DEADLOCK FALSE
INVARIANTS
    RunningContainerPasses
