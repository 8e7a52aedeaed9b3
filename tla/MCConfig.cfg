SPECIFICATION ConfigSpec
CONSTANTS
    a = a
    spaced = spaced
    b = b
    k = k
    Ids <- RawIds
    Trim <- TrimSpace
    Blank = Blank
    CheckIds = {k}
    Texts = {"own", "set", "default"}
    Documents <- Files
    Environments <- Variables
    Torn = Torn
INVARIANTS
    ConfigTypeOK
    LastDefinitionWins
    SettingsAreCurrent
    EngineCanRun
