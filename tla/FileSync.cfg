SPECIFICATION Spec
CONSTANTS
    Files = {dynamicConfig, staticCredentials}
    dynamicConfig = dynamicConfig
    staticCredentials = staticCredentials
    Missing = Missing
    Torn = Torn
    MaxVersion = 2
    QueueCap = 1
    MaxCrashes = 1
    MaxFailures = 1
INVARIANTS
    TypeOK
    IdleInSync
PROPERTIES
    NeverOlder
    ConvergesUnlessMissed
    ImplementsSyncedFiles
CHECK_DEADLOCK FALSE
