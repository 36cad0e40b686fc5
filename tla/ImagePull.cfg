SPECIFICATION Spec
CONSTANTS
    Files = {dynamicConfig, staticCredentials}
    dynamicConfig = dynamicConfig
    staticCredentials = staticCredentials
    DynamicConfig = dynamicConfig
    StaticCredentials = staticCredentials
    Missing = Missing
    Torn = Torn
    Unread = Unread
    MaxVersion = 2
    MaxKills = 1
    Lookups <- MCLookups
INVARIANTS
    TypeOK
    PullsReadForward
PROPERTIES
    ServedForward
    ServesCurrent
CHECK_DEADLOCK FALSE
