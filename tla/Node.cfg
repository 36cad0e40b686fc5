SPECIFICATION NodeSpec
CONSTANTS
    Files = {dynamicConfig, staticCredentials}
    dynamicConfig = dynamicConfig
    staticCredentials = staticCredentials
    DynamicConfig = dynamicConfig
    StaticCredentials = staticCredentials
    Missing = Missing
    Torn = Torn
    Unread = Unread
    MaxVersion = 2
    QueueCap = 3
    MaxCrashes = 0
    MaxFailures = 0
    MaxKills = 0
    Lookups <- MCLookups
PROPERTIES
    AnswersSettledSecrets
    ImplementsImagePull
    SecretsReachKubelet
CHECK_DEADLOCK FALSE
