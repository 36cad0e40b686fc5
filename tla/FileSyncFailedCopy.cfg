SPECIFICATION Spec
CONSTANTS
    Files = {dynamicConfig}
    dynamicConfig = dynamicConfig
    Missing = Missing
    Torn = Torn
    MaxVersion = 2
    QueueCap = 8
    MaxCrashes = 0
    MaxFailures = 1
PROPERTY
    Converges
CHECK_DEADLOCK FALSE
