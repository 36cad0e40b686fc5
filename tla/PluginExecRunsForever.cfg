SPECIFICATION Spec
CONSTANTS
    APIVersion = "credentialprovider.kubelet.k8s.io/v1"
    Documents <- MCDocuments
    Chunks <- MCChunks
    Decode <- MCDecode
    MaxPrints = 3
    Children = {sleeper, logger}
    sleeper = sleeper
    logger = logger
    Nothing = Nothing
PROPERTY
    DoesNotRunForever
CHECK_DEADLOCK FALSE
