SPECIFICATION Spec
CONSTANTS
    APIVersion = "credentialprovider.kubelet.k8s.io/v1"
    Documents <- MCDocuments
    Chunks <- MCChunks
    Decode <- MCDecode
    MaxPrints = 3
    Children = {sleeper, logger}
    sleeper = sleeper
    logger = logger
    Nothing = Nothing
INVARIANTS
    TypeOK
    AnswerIsWhole
PROPERTY
    ReturnsOnceReleased
CHECK_DEADLOCK FALSE
