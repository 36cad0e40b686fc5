SPECIFICATION Spec
CONSTANTS
    Malformed = Malformed
    NoMirror = NoMirror
    Nil = Nil
    NoKey = NoKey
    NoAuth = NoAuth
    PartialGlobs <- MCPartialGlobs
    Configs <- MCConfigs
    Images <- MCImages
    InvalidReferences <- MCInvalidReferences
    Answers <- MCAnswers
    Length <- MCLength
    Before <- MCBefore
    MirrorStrategies = {"MirrorCredentialsOnly", "MirrorCredentialsFirst", "MirrorCredentialsLast"}
INVARIANTS
    TypeOK
    EntriesAreGranted
    BestKeyWins
PROPERTIES
    ImplementsPolicy
    Returns
    CallAdvances
CHECK_DEADLOCK FALSE
