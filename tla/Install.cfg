SPECIFICATION Spec
CONSTANTS
    Binaries <- MCBinaries
    Releases = {1, 2}
    Missing = Missing
    Directory = Directory
    Torn = Torn
    MaxRollOuts = 1
    MaxFailures = 1
    MaxKills = 1
INVARIANTS
    TypeOK
PROPERTIES
    ImplementsAtomicInstall
    EventuallyInstalled
CHECK_DEADLOCK FALSE
