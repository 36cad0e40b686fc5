SPECIFICATION Spec
CONSTANTS
    Configs <- MCConfigs
    APIVersions = {"v1", "v1beta1"}
    InvalidNames = {"a/b"}
    Installable = {"static", "ecr"}
    Malformed = Malformed
    PartialGlobs = {}
    Nil = Nil
INVARIANTS
    TypeOK
    RegisteredAsConfigured
    AdmittedLoads
PROPERTY
    LoadsOnceInstalled
CHECK_DEADLOCK FALSE
