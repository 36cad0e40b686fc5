SPECIFICATION Spec
CONSTANTS
    Inputs <- MCInputs
    Contents <- MCContents
    Bodies = {"short", "long"}
    Large = {"long"}
    Group = {"v1", "v1beta1"}
    V1 = "v1"
    Garbage = Garbage
    Nil = Nil
INVARIANTS
    TypeOK
    SuccessIsAnswer
    FailureIsSilent
PROPERTY
    Ends
CHECK_DEADLOCK FALSE
