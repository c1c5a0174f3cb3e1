SPECIFICATION Spec
CONSTANTS
    Reads <- DeviceReads
    Others <- DeviceOthers
    Size = 2
    CrcSize = 1
    Is8KFormat = FALSE
    CompleteSize8K = 2
    Recognised <- NoneRecognised
    MaxCopies = 2
    Paranoia = TRUE
    NormalDisk = FALSE
    StabilityLevel = 2
    Fill = 0
    MaxAttempts = 5
CHECK_DEADLOCK FALSE
CONSTRAINT
    OneKind
INVARIANTS
    CopiesInv
PROPERTIES
    GoodDataSurvives
    StableStaysStable
