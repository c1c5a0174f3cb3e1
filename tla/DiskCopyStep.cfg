SPECIFICATION Spec
CONSTANTS
    Sup = 2
    Step = 2
    Ids = {a}
    DiskRetries = 1
    TrackRetries <- MinusOne
    Paranoia = TRUE
    StabilityLevel = 2
    Constant = FALSE
    LookForPossible = FALSE
    Nothing = Nothing
    Torn = Torn
PROPERTIES
    EveryReadingCountsOnce
