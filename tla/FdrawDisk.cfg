SPECIFICATION DiskSpec
CONSTANTS
    Sup = 2
    ReadAmounts <- PlainAndChange
    Versions = {v1, v2}
    MaxCopies = 1
    Paranoia = TRUE
    StabilityLevel = 2
    Overlapping = {2}
    EightK = FALSE
    Sites <- ThreeSites
    IdOf <- Numbers
    Requests <- SomeRequests
    Amounts <- SomeAmounts
    Strays <- MisreadSite
    NormalDisk = TRUE
    Limit <- OneAndTwo
    UnhideFirst = TRUE
    Level = 1
    Levels <- GoodIfFound
INVARIANTS
    SectorsTakeTurns
    RetriesAreMade
    RememberedAnswerIsTrue
    RescansAreMade
    PhysicalReadsAreMade
    FoundIsAsked
PROPERTIES
    LoopsEnd
    RescueEnds
