SPECIFICATION PreloadSpec
CONSTANTS
    Readers = {r1, r2}
    Cyls = {0}
    Ids <- TwoIds
    Skippable = {}
    Rescans <- MinusOne
    Retries = 2
    Revs = 1
    Loads <- TwoLoads
    Flip = TRUE
    Nothing = Nothing
    Workers = {w1, w2, w3}
    N = 4
INVARIANTS
    BestIsKept
    RetriesAreMade
    RescansAreMade
    CachedIsLoaded
    NoSleepBesideWork
    StartedInOrder
    NothingRunsAfter
PROPERTIES
    ReadEnds
    PreloadEnds
    ImplementsPreload
