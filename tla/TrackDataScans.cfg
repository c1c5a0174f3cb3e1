SPECIFICATION UnitSpec
CONSTANTS
    Ids <- SomeIds
    Orphan = 0
    Misread = {4}
    Bad = {98, 99}
    Short = 99
    Goods <- SomeGoods
    MaxBadCopies = 2
    TrackLen = 90
    Tolerance = 3
    Almost0 = 2
    Overhead = 7
    DataBits = 18
    NextMin = 26
    NextMax = 30
    DetectFirst = TRUE
    IdOverhead = 1
    IdData = 5
    IdDataMin = 4
    IdDataMax = 9
    ByteBits = 8
    Scans <- SomeScans
    Readings <- SomeReadings
    ReadingLen = 150
    DataOf <- SomeDataOf
    PlaceOf <- SomePlaceOf
    MaxScans = 3
    MaxReadings = 1
    MaxTries = 2
    Reads <- DecoderReads
    Others <- DecoderOthers
    Size = 2
    CrcSize = 1
    Is8KFormat = FALSE
    CompleteSize8K = 2
    Recognised <- NoneRecognised
    MaxCopies = 3
    Paranoia = FALSE
    NormalDisk = FALSE
    StabilityLevel = 2
    Fill = 0
    MaxAttempts = 3
    Contents <- SomeContents
    Asked = "Unknown"
    MultiFormat = FALSE
    NoTTB = FALSE
    Prefer = "Unknown"
    MaxTracks = 2
INVARIANTS
    ScansEnd
CHECK_DEADLOCK FALSE
