SPECIFICATION UnitSpec
CONSTANTS
    Found <- MCFound
    Media <- MCMedia
    Options <- MCOptions
    SaveExts <- MCSaveExts
    Tracks <- SomeTracks
    FluxMedia <- SomeMedia
    CylHead <- MCCylHead
    MaxGenerations = 2
    Disks <- MCAllDisks
    ForeignFiles <- MCForeign
    Ways <- MCWays
    ReadWays <- MCReadWays
    MfiWhole = 2000
    DfiMinute = 6000
    Volumes <- MCVolumes
    SectorBytes = 12
    PerSector = 4
    NormalDirs <- MCNormalDirs
    MaxDirSectors = 6
INVARIANTS
    FilesReadBack
    DamageIsMarked
    FilesArePlaced
    FilesystemHolds
    DataInTracks
    TracksReadBack
    ViewsOfTracks
CHECK_DEADLOCK FALSE
