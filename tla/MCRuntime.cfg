SPECIFICATION AllSpec
CONSTANTS
    HeaderSize = 3
    ImageAlign = 4
    RamReserved = 2
    DataAlign = 2
    VeneerSize = 2
    VeneerAlign = 2
    ServiceIndex <- MCServices
    Device <- MCDevice
    MinVersion = 2
    Builds <- MCBuilds
    Sectors <- MCSectors
    FloorMin = 8
    FloorEnd = 40
    Transfer = 5
    MaxFaults = 2
    ImageDevice <- MCImageDevice
    Objects <- MCObjects
    Headers <- MCHeaders
    Vars <- TwoVars
    Size <- TwoSizes
    Counts <- FewCounts
    Literals <- Texts
    NumberBase = 2
    Bits = 2
    Calls <- SmallCalls
    Steps = {1, 2}
    PT = 3
    PV = 1
    IntMax = 1
    FirstYear <- MCFirstYear
    LastYear = 2410
    DayLength = 3
    FileBits = 2
    FileWords = 3
    FileFirst = 1
    FileLens <- MCFileLens
    FileSizes = {1, 2}
    FileElements = 4
INVARIANTS
    DownloadWhole
    ImagesFit
    StringsInBounds
    BlocksExact
    CalendarAgrees
PROPERTIES
    OnlyTheSlot
    StringsMean
    WorkEnds
    FilesExact
CHECK_DEADLOCK FALSE
