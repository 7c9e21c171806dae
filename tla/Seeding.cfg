CONSTANTS
    Id = {1, 2}
    Importer = {"bootstrap", "reddit"}
    Rows <- Bring
    BatchSize <- Sizes
    GoesOn = {"reddit"}
    Baseline <- Base
    Initial <- Collections
    MaxSources = 2
    MaxRuns = 2
    MaxToggles = 1
    MaxFaults = 1
    QueueId = {1, 2, 3}
    Pending <- Waiting
    Invalid = {3}
    Worker = {"w1"}
    PerFeed = 1
    FeedLimit = 2
    MaxScore = 2
    MaxDepth = 2
    MaxEdits = 1
    MaxPushes = 1
SPECIFICATION SeedingSpec
INVARIANTS
    CatalogSound
    QueueFollowsCatalog
PROPERTIES
    RecordsKept
CHECK_DEADLOCK FALSE
