CONSTANTS
    MaxBytes = 8
    MaxEdits = 2
    MaxRuns = 2
    MaxTouches = 1
    MaxVersion = 2
    Asset = {"a", "b"}
    Chunk = 2
    MaxManifest = 4
    MaxStarts = 6
    MaxOrdinal = 12
    MaxPath = 2
    MaxBlob = 3
    MaxCombined = 6
    MaxType = 2
    MaxRule = 2
    MaxAlt = 2
    MaxOutlinks = 8
    MaxDiscoveries = 4
    MaxImages = 3
    MaxAliases = 3
    MaxU64 = 3
    MaxGroups = 2
    MaxSources = 2
SPECIFICATION ContractSpec
INVARIANTS
    FormsAgree
    IdentitiesBind
    OutputSound
    VectorsHold
    AssetsHold
CHECK_DEADLOCK FALSE
