CONSTANTS
    Word = {"a", "b"}
    Url = {"u", "v"}
    Thread = {"t1", "t2"}
    Threshold = 1
    OperationsThreshold = 2
    MaxPages = 2
    MaxEdits = 1
    MaxFaults = 1
    BatchSize = 2
    SampleSize = 1
    Limit = 3
    MaxImports = 2
    MaxSources = 2
SPECIFICATION BatchSpec
INVARIANTS
    NoneSkipped
    DumpImported
    LinksImported
PROPERTIES
    DocumentsKept
CHECK_DEADLOCK FALSE
