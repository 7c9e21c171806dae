\* Two jobs compete for one stage slot and publish under backpressure; a page may
\* be an alias of the other job, or discover it, or redirect to it.
SPECIFICATION PublicationSpec
CONSTANTS
    Jobs = {1, 2}
    Seeds = {1, 2}
    SourceGroup <- OneGroup
    Depth <- Deeper
    Workers = {w1, w2}
    Groups = {"g1"}
    Scopes = {"global", "g1"}
    GlobalScope = "global"
    ScopesOf <- GroupOnly
    Concurrency <- AllTwo
    Interval <- Unpaced
    GroupLimit <- Threes
    GroupConcurrency <- Twos
    MaxRequestStarts = 3
    MaxReservations = 3
    MaxLeases = 2
    StageSlots = 1
    JobStartLimit = 3
    LeaseTTL = 1
    StageTTL = 2
    RetryDelay <- NoWait
    BlockWindow = 1
    BlockMargin = 1
    BatchSize = 1
    RequestKinds = {"document"}
    RetryReasons = {"http_5xx"}
    DeadReasons = {}
    ReadyReasons = {}
    CancelReasons = {"authorization_expired"}
    BlockReasons = {"pages_queue_full"}
    NoJob = 0
    NoWorker = NoWorker
    NoGroup = "none"
INVARIANTS
    SlotsOwned
    PublishedIsVisited
PROPERTIES
    TerminalIsFinal
SYMMETRY Symmetry
