\* One job through every delivery and recovery it can have; stages that
\* outlast a renewed lease; two workers, lost replies, stale requests.
SPECIFICATION Spec
CONSTANTS
    Jobs = {1}
    Seeds = {1}
    SourceGroup <- OneGroup
    Depth <- SameDepth
    Workers = {w1, w2}
    Groups = {"g1"}
    Scopes = {"global", "g1"}
    GlobalScope = "global"
    ScopesOf <- GroupOnly
    Concurrency <- GlobalTwo
    Interval <- Unpaced
    GroupLimit <- Threes
    GroupConcurrency <- Ones
    MaxRequestStarts = 3
    MaxReservations = 4
    MaxLeases = 2
    StageSlots = 1
    JobStartLimit = 3
    LeaseTTL = 2
    StageTTL = 3
    RetryDelay <- Delays
    BlockWindow = 1
    BlockMargin = 2
    BatchSize = 1
    RequestKinds = {"document"}
    RetryReasons = {"downstream_backpressure"}
    DeadReasons = {"policy_denied"}
    ReadyReasons = {"policy_denied"}
    CancelReasons = {"authorization_expired"}
    BlockReasons = {"pages_queue_full"}
    NoJob = 0
    NoWorker = NoWorker
    NoGroup = "none"
INVARIANTS
    TypeOK
    RecordsValid
    IoIsCovered
    BeliefsHold
PROPERTIES
    LeaseIntegrity
SYMMETRY Symmetry
