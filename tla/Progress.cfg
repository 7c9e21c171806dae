\* Retries are promoted while the run is authorized, and the run ends, whatever
\* its workers do.
SPECIFICATION MaintainedSpec
CONSTANTS
    Jobs = {1, 2}
    Seeds = {1, 2}
    SourceGroup <- OneGroup
    Depth <- SameDepth
    Workers = {w1}
    Groups = {"g1"}
    Scopes = {"global", "g1"}
    GlobalScope = "global"
    ScopesOf <- GroupOnly
    Concurrency <- GlobalTwo
    Interval <- Unpaced
    GroupLimit <- Threes
    GroupConcurrency <- Ones
    MaxRequestStarts = 3
    MaxReservations = 3
    MaxLeases = 2
    StageSlots = 1
    JobStartLimit = 3
    LeaseTTL = 1
    StageTTL = 1
    RetryDelay <- Delays
    BlockWindow = 1
    BlockMargin = 0
    BatchSize = 1
    RequestKinds = {"robots"}
    RetryReasons = {"http_5xx"}
    DeadReasons = {"policy_denied"}
    ReadyReasons = {}
    CancelReasons = {"authorization_expired"}
    BlockReasons = {}
    NoJob = 0
    NoWorker = NoWorker
    NoGroup = "none"
PROPERTIES
    RunFinalizes
    DelayEnds
