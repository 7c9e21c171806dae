\* Two jobs of two policy groups that share an origin; redirects between the
\* groups, a paced origin, expired leases recovered two at a time.
SPECIFICATION Spec
CONSTANTS
    Jobs = {1, 2}
    Seeds = {1, 2}
    SourceGroup <- OwnGroups
    Depth <- SameDepth
    Workers = {w1, w2}
    Groups = {"g1", "g2"}
    Scopes = {"global", "g1", "g2", "origin"}
    GlobalScope = "global"
    ScopesOf <- GroupAndOrigin
    Concurrency <- SharedTwo
    Interval <- PacedOrigin
    GroupLimit <- FirstOne
    GroupConcurrency <- Ones
    MaxRequestStarts = 3
    MaxReservations = 3
    MaxLeases = 2
    StageSlots = 1
    JobStartLimit = 3
    LeaseTTL = 2
    StageTTL = 2
    RetryDelay <- NoWait
    BlockWindow = 1
    BlockMargin = 2
    BatchSize = 1
    RequestKinds = {"robots"}
    RetryReasons = {"http_5xx"}
    DeadReasons = {"reservation_limit_exhausted"}
    ReadyReasons = {}
    CancelReasons = {"authorization_expired"}
    BlockReasons = {}
    NoJob = 0
    NoWorker = NoWorker
    NoGroup = "none"
INVARIANTS
    CountersExact
    BudgetsHold
    FinalizedIsClean
PROPERTIES
    WithdrawnOnlyShrinks
SYMMETRY Symmetry
