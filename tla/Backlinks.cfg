CONSTANTS
    t1 = t1  t2 = t2  t3 = t3  m1 = m1  m2 = m2  m3 = m3  m4 = m4
    Target = {t1, t2, t3}
    BadTarget = {t3}
    Source = {m1, m2, m3, m4}
    BadSource = {m4}
    Size <- Sizes
    MaxSize = 2
    ScanItems = 2
    PendingBytes = 4
    TargetsPerCycle = 2
    PendingKeys = 3
    ScanCalls = 2
    Examined = 2
    BatchMembers = 2
    BatchBytes = 3
    Ceiling = 4
    Workloads <- Both
SPECIFICATION FairSpec
INVARIANTS
    BufferSound
    ChecksHold
PROPERTIES
    NoEdgeLost
    EdgesArrive
CHECK_DEADLOCK FALSE
