CONSTANTS
    p1 = p1  p2 = p2  u1 = u1  i1 = i1  i2 = i2
    Proc = {p1, p2}
    NPub = 3
    Url = {u1}
    Image = {i1, i2}
    Batch = 1
    MaxEpoch = 3
    DeadMax = 1
    RecoverBatch = 1
    Workloads <- MixedWorkloads
SPECIFICATION FairSpec
PROPERTIES
    AckedPageIsWhole
    RecordNeverBackwards
    EventuallyAcked
CHECK_DEADLOCK FALSE
