CONSTANTS
    p1 = p1  q1 = q1  u1 = u1  a = a  i1 = i1
    PageProc = {p1}
    ImageProc = {q1}
    NPub = 2
    Url = {u1}
    Word = {a}
    Image = {i1}
    Batch = 1
    MaxEpoch = 3
    DeadMax = 2
    RecoverBatch = 1
    Workloads <- PageThenSkip
SPECIFICATION Spec
INVARIANTS
    PageAndImagesAgree
PROPERTIES
    ImplementsFlow
CHECK_DEADLOCK FALSE
