CONSTANTS
    p1 = p1  p2 = p2  u1 = u1  u2 = u2  a = a  b = b
    Proc = {p1}
    NPub = 2
    Url = {u1, u2}
    Word = {a, b}
    MaxEpoch = 3
    DeadMax = 1
    RecoverBatch = 1
    Workloads <- LateSkip
SPECIFICATION Spec
INVARIANTS
    SkippedIsGone
CHECK_DEADLOCK FALSE
