CONSTANTS
    p1 = p1  p2 = p2  u1 = u1  u2 = u2  a = a  b = b
    Proc = {p1, p2}
    NPub = 3
    Url = {u1, u2}
    Word = {a, b}
    MaxEpoch = 3
    DeadMax = 1
    RecoverBatch = 1
    Workloads <- Safety
SPECIFICATION FairSpec
INVARIANTS
    QueueSound
    SettledStateIsWhole
PROPERTIES
    StateMovesForward
    ImplementsOwnedQueue
    EventuallySettled
CHECK_DEADLOCK FALSE
