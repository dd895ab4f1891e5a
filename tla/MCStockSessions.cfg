SPECIFICATION FairSpec
CONSTANTS
    None = None
    Session = {s1, s2}
    Item = {1, 2}
    p1 = p1
    Plan = {p1}
    Need <- MCNeed
    MaxQty = 1
    Opening = {0, 2}
    MaxRequests = 4
INVARIANTS
    DriftNeedsStaleWrite
    DeadlockNeedsDisorder
PROPERTY
    EveryRequestEnds
CHECK_DEADLOCK FALSE
