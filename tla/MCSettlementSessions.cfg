SPECIFICATION Spec
CONSTANTS
    None = None
    s1 = s1
    s2 = s2
    g1 = g1
    g2 = g2
    Session = {s1, s2}
    GoodsReceipt = {g1, g2}
    Principal = 1
    RepaymentAmount <- MCRepaymentAmount
    MaxRequests = 4
    MaxDay = 2
SYMMETRY Symmetric
INVARIANTS
    NextNumberIsFree
    SecondOneWasOvertaken
    LimitsNeedOverlap
    ClosedMeansRepaid
CHECK_DEADLOCK FALSE
