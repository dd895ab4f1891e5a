SPECIFICATION Spec
CONSTANTS
    None = None
    s1 = s1
    s2 = s2
    Session = {s1, s2}
    Claim = {c1}
    Delivery = {d1, d2}
    MaxReceived = 1
    MaxLines = 2
    UnitCost = 1
    Amounts <- SmallAmounts
    MaxChanges = 3
    MaxPayments = 2
SYMMETRY Symmetric
CHECK_DEADLOCK FALSE
INVARIANTS
    PaidIsPaidOut
    BooksAgree
    JudgedBeforePaid
