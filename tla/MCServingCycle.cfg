SPECIFICATION Spec
CONSTANTS
    None = None
    s1 = s1
    s2 = s2
    d1 = d1
    d2 = d2
    r1 = r1
    Session = {s1, s2}
    Order = {o1}
    Inspection = {i1}
    Delivery = {d1, d2}
    Route = {r1}
    Planned = 2
    Portions = {0, 1}
    MaxProofs = 3
    MaxIncidents = 1
    MaxRequests = 6

SYMMETRY Symmetric
CHECK_DEADLOCK FALSE
INVARIANTS
    ClearanceStands
    ReceivedOnce
    PortionsOfOneProof
PROPERTIES
    VerdictStands
