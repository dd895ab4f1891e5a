SPECIFICATION Spec
CONSTANTS
    None = None
    w1 = w1
    w2 = w2
    x1 = x1
    p1 = p1
    p2 = p2
    Warehouse = {w1, w2}
    Product = {x1}
    Batch = {}
    MaxQty = 2
    MaxStock = 4
    MealPlan = {p1, p2}
    Budget = {}
    a1 = a1
    a2 = a2
    Approval = {a1, a2}
    ClientStatus = {"DRAFT", "MATERIAL_RESERVED"}
    CustomTransition <- MCCustomTransition
    MaxVersion = 1
    o1 = o1
    o2 = o2
    Order = {o1, o2}
    Need <- MCNeed
    RowBefore <- MCRowBefore
PROPERTY
    CompletionLeavesAvailable
CHECK_DEADLOCK FALSE
