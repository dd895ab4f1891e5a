SPECIFICATION Spec
CONSTANTS
    None = None
    x1 = x1
    p1 = p1
    b1 = b1
    b2 = b2
    l1 = l1
    l2 = l2
    l3 = l3
    r1 = r1
    r2 = r2
    g1 = g1
    g2 = g2
    v1 = v1
    v2 = v2
    Warehouse = {w1}
    Product = {x1}
    Batch = {k1}
    MaxQty = 2
    MaxStock = 4
    Budget = {b1, b2}
    BudgetLine = {l1, l2, l3}
    BudgetOf <- MCBudgetOf
    AccountOf <- MCAccountOf
    Covers <- MCCovers
    Account = {"110000", "130000", "210000", "240000", "510000"}
    Chart = {"110000", "130000", "210000", "240000", "510000"}
    Day = {1, 2}
    PurchaseRequest = {r1, r2}
    PurchaseOrder = {o1}
    GoodsReceipt = {g1, g2}
    SupplierInvoice = {v1, v2}
    SupplierPayment = {y1}
    MealPlan = {p1}
    PlanNeed <- MCPlanNeed
    PlanDay <- MCPlanDay
    StandardCost <- MCStandardCost
    Price = {2}
    Tracked = {x1}
SYMMETRY Symmetric
INVARIANTS
    LedgerMatchesDocuments
    ChargesStayInSight
    ReservationsHoldWithin
PROPERTY
    AvailableOnlyShrinks
CHECK_DEADLOCK FALSE
