SPECIFICATION StockSpec
CONSTANTS
    None = None
    Warehouse = {w1, w2}
    Product = {x1, x2}
    b1 = b1
    b2 = b2
    Batch = {b1, b2}
    MaxQty = 2
    MaxStock = 3
    Expiry <- MCExpiry
SYMMETRY Symmetric
INVARIANTS
    BalanceIsLedger
    PreviewCanBeIssued
    FirstExpiredFirstOut
