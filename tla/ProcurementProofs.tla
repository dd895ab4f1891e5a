------------------------- MODULE ProcurementProofs -------------------------
(***************************************************************************)
(* What BudgetLedger keeps, whoever charges the budgets, with whatever     *)
(* amounts and in whatever order; that procurement charges them no other   *)
(* way; and what procurement keeps of its documents, of stock and of the   *)
(* accounts, for any plans, prices, suppliers, periods and charts.         *)
(***************************************************************************)
EXTENDS Procurement, StockLedgerProofs, TablesProofs

\* What a line has in sight, and a row with nothing in it but naturals.
InSight(row, r, c, v) ==
    /\ row.actual = v
    /\ row.committed + row.actual >= c
    /\ row.reserved + row.committed + row.actual >= r

Sum(row) == row.reserved + row.committed + row.actual

\* A charge of q leaves a row of naturals that claims no less than before
\* and has in sight what the charge adds.
LEMMA ReservedRow ==
  ASSUME NEW row \in AmountRow, NEW q \in Nat, NEW r \in Nat, NEW c \in Nat, NEW v \in Nat
  PROVE  /\ Reserved(row, q) \in AmountRow
         /\ InSight(row, r, c, v) => InSight(Reserved(row, q), r + q, c, v)
         /\ Sum(Reserved(row, q)) >= Sum(row)
<1>1. /\ row.reserved \in Nat /\ row.committed \in Nat /\ row.actual \in Nat
      /\ Least(row.reserved, q) \in 0 .. row.reserved /\ Least(row.reserved, q) <= q
      /\ Least(row.committed, q) \in 0 .. row.committed /\ Least(row.committed, q) <= q
  BY DEF AmountRow, Least
<1> QED
  BY <1>1 DEF Reserved, AmountRow, InSight, Sum

LEMMA CommittedRow ==
  ASSUME NEW row \in AmountRow, NEW q \in Nat, NEW r \in Nat, NEW c \in Nat, NEW v \in Nat
  PROVE  /\ Committed(row, q) \in AmountRow
         /\ InSight(row, r, c, v) => InSight(Committed(row, q), r, c + q, v)
         /\ Sum(Committed(row, q)) >= Sum(row)
<1>1. /\ row.reserved \in Nat /\ row.committed \in Nat /\ row.actual \in Nat
      /\ Least(row.reserved, q) \in 0 .. row.reserved /\ Least(row.reserved, q) <= q
      /\ Least(row.committed, q) \in 0 .. row.committed /\ Least(row.committed, q) <= q
  BY DEF AmountRow, Least
<1> QED
  BY <1>1 DEF Committed, AmountRow, InSight, Sum

LEMMA ActualizedRow ==
  ASSUME NEW row \in AmountRow, NEW q \in Nat, NEW r \in Nat, NEW c \in Nat, NEW v \in Nat
  PROVE  /\ Actualized(row, q) \in AmountRow
         /\ InSight(row, r, c, v) => InSight(Actualized(row, q), r, c, v + q)
         /\ Sum(Actualized(row, q)) >= Sum(row)
<1>1. /\ row.reserved \in Nat /\ row.committed \in Nat /\ row.actual \in Nat
      /\ Least(row.reserved, q) \in 0 .. row.reserved /\ Least(row.reserved, q) <= q
      /\ Least(row.committed, q) \in 0 .. row.committed /\ Least(row.committed, q) <= q
  BY DEF AmountRow, Least
<1> QED
  BY <1>1 DEF Actualized, AmountRow, InSight, Sum

\* One line across a step: left alone, or charged once.
Kept(l) ==
    /\ amount'[l] = amount[l]
    /\ requested'[l] = requested[l] /\ received'[l] = received[l] /\ invoiced'[l] = invoiced[l]

ChargedByRequest(l, q) ==
    /\ amount'[l] = Reserved(amount[l], q)
    /\ requested'[l] = requested[l] + q /\ received'[l] = received[l] /\ invoiced'[l] = invoiced[l]

ChargedByReceipt(l, q) ==
    /\ amount'[l] = Committed(amount[l], q)
    /\ requested'[l] = requested[l] /\ received'[l] = received[l] + q /\ invoiced'[l] = invoiced[l]

ChargedByInvoice(l, q) ==
    /\ amount'[l] = Actualized(amount[l], q)
    /\ requested'[l] = requested[l] /\ received'[l] = received[l] /\ invoiced'[l] = invoiced[l] + q

Charged(l) ==
    Kept(l) \/ \E q \in Nat : ChargedByRequest(l, q) \/ ChargedByReceipt(l, q) \/ ChargedByInvoice(l, q)

Tabled ==
    /\ approved' \subseteq Budget
    /\ amount' = [l \in BudgetLine |-> amount'[l]]
    /\ requested' = [l \in BudgetLine |-> requested'[l]]
    /\ received' = [l \in BudgetLine |-> received'[l]]
    /\ invoiced' = [l \in BudgetLine |-> invoiced'[l]]

\* Every step leaves a line alone or charges it once.
LEMMA LineByLine ==
  ASSUME BudgetTypeOK, [BudgetNext]_budgetVars
  PROVE  Tabled /\ \A l \in BudgetLine : Charged(l)
<1> USE DEF BudgetTypeOK, Tabled
<1>1. ASSUME NEW b \in Budget, ApproveBudget(b)
      PROVE  Tabled /\ \A l \in BudgetLine : Kept(l)
  BY <1>1 DEF ApproveBudget, Kept, chargeVars
<1>2. ASSUME NEW account \in Account, NEW q \in Nat, NEW day \in Day,
             ReserveBudget(account, q, day)
      PROVE  Tabled /\ \A l \in BudgetLine : Kept(l) \/ ChargedByRequest(l, q)
  BY <1>2 DEF ReserveBudget, Raised, Kept, ChargedByRequest
<1>3. ASSUME NEW account \in Account, NEW q \in Nat, NEW day \in Day,
             CommitBudget(account, q, day)
      PROVE  Tabled /\ \A l \in BudgetLine : Kept(l) \/ ChargedByReceipt(l, q)
  BY <1>3 DEF CommitBudget, Raised, Kept, ChargedByReceipt
<1>4. ASSUME NEW account \in Account, NEW q \in Nat, NEW day \in Day,
             ActualizeBudget(account, q, day)
      PROVE  Tabled /\ \A l \in BudgetLine : Kept(l) \/ ChargedByInvoice(l, q)
  BY <1>4 DEF ActualizeBudget, Raised, Kept, ChargedByInvoice
<1>5. CASE UNCHANGED budgetVars
  BY <1>5 DEF budgetVars, chargeVars, Kept, Charged
<1> QED
  BY <1>1, <1>2, <1>3, <1>4, <1>5 DEF BudgetNext, Charged

LEMMA LineKept ==
  ASSUME BudgetTypeOK, NEW l \in BudgetLine, Charged(l)
  PROVE  /\ amount'[l] \in AmountRow
         /\ requested'[l] \in Nat /\ received'[l] \in Nat /\ invoiced'[l] \in Nat
         /\ InSight(amount[l], requested[l], received[l], invoiced[l])
               => InSight(amount'[l], requested'[l], received'[l], invoiced'[l])
         /\ amount'[l].reserved + amount'[l].committed + amount'[l].actual >= Claimed(l)
<1>1. /\ amount[l] \in AmountRow
      /\ requested[l] \in Nat /\ received[l] \in Nat /\ invoiced[l] \in Nat
  BY DEF BudgetTypeOK
<1>2. CASE Kept(l)
  BY <1>1, <1>2 DEF Kept, Claimed, AmountRow
<1>3. ASSUME NEW q \in Nat, ChargedByRequest(l, q)
      PROVE  /\ amount'[l] \in AmountRow
             /\ requested'[l] \in Nat /\ received'[l] \in Nat /\ invoiced'[l] \in Nat
             /\ InSight(amount[l], requested[l], received[l], invoiced[l])
                   => InSight(amount'[l], requested'[l], received'[l], invoiced'[l])
             /\ amount'[l].reserved + amount'[l].committed + amount'[l].actual >= Claimed(l)
  <2>1. Sum(amount[l]) = Claimed(l)
    BY DEF Sum, Claimed
  <2>2. /\ Reserved(amount[l], q) \in AmountRow
        /\ InSight(amount[l], requested[l], received[l], invoiced[l])
              => InSight(Reserved(amount[l], q), requested[l] + q, received[l], invoiced[l])
        /\ Sum(Reserved(amount[l], q)) >= Sum(amount[l])
    BY <1>1, ReservedRow
  <2> QED
    BY <1>1, <1>3, <2>1, <2>2 DEF ChargedByRequest, Sum
<1>4. ASSUME NEW q \in Nat, ChargedByReceipt(l, q)
      PROVE  /\ amount'[l] \in AmountRow
             /\ requested'[l] \in Nat /\ received'[l] \in Nat /\ invoiced'[l] \in Nat
             /\ InSight(amount[l], requested[l], received[l], invoiced[l])
                   => InSight(amount'[l], requested'[l], received'[l], invoiced'[l])
             /\ amount'[l].reserved + amount'[l].committed + amount'[l].actual >= Claimed(l)
  <2>1. Sum(amount[l]) = Claimed(l)
    BY DEF Sum, Claimed
  <2>2. /\ Committed(amount[l], q) \in AmountRow
        /\ InSight(amount[l], requested[l], received[l], invoiced[l])
              => InSight(Committed(amount[l], q), requested[l], received[l] + q, invoiced[l])
        /\ Sum(Committed(amount[l], q)) >= Sum(amount[l])
    BY <1>1, CommittedRow
  <2> QED
    BY <1>1, <1>4, <2>1, <2>2 DEF ChargedByReceipt, Sum
<1>5. ASSUME NEW q \in Nat, ChargedByInvoice(l, q)
      PROVE  /\ amount'[l] \in AmountRow
             /\ requested'[l] \in Nat /\ received'[l] \in Nat /\ invoiced'[l] \in Nat
             /\ InSight(amount[l], requested[l], received[l], invoiced[l])
                   => InSight(amount'[l], requested'[l], received'[l], invoiced'[l])
             /\ amount'[l].reserved + amount'[l].committed + amount'[l].actual >= Claimed(l)
  <2>1. Sum(amount[l]) = Claimed(l)
    BY DEF Sum, Claimed
  <2>2. /\ Actualized(amount[l], q) \in AmountRow
        /\ InSight(amount[l], requested[l], received[l], invoiced[l])
              => InSight(Actualized(amount[l], q), requested[l], received[l], invoiced[l] + q)
        /\ Sum(Actualized(amount[l], q)) >= Sum(amount[l])
    BY <1>1, ActualizedRow
  <2> QED
    BY <1>1, <1>5, <2>1, <2>2 DEF ChargedByInvoice, Sum
<1> QED
  BY <1>2, <1>3, <1>4, <1>5 DEF Charged

LEMMA BudgetStep ==
  ASSUME BudgetTypeOK, [BudgetNext]_budgetVars
  PROVE  /\ BudgetTypeOK'
         /\ ChargesStayInSight => ChargesStayInSight'
         /\ \A l \in BudgetLine :
               amount'[l].reserved + amount'[l].committed + amount'[l].actual >= Claimed(l)
<1>1. Tabled /\ \A l \in BudgetLine : Charged(l)
  BY LineByLine
<1>2. \A l \in BudgetLine :
         /\ amount'[l] \in AmountRow
         /\ requested'[l] \in Nat /\ received'[l] \in Nat /\ invoiced'[l] \in Nat
         /\ InSight(amount[l], requested[l], received[l], invoiced[l])
               => InSight(amount'[l], requested'[l], received'[l], invoiced'[l])
         /\ amount'[l].reserved + amount'[l].committed + amount'[l].actual >= Claimed(l)
  BY <1>1, LineKept
<1>3. BudgetTypeOK'
  BY <1>1, <1>2 DEF BudgetTypeOK, Tabled
<1>4. ChargesStayInSight => ChargesStayInSight'
  BY <1>2 DEF ChargesStayInSight, InSight, Claimed
<1> QED
  BY <1>2, <1>3, <1>4

LEMMA BudgetStart == BudgetInit => BudgetTypeOK /\ ChargesStayInSight
BY DEF BudgetInit, BudgetTypeOK, AmountRow, ChargesStayInSight, Claimed

\* The amounts of a line stay natural numbers: no release takes more than
\* there is.
THEOREM BudgetTypes == BudgetSpec => []BudgetTypeOK
<1>1. BudgetInit => BudgetTypeOK
  BY BudgetStart
<1>2. BudgetTypeOK /\ [BudgetNext]_budgetVars => BudgetTypeOK'
  BY BudgetStep
<1> QED
  BY <1>1, <1>2, PTL DEF BudgetSpec

\* Nothing charged to a line drops out of its availability, for any amounts
\* in any order.
THEOREM ChargesStay == BudgetSpec => []ChargesStayInSight
<1>1. BudgetInit => BudgetTypeOK /\ ChargesStayInSight
  BY BudgetStart
<1>2. BudgetTypeOK /\ ChargesStayInSight /\ [BudgetNext]_budgetVars
         => BudgetTypeOK' /\ ChargesStayInSight'
  BY BudgetStep
<1> QED
  BY <1>1, <1>2, PTL DEF BudgetSpec

\* No charge gives back what an earlier one claimed.
THEOREM AvailabilityShrinks == BudgetSpec => AvailableOnlyShrinks
<1>1. BudgetTypeOK /\ [BudgetNext]_budgetVars =>
         [\A l \in BudgetLine :
             amount'[l].reserved + amount'[l].committed + amount'[l].actual >= Claimed(l)]_amount
  BY BudgetStep
<1> QED
  BY <1>1, BudgetTypes, PTL DEF BudgetSpec, AvailableOnlyShrinks
-----------------------------------------------------------------------------
\* Documents are made from documents there are.
Referenced ==
    /\ \A o \in Rows(purchaseOrder) : purchaseOrder[o].request \in Rows(purchaseRequest)
    /\ \A g \in Rows(goodsReceipt) : goodsReceipt[g].request \in Rows(purchaseRequest)
    /\ \A v \in Rows(supplierInvoice) : supplierInvoice[v].receipt \in Rows(goodsReceipt)

RowsAreFinite ==
    /\ IsFiniteSet(Rows(purchaseRequest)) /\ IsFiniteSet(Rows(goodsReceipt))
    /\ IsFiniteSet(Rows(supplierInvoice)) /\ IsFiniteSet(Rows(supplierPayment))

DocumentsInv ==
    /\ StockTypeOK /\ ReconciledInv
    /\ BudgetTypeOK
    /\ DocumentTypeOK
    /\ Referenced
    /\ RowsAreFinite

\* Requests a line was reserved for and none of whose receipts released it.
Unreleased(l) ==
    {r \in Rows(purchaseRequest) :
        /\ l \in purchaseRequest[r].on
        /\ \A g \in Rows(goodsReceipt) : goodsReceipt[g].request = r => l \notin goodsReceipt[g].on}

\* What rows of a table cost.
CostIn(table, rows) == Total([k \in rows |-> table[k].cost], rows)

-----------------------------------------------------------------------------
LEMMA RowsTyped ==
  ASSUME DocumentTypeOK
  PROVE  /\ \A r \in Rows(purchaseRequest) : r \in PurchaseRequest /\ purchaseRequest[r] \in RequestRow
         /\ \A o \in Rows(purchaseOrder) : o \in PurchaseOrder /\ purchaseOrder[o] \in OrderRow
         /\ \A g \in Rows(goodsReceipt) : g \in GoodsReceipt /\ goodsReceipt[g] \in ReceiptRow
         /\ \A v \in Rows(supplierInvoice) : v \in SupplierInvoice /\ supplierInvoice[v] \in InvoiceRow
         /\ \A y \in Rows(supplierPayment) : y \in SupplierPayment /\ supplierPayment[y] \in PaymentRow
  BY DEF DocumentTypeOK, Rows

\* Only the status of a request changes, and only that of a request there is.
LEMMA StatusWritten ==
  ASSUME DocumentTypeOK, NEW r \in Rows(purchaseRequest),
         NEW status \in {"DRAFT", "ORDERED", "RECEIVED"},
         purchaseRequest' = [purchaseRequest EXCEPT ![r].status = status]
  PROVE  /\ purchaseRequest' \in [PurchaseRequest -> RequestRow \cup {None}]
         /\ Rows(purchaseRequest') = Rows(purchaseRequest)
         /\ \A s \in Rows(purchaseRequest) :
               purchaseRequest'[s].on = purchaseRequest[s].on /\ purchaseRequest'[s].cost = purchaseRequest[s].cost
<1>1. r \in PurchaseRequest /\ purchaseRequest[r] \in RequestRow
  BY RowsTyped
<1> DEFINE row == [purchaseRequest[r] EXCEPT !.status = status]
<1>2. row \in RequestRow /\ row.on = purchaseRequest[r].on /\ row.cost = purchaseRequest[r].cost
  BY <1>1 DEF RequestRow
<1>3. purchaseRequest' = [purchaseRequest EXCEPT ![r] = row]
  BY <1>1 DEF DocumentTypeOK
<1> HIDE DEF row
<1>4. purchaseRequest \in [PurchaseRequest -> RequestRow \cup {None}] /\ None \notin RequestRow
  BY NoneIsNoDocument DEF DocumentTypeOK
<1>5. /\ purchaseRequest' \in [PurchaseRequest -> RequestRow \cup {None}]
      /\ Rows(purchaseRequest') = Rows(purchaseRequest)
      /\ purchaseRequest'[r] = row
      /\ \A j \in Rows(purchaseRequest) \ {r} : purchaseRequest'[j] = purchaseRequest[j]
  BY <1>2, <1>3, <1>4 DEF Rows
<1> QED
  BY <1>2, <1>5

\* Quantities times prices.
LEMMA CostIsNatural ==
  ASSUME NEW lines \in Lines, NEW price, \A x \in Product : price[x] \in Nat
  PROVE  CostOf(lines, price) \in Nat
<1> DEFINE costs == [x \in DOMAIN lines |-> lines[x] * price[x]]
<1>1. DOMAIN lines \subseteq Product /\ \A x \in DOMAIN lines : lines[x] \in Nat
  BY BoundsAreNaturals DEF Lines, Quantity
<1>2. IsFiniteSet(DOMAIN lines)
  BY <1>1, StockIsFinite, FS_Subset
<1>3. \A x \in DOMAIN lines : costs[x] \in Nat
  BY <1>1
<1> HIDE DEF costs
<1>4. Total(costs, DOMAIN lines) \in Nat
  BY <1>2, <1>3, TotalIsNat
<1> QED
  BY <1>4 DEF CostOf, costs

\* No warehouse is overdrawn, so a plan lacks no more than it needs.
LEMMA ShortageTyped ==
  ASSUME StockTypeOK, ReconciledInv, NEW p \in MealPlan, DOMAIN ShortageLines(p) # {}
  PROVE  ShortageLines(p) \in Lines
<1>1. ASSUME NEW x \in Product, Shortage(p, x) > 0 PROVE Shortage(p, x) \in Quantity
  <2> DEFINE stock == [w \in Warehouse |-> balance[<<w, x>>].available]
  <2>1. \A w \in Warehouse : stock[w] \in Nat
    BY DEF StockTypeOK, ReconciledInv, BalanceIsLedger, Item
  <2> HIDE DEF stock
  <2>2. Total(stock, Warehouse) \in Nat
    BY <2>1, StockIsFinite, TotalIsNat
  <2>3. Shortage(p, x) = PlanNeed[p][x] - Total(stock, Warehouse)
    BY DEF Shortage, stock
  <2>4. PlanNeed[p][x] \in 0 .. MaxQty
    BY PlansNeedProducts
  <2> QED
    BY <1>1, <2>2, <2>3, <2>4, BoundsAreNaturals DEF Quantity
<1> DEFINE X == {y \in Product : Shortage(p, y) > 0}
<1>2. ShortageLines(p) = [x \in X |-> Shortage(p, x)] /\ X \in SUBSET Product
  BY DEF ShortageLines
<1>3. \A x \in X : Shortage(p, x) \in Quantity
  BY <1>1
<1> HIDE DEF X
<1>4. ShortageLines(p) \in [X -> Quantity] /\ X # {}
  BY <1>2, <1>3
<1>5. X \in (SUBSET Product) \ {{}}
  BY <1>2, <1>4
<1> QED
  BY <1>4, <1>5 DEF Lines
-----------------------------------------------------------------------------
\* Goods received raise balance and ledger alike, and the batches they name.
LEMMA ReceiptsPosted ==
  ASSUME StockTypeOK, NEW w \in Warehouse, NEW lines \in Lines, NEW batchOf,
         DOMAIN batchOf \subseteq DOMAIN lines, NEW blocked \in BOOLEAN,
         PostReceipts(w, lines, batchOf, blocked)
  PROVE  StockTypeOK' /\ \A i \in Item : Posted(i)
<1> DEFINE gets(i) == i[1] = w /\ i[2] \in DOMAIN lines
           of(b) == {x \in DOMAIN batchOf : batchOf[x] = b}
           held(b) == IF batch[b] = None THEN 0 ELSE batch[b].onHand
<1>1. /\ balance' = [i \in Item |->
            IF gets(i) THEN Increased(balance[i], lines[i[2]]) ELSE balance[i]]
      /\ posted' = [i \in Item |-> posted[i] + (IF gets(i) THEN lines[i[2]] ELSE 0)]
  BY DEF PostReceipts
<1>2. batch' = [b \in Batch |->
            IF of(b) = {} THEN batch[b]
            ELSE [product |-> CHOOSE x \in of(b) : TRUE, warehouse |-> w,
                  onHand |-> held(b) + lines[CHOOSE x \in of(b) : TRUE],
                  blocked |-> IF batch[b] = None THEN blocked ELSE batch[b].blocked]]
  BY DEF PostReceipts
<1>3. DOMAIN lines \subseteq Product /\ \A x \in DOMAIN lines : lines[x] \in Nat
  BY BoundsAreNaturals DEF Lines, Quantity
<1>4. balance \in [Item -> BalanceRow] /\ posted \in [Item -> Int]
      /\ batch \in [Batch -> BatchRow \cup {None}]
  BY DEF StockTypeOK
<1>5. ASSUME NEW i \in Item PROVE balance'[i] \in BalanceRow /\ posted'[i] \in Int /\ Posted(i)
  <2>1. CASE gets(i)
    <3>1. lines[i[2]] \in Nat
      BY <1>3, <2>1
    <3>2. balance'[i] = Increased(balance[i], lines[i[2]]) /\ posted'[i] = posted[i] + lines[i[2]]
      BY <1>1, <2>1
    <3>3. Increased(balance[i], lines[i[2]]) \in BalanceRow
      BY <1>4, <3>1, RowsStayRows
    <3>4. posted'[i] \in Int
      BY <1>4, <3>1, <3>2
    <3>5. Posted(i)
      BY <3>1, <3>2 DEF Posted
    <3> QED
      BY <3>2, <3>3, <3>4, <3>5
  <2>2. CASE ~gets(i)
    <3>1. balance'[i] = balance[i] /\ posted'[i] = posted[i]
      BY <1>1, <1>4, <2>2
    <3> QED
      BY <1>4, <3>1 DEF Posted
  <2> QED
    BY <2>1, <2>2
<1>6. ASSUME NEW b \in Batch PROVE batch'[b] \in BatchRow \cup {None}
  <2>1. CASE of(b) = {}
    BY <1>2, <1>4, <2>1
  <2>2. CASE of(b) # {}
    <3>1. PICK x : x = CHOOSE y \in of(b) : TRUE
      OBVIOUS
    <3>2. x \in of(b)
      BY <2>2, <3>1
    <3>3. x \in Product /\ lines[x] \in Nat
      BY <1>3, <3>2
    <3>4. held(b) \in Int /\ (batch[b] # None => batch[b].blocked \in BOOLEAN)
      BY <1>4 DEF BatchRow
    <3>5. batch'[b] = [product |-> x, warehouse |-> w, onHand |-> held(b) + lines[x],
                       blocked |-> IF batch[b] = None THEN blocked ELSE batch[b].blocked]
      BY <1>2, <2>2, <3>1
    <3>6. PICK h \in Int : h = held(b) + lines[x]
      BY <3>3, <3>4
    <3>7. PICK c \in BOOLEAN : c = IF batch[b] = None THEN blocked ELSE batch[b].blocked
      BY <3>4
    <3> HIDE DEF held, of
    <3>8. batch'[b] = [product |-> x, warehouse |-> w, onHand |-> h, blocked |-> c]
      BY <3>5, <3>6, <3>7
    <3> QED
      BY <3>3, <3>8 DEF BatchRow
  <2> QED
    BY <2>1, <2>2
<1> HIDE DEF gets, of, held
<1>7. /\ balance' \in [Item -> BalanceRow] /\ posted' \in [Item -> Int]
      /\ batch' \in [Batch -> BatchRow \cup {None}]
  BY <1>1, <1>2, <1>5, <1>6
<1> QED
  BY <1>5, <1>7 DEF StockTypeOK
-----------------------------------------------------------------------------
\* What a receipt is written for.
LEMMA Ordered ==
  ASSUME DocumentsInv, NEW o \in PurchaseOrder, purchaseOrder[o] # None
  PROVE  /\ purchaseOrder[o] \in OrderRow
         /\ purchaseOrder[o].lines \in Lines /\ purchaseOrder[o].cost \in Nat
         /\ purchaseOrder[o].request \in Rows(purchaseRequest)
<1>1. o \in Rows(purchaseOrder)
  BY DEF DocumentsInv, DocumentTypeOK, Rows
<1>2. purchaseOrder[o] \in OrderRow
  BY <1>1, RowsTyped DEF DocumentsInv
<1> QED
  BY <1>1, <1>2 DEF OrderRow, DocumentsInv, Referenced

LEMMA Requisitioned ==
  ASSUME DocumentsInv, NEW r \in PurchaseRequest, purchaseRequest[r] # None
  PROVE  /\ r \in Rows(purchaseRequest)
         /\ purchaseRequest[r] \in RequestRow
         /\ purchaseRequest[r].lines \in Lines /\ purchaseRequest[r].cost \in Nat
<1>1. r \in Rows(purchaseRequest)
  BY DEF DocumentsInv, DocumentTypeOK, Rows
<1>2. purchaseRequest[r] \in RequestRow
  BY <1>1, RowsTyped DEF DocumentsInv
<1> QED
  BY <1>1, <1>2 DEF RequestRow

\* What is requested costs a natural number.
LEMMA RequestCosts ==
  ASSUME DocumentsInv, NEW p \in MealPlan, DOMAIN ShortageLines(p) # {}
  PROVE  ShortageLines(p) \in Lines /\ CostOf(ShortageLines(p), StandardCost) \in Nat
<1>1. ShortageLines(p) \in Lines
  BY ShortageTyped DEF DocumentsInv
<1>2. \A x \in Product : StandardCost[x] \in Nat
  BY CostsAreNaturals
<1> QED
  BY <1>1, <1>2, CostIsNatural

LEMMA Receipted ==
  ASSUME DocumentsInv, NEW g \in GoodsReceipt, goodsReceipt[g] # None
  PROVE  g \in Rows(goodsReceipt) /\ goodsReceipt[g] \in ReceiptRow /\ goodsReceipt[g].cost \in Nat
<1>1. g \in Rows(goodsReceipt)
  BY DEF DocumentsInv, DocumentTypeOK, Rows
<1>2. goodsReceipt[g] \in ReceiptRow
  BY <1>1, RowsTyped DEF DocumentsInv
<1> QED
  BY <1>1, <1>2 DEF ReceiptRow

\* Every step charges the budgets once, with a natural number, or not at all.
LEMMA BudgetsCharged ==
  ASSUME DocumentsInv, [Next]_vars
  PROVE  [BudgetNext]_budgetVars
<1>1. Chart \subseteq Account /\ PlanDay \in [MealPlan -> Day]
  BY ChartHasAccounts, PlansAreDated
<1>2. ASSUME NEW r \in PurchaseRequest, NEW p \in MealPlan, CreatePurchaseRequest(r, p)
      PROVE  [BudgetNext]_budgetVars
  <2>1. CostOf(ShortageLines(p), StandardCost) \in Nat
    BY <1>2, RequestCosts DEF CreatePurchaseRequest
  <2>2. CASE Expense \in Chart
    <3>1. ReserveBudget(Expense, CostOf(ShortageLines(p), StandardCost), PlanDay[p])
      BY <1>2, <2>2 DEF CreatePurchaseRequest
    <3> QED
      BY <1>1, <2>1, <2>2, <3>1 DEF BudgetNext
  <2>3. CASE Expense \notin Chart
    BY <1>2, <2>3 DEF CreatePurchaseRequest
  <2> QED
    BY <2>2, <2>3
<1>3. ASSUME NEW cost \in Nat, NEW day \in Day, ReceiptSideEffects(cost, day)
      PROVE  [BudgetNext]_budgetVars
  <2>1. CASE Expense \in Chart
    <3>1. CommitBudget(Expense, cost, day)
      BY <1>3, <2>1 DEF ReceiptSideEffects
    <3> QED
      BY <1>1, <2>1, <3>1 DEF BudgetNext
  <2>2. CASE Expense \notin Chart
    BY <1>3, <2>2 DEF ReceiptSideEffects
  <2> QED
    BY <2>1, <2>2
<1>4. ASSUME NEW g \in GoodsReceipt, NEW r \in PurchaseRequest, NEW w \in Warehouse,
             NEW day \in Day, ReceiveRequest(g, r, w, day)
      PROVE  [BudgetNext]_budgetVars
  <2>1. ReceiptSideEffects(purchaseRequest[r].cost, day) /\ purchaseRequest[r] # None
    BY <1>4 DEF ReceiveRequest, WriteReceipt
  <2> QED
    BY <1>3, <2>1, Requisitioned
<1>5. ASSUME NEW g \in GoodsReceipt, NEW o \in PurchaseOrder, NEW w \in Warehouse,
             NEW day \in Day, NEW batchOf, NEW blocked \in BOOLEAN,
             ReceiveOrder(g, o, w, day, batchOf, blocked)
      PROVE  [BudgetNext]_budgetVars
  <2>1. ReceiptSideEffects(purchaseOrder[o].cost, day) /\ purchaseOrder[o] # None
    BY <1>5 DEF ReceiveOrder, WriteReceipt
  <2> QED
    BY <1>3, <2>1, Ordered
<1>6. ASSUME NEW v \in SupplierInvoice, NEW g \in GoodsReceipt, NEW account \in Chart \cup {None},
             NEW day \in Day, CreateSupplierInvoice(v, g, account, day)
      PROVE  [BudgetNext]_budgetVars
  <2>1. goodsReceipt[g].cost \in Nat
    BY <1>6, Receipted DEF CreateSupplierInvoice
  <2>2. CASE account # None
    <3>1. ActualizeBudget(account, goodsReceipt[g].cost, day) /\ account \in Chart
      BY <1>6, <2>2 DEF CreateSupplierInvoice
    <3> QED
      BY <1>1, <2>1, <3>1 DEF BudgetNext
  <2>3. CASE account = None
    BY <1>6, <2>3 DEF CreateSupplierInvoice
  <2> QED
    BY <2>2, <2>3
<1>7. ASSUME Meanwhile PROVE [BudgetNext]_budgetVars
  BY <1>7 DEF Meanwhile, BudgetNext
<1>8. CASE UNCHANGED vars
  BY <1>8 DEF vars
<1> QED
  BY <1>2, <1>4, <1>5, <1>6, <1>7, <1>8 DEF Next, CreatePurchaseOrder, CreateSupplierPayment

\* Every step leaves stock alone, or posts what the ledger says of it.
LEMMA StockServed ==
  ASSUME DocumentsInv, [Next]_vars
  PROVE  StockTypeOK' /\ ReconciledInv'
<1>1. StockTypeOK /\ ReconciledInv
  BY DEF DocumentsInv
<1>2. ASSUME UNCHANGED stockVars PROVE StockTypeOK' /\ ReconciledInv'
  BY <1>1, <1>2 DEF stockVars, StockTypeOK, ReconciledInv, BalanceIsLedger
<1>3. ASSUME NEW w \in Warehouse, NEW lines \in Lines, NEW batchOf,
             DOMAIN batchOf \subseteq DOMAIN lines, NEW blocked \in BOOLEAN,
             PostReceipts(w, lines, batchOf, blocked)
      PROVE  StockTypeOK' /\ ReconciledInv'
  BY <1>1, <1>3, ReceiptsPosted, PostingsReconcile
<1>4. ASSUME NEW g \in GoodsReceipt, NEW r \in PurchaseRequest, NEW w \in Warehouse,
             NEW day \in Day, ReceiveRequest(g, r, w, day)
      PROVE  StockTypeOK' /\ ReconciledInv'
  <2>1. PostReceipts(w, purchaseRequest[r].lines, <<>>, FALSE) /\ purchaseRequest[r].lines \in Lines
    BY <1>4, Requisitioned DEF ReceiveRequest
  <2>2. DOMAIN <<>> \subseteq DOMAIN purchaseRequest[r].lines
    OBVIOUS
  <2> QED
    BY <1>3, <2>1, <2>2
<1>5. ASSUME NEW g \in GoodsReceipt, NEW o \in PurchaseOrder, NEW w \in Warehouse,
             NEW day \in Day, NEW batchOf, NEW blocked \in BOOLEAN,
             ReceiveOrder(g, o, w, day, batchOf, blocked)
      PROVE  StockTypeOK' /\ ReconciledInv'
  <2>1. /\ PostReceipts(w, purchaseOrder[o].lines, batchOf, blocked)
        /\ purchaseOrder[o].lines \in Lines
        /\ DOMAIN batchOf \subseteq DOMAIN purchaseOrder[o].lines
    BY <1>5, Ordered DEF ReceiveOrder
  <2> QED
    BY <1>3, <2>1
<1>6. ASSUME Meanwhile PROVE StockTypeOK' /\ ReconciledInv'
  <2>1. ASSUME NEW i \in Item, NEW q \in Quantity, PostOutbound(i, q, None)
        PROVE  StockTypeOK' /\ ReconciledInv'
    <3>1. StockNext
      BY <2>1 DEF StockNext
    <3> QED
      BY <1>1, <3>1, StockStep, PostingsReconcile
  <2> QED
    BY <1>2, <1>6, <2>1 DEF Meanwhile
<1>7. CASE UNCHANGED vars
  BY <1>2, <1>7 DEF vars
<1> QED
  BY <1>2, <1>4, <1>5, <1>6, <1>7 DEF Next, CreatePurchaseRequest, CreatePurchaseOrder,
     CreateSupplierInvoice, CreateSupplierPayment
-----------------------------------------------------------------------------
\* A journal raises one account and lowers another.
LEMMA JournalPosted ==
  ASSUME ledger \in [Code -> Int], NEW debit \in Code, NEW credit \in Code, debit # credit,
         NEW q \in Nat, PostJournal(debit, credit, q)
  PROVE  /\ ledger' \in [Code -> Int]
         /\ ledger'[debit] = ledger[debit] + q /\ ledger'[credit] = ledger[credit] - q
         /\ \A c \in Code \ {debit, credit} : ledger'[c] = ledger[c]
<1>1. ledger' = [ledger EXCEPT ![debit] = @ + q, ![credit] = @ - q]
  BY DEF PostJournal
<1>2. /\ ledger'[debit] = ledger[debit] + q /\ ledger'[credit] = ledger[credit] - q
      /\ \A c \in Code \ {debit, credit} : ledger'[c] = ledger[c]
  BY <1>1
<1>3. ledger' \in [Code -> Int]
  BY <1>1
<1> QED
  BY <1>2, <1>3

LEMMA CodesDiffer ==
  /\ {Inventory, Accrual, Payable, Cash, Expense} \subseteq Code
  /\ Inventory # Accrual /\ Inventory # Payable /\ Inventory # Cash
  /\ Accrual # Payable /\ Accrual # Cash /\ Payable # Cash
  BY DEF Code, Inventory, Accrual, Payable, Cash, Expense

\* What each request writes of the documents.
LEMMA RequestWritten ==
  ASSUME DocumentsInv, NEW r \in PurchaseRequest, NEW p \in MealPlan, CreatePurchaseRequest(r, p)
  PROVE  /\ purchaseRequest' \in [PurchaseRequest -> RequestRow \cup {None}]
         /\ r \notin Rows(purchaseRequest)
         /\ Rows(purchaseRequest') = Rows(purchaseRequest) \cup {r}
         /\ \A s \in Rows(purchaseRequest) : purchaseRequest'[s] = purchaseRequest[s]
         /\ purchaseRequest'[r].cost = CostOf(ShortageLines(p), StandardCost)
         /\ purchaseRequest'[r].on = IF Expense \in Chart THEN LinesOf(Expense, PlanDay[p]) ELSE {}
<1>1. /\ ShortageLines(p) \in Lines /\ CostOf(ShortageLines(p), StandardCost) \in Nat
      /\ purchaseRequest[r] = None
  BY RequestCosts DEF CreatePurchaseRequest
<1>2. PICK cost \in Nat : cost = CostOf(ShortageLines(p), StandardCost)
  BY <1>1
<1>3. PICK on \in SUBSET BudgetLine :
         on = IF Expense \in Chart THEN LinesOf(Expense, PlanDay[p]) ELSE {}
  BY DEF LinesOf
<1> DEFINE row == [plan |-> p, lines |-> ShortageLines(p), cost |-> cost, status |-> "DRAFT", on |-> on]
<1>4. row \in RequestRow /\ row.cost = cost /\ row.on = on
  BY <1>1 DEF RequestRow
<1>5. purchaseRequest' = [purchaseRequest EXCEPT ![r] = row]
  BY <1>2, <1>3 DEF CreatePurchaseRequest
<1> HIDE DEF row
<1>6. purchaseRequest \in [PurchaseRequest -> RequestRow \cup {None}] /\ None \notin RequestRow
  BY NoneIsNoDocument DEF DocumentsInv, DocumentTypeOK
<1>7. /\ purchaseRequest' \in [PurchaseRequest -> RequestRow \cup {None}]
      /\ r \notin Rows(purchaseRequest)
      /\ Rows(purchaseRequest') = Rows(purchaseRequest) \cup {r}
      /\ \A s \in Rows(purchaseRequest) : purchaseRequest'[s] = purchaseRequest[s]
      /\ purchaseRequest'[r] = row
  BY <1>1, <1>4, <1>5, <1>6 DEF Rows
<1> QED
  BY <1>2, <1>3, <1>4, <1>7

LEMMA OrderWritten ==
  ASSUME DocumentsInv, NEW o \in PurchaseOrder, NEW r \in PurchaseRequest, NEW kind \in {"PO", "RFQ"},
         NEW price \in [Product -> Price \cup {StandardCost[x] : x \in Product}],
         CreatePurchaseOrder(o, r, kind, price)
  PROVE  /\ purchaseOrder' \in [PurchaseOrder -> OrderRow \cup {None}]
         /\ \A t \in Rows(purchaseOrder') : purchaseOrder'[t].request \in Rows(purchaseRequest)
         /\ purchaseRequest' \in [PurchaseRequest -> RequestRow \cup {None}]
         /\ Rows(purchaseRequest') = Rows(purchaseRequest)
         /\ \A s \in Rows(purchaseRequest) :
               purchaseRequest'[s].on = purchaseRequest[s].on /\ purchaseRequest'[s].cost = purchaseRequest[s].cost
<1>1. /\ r \in Rows(purchaseRequest) /\ purchaseRequest[r].lines \in Lines
      /\ purchaseOrder[o] = None
  BY Requisitioned DEF CreatePurchaseOrder
<1>2. CostOf(purchaseRequest[r].lines, price) \in Nat
  <2>1. \A x \in Product : price[x] \in Nat
    BY CostsAreNaturals
  <2> QED
    BY <1>1, <2>1, CostIsNatural
<1> DEFINE row == [request |-> r, lines |-> purchaseRequest[r].lines,
                   cost |-> CostOf(purchaseRequest[r].lines, price),
                   status |-> IF kind = "RFQ" THEN "SENT" ELSE "APPROVED"]
<1>3. row \in OrderRow /\ row.request = r
  BY <1>1, <1>2 DEF OrderRow
<1>4. purchaseOrder' = [purchaseOrder EXCEPT ![o] = row]
  BY DEF CreatePurchaseOrder
<1> HIDE DEF row
<1>5. purchaseOrder \in [PurchaseOrder -> OrderRow \cup {None}]
  BY DEF DocumentsInv, DocumentTypeOK
<1>6. /\ purchaseOrder' \in [PurchaseOrder -> OrderRow \cup {None}]
      /\ purchaseOrder'[o] = row
      /\ \A t \in Rows(purchaseOrder') \ {o} :
            t \in Rows(purchaseOrder) /\ purchaseOrder'[t] = purchaseOrder[t]
  BY <1>3, <1>4, <1>5 DEF Rows
<1>7. \A t \in Rows(purchaseOrder') : purchaseOrder'[t].request \in Rows(purchaseRequest)
  BY <1>1, <1>3, <1>6 DEF DocumentsInv, Referenced
<1>8. purchaseRequest' = [purchaseRequest EXCEPT ![r].status = "ORDERED"] /\ DocumentTypeOK
  BY DEF CreatePurchaseOrder, DocumentsInv
<1> QED
  BY <1>1, <1>6, <1>7, <1>8, StatusWritten

LEMMA ReceiptWritten ==
  ASSUME DocumentsInv, NEW g \in GoodsReceipt, NEW r \in Rows(purchaseRequest), NEW cost \in Nat,
         NEW day \in Day, WriteReceipt(g, r, cost, day)
  PROVE  /\ goodsReceipt' \in [GoodsReceipt -> ReceiptRow \cup {None}]
         /\ g \notin Rows(goodsReceipt) /\ Rows(goodsReceipt') = Rows(goodsReceipt) \cup {g}
         /\ \A h \in Rows(goodsReceipt) : goodsReceipt'[h] = goodsReceipt[h]
         /\ goodsReceipt'[g].request = r /\ goodsReceipt'[g].cost = cost
         /\ goodsReceipt'[g].on = IF Expense \in Chart THEN LinesOf(Expense, day) ELSE {}
         /\ purchaseRequest' \in [PurchaseRequest -> RequestRow \cup {None}]
         /\ Rows(purchaseRequest') = Rows(purchaseRequest)
         /\ \A s \in Rows(purchaseRequest) :
               purchaseRequest'[s].on = purchaseRequest[s].on /\ purchaseRequest'[s].cost = purchaseRequest[s].cost
<1>1. r \in PurchaseRequest /\ goodsReceipt[g] = None
  BY RowsTyped DEF WriteReceipt, DocumentsInv
<1>2. PICK on \in SUBSET BudgetLine :
         on = IF Expense \in Chart THEN LinesOf(Expense, day) ELSE {}
  BY DEF LinesOf
<1> DEFINE row == [request |-> r, cost |-> cost, on |-> on]
<1>3. row \in ReceiptRow /\ row.request = r /\ row.cost = cost /\ row.on = on
  BY <1>1 DEF ReceiptRow
<1>4. goodsReceipt' = [goodsReceipt EXCEPT ![g] = row]
  BY <1>2 DEF WriteReceipt
<1> HIDE DEF row
<1>5. goodsReceipt \in [GoodsReceipt -> ReceiptRow \cup {None}] /\ None \notin ReceiptRow
  BY NoneIsNoDocument DEF DocumentsInv, DocumentTypeOK
<1>6. /\ goodsReceipt' \in [GoodsReceipt -> ReceiptRow \cup {None}]
      /\ g \notin Rows(goodsReceipt) /\ Rows(goodsReceipt') = Rows(goodsReceipt) \cup {g}
      /\ \A h \in Rows(goodsReceipt) : goodsReceipt'[h] = goodsReceipt[h]
      /\ goodsReceipt'[g] = row
  BY <1>1, <1>3, <1>4, <1>5 DEF Rows
<1>7. purchaseRequest' = [purchaseRequest EXCEPT ![r].status = "RECEIVED"] /\ DocumentTypeOK
  BY DEF WriteReceipt, DocumentsInv
<1>8. /\ purchaseRequest' \in [PurchaseRequest -> RequestRow \cup {None}]
      /\ Rows(purchaseRequest') = Rows(purchaseRequest)
      /\ \A s \in Rows(purchaseRequest) :
            purchaseRequest'[s].on = purchaseRequest[s].on /\ purchaseRequest'[s].cost = purchaseRequest[s].cost
  BY <1>7, StatusWritten
<1> QED
  BY <1>2, <1>3, <1>6, <1>8

LEMMA InvoiceWritten ==
  ASSUME DocumentsInv, NEW v \in SupplierInvoice, NEW g \in GoodsReceipt, NEW account, NEW day,
         CreateSupplierInvoice(v, g, account, day)
  PROVE  /\ supplierInvoice' \in [SupplierInvoice -> InvoiceRow \cup {None}]
         /\ v \notin Rows(supplierInvoice) /\ Rows(supplierInvoice') = Rows(supplierInvoice) \cup {v}
         /\ \A u \in Rows(supplierInvoice) : supplierInvoice'[u] = supplierInvoice[u]
         /\ supplierInvoice'[v].receipt = g /\ supplierInvoice'[v].status = "POSTED"
         /\ supplierInvoice'[v].cost = goodsReceipt[g].cost
<1>1. goodsReceipt[g].cost \in Nat /\ supplierInvoice[v] = None
  BY Receipted DEF CreateSupplierInvoice
<1> DEFINE row == [receipt |-> g, cost |-> goodsReceipt[g].cost, status |-> "POSTED"]
<1>2. /\ row \in InvoiceRow /\ row.receipt = g /\ row.cost = goodsReceipt[g].cost
      /\ row.status = "POSTED"
  BY <1>1 DEF InvoiceRow
<1>3. supplierInvoice' = [supplierInvoice EXCEPT ![v] = row]
  BY DEF CreateSupplierInvoice
<1> HIDE DEF row
<1>4. supplierInvoice \in [SupplierInvoice -> InvoiceRow \cup {None}] /\ None \notin InvoiceRow
  BY NoneIsNoDocument DEF DocumentsInv, DocumentTypeOK
<1>5. /\ supplierInvoice' \in [SupplierInvoice -> InvoiceRow \cup {None}]
      /\ v \notin Rows(supplierInvoice) /\ Rows(supplierInvoice') = Rows(supplierInvoice) \cup {v}
      /\ \A u \in Rows(supplierInvoice) : supplierInvoice'[u] = supplierInvoice[u]
      /\ supplierInvoice'[v] = row
  BY <1>1, <1>2, <1>3, <1>4 DEF Rows
<1> QED
  BY <1>2, <1>5

LEMMA PaymentWritten ==
  ASSUME DocumentsInv, NEW y \in SupplierPayment, NEW v \in SupplierInvoice, CreateSupplierPayment(y, v)
  PROVE  /\ supplierPayment' \in [SupplierPayment -> PaymentRow \cup {None}]
         /\ y \notin Rows(supplierPayment) /\ Rows(supplierPayment') = Rows(supplierPayment) \cup {y}
         /\ \A z \in Rows(supplierPayment) : supplierPayment'[z] = supplierPayment[z]
         /\ supplierPayment'[y].cost = supplierInvoice[v].cost
         /\ supplierInvoice' \in [SupplierInvoice -> InvoiceRow \cup {None}]
         /\ v \in Rows(supplierInvoice) /\ supplierInvoice[v].status = "POSTED"
         /\ Rows(supplierInvoice') = Rows(supplierInvoice)
         /\ supplierInvoice'[v].status = "PAID"
         /\ supplierInvoice'[v].receipt = supplierInvoice[v].receipt
         /\ \A u \in Rows(supplierInvoice) \ {v} : supplierInvoice'[u] = supplierInvoice[u]
<1>1. /\ supplierPayment \in [SupplierPayment -> PaymentRow \cup {None}] /\ None \notin PaymentRow
      /\ supplierInvoice \in [SupplierInvoice -> InvoiceRow \cup {None}] /\ None \notin InvoiceRow
  BY NoneIsNoDocument DEF DocumentsInv, DocumentTypeOK
<1>2. /\ v \in Rows(supplierInvoice) /\ supplierInvoice[v].status = "POSTED"
      /\ supplierInvoice[v] \in InvoiceRow /\ supplierPayment[y] = None
  BY <1>1 DEF CreateSupplierPayment, Rows
<1> DEFINE row == [invoice |-> v, cost |-> supplierInvoice[v].cost]
           paid == [supplierInvoice[v] EXCEPT !.status = "PAID"]
<1>3. /\ row \in PaymentRow /\ row.cost = supplierInvoice[v].cost
      /\ paid \in InvoiceRow /\ paid.status = "PAID" /\ paid.receipt = supplierInvoice[v].receipt
  BY <1>2 DEF PaymentRow, InvoiceRow
<1>4. /\ supplierPayment' = [supplierPayment EXCEPT ![y] = row]
      /\ supplierInvoice' = [supplierInvoice EXCEPT ![v] = paid]
  BY <1>1 DEF CreateSupplierPayment
<1> HIDE DEF row, paid
<1>5. /\ supplierPayment' \in [SupplierPayment -> PaymentRow \cup {None}]
      /\ y \notin Rows(supplierPayment) /\ Rows(supplierPayment') = Rows(supplierPayment) \cup {y}
      /\ \A z \in Rows(supplierPayment) : supplierPayment'[z] = supplierPayment[z]
      /\ supplierPayment'[y] = row
  BY <1>1, <1>2, <1>3, <1>4 DEF Rows
<1>6. /\ supplierInvoice' \in [SupplierInvoice -> InvoiceRow \cup {None}]
      /\ Rows(supplierInvoice') = Rows(supplierInvoice)
      /\ supplierInvoice'[v] = paid
      /\ \A u \in Rows(supplierInvoice) \ {v} : supplierInvoice'[u] = supplierInvoice[u]
  BY <1>1, <1>2, <1>3, <1>4 DEF Rows
<1> QED
  BY <1>2, <1>3, <1>5, <1>6
-----------------------------------------------------------------------------
\* The documents after each request.
DocumentsKept == DocumentTypeOK' /\ Referenced' /\ RowsAreFinite'

LEMMA RequestKeepsDocuments ==
  ASSUME DocumentsInv, NEW r \in PurchaseRequest, NEW p \in MealPlan, CreatePurchaseRequest(r, p)
  PROVE  DocumentsKept
<1>1. UNCHANGED <<purchaseOrder, goodsReceipt, supplierInvoice, supplierPayment, ledger>>
  BY DEF CreatePurchaseRequest
<1>2. /\ purchaseRequest' \in [PurchaseRequest -> RequestRow \cup {None}]
      /\ Rows(purchaseRequest') = Rows(purchaseRequest) \cup {r}
  BY RequestWritten
<1>3. DocumentTypeOK'
  BY <1>1, <1>2 DEF DocumentsInv, DocumentTypeOK
<1>4. Referenced'
  BY <1>1, <1>2 DEF DocumentsInv, Referenced
<1>5. IsFiniteSet(Rows(purchaseRequest) \cup {r})
  BY FS_AddElement DEF DocumentsInv, RowsAreFinite
<1>6. RowsAreFinite'
  BY <1>1, <1>2, <1>5 DEF DocumentsInv, RowsAreFinite
<1> QED
  BY <1>3, <1>4, <1>6 DEF DocumentsKept

LEMMA OrderKeepsDocuments ==
  ASSUME DocumentsInv, NEW o \in PurchaseOrder, NEW r \in PurchaseRequest, NEW kind \in {"PO", "RFQ"},
         NEW price \in [Product -> Price \cup {StandardCost[x] : x \in Product}],
         CreatePurchaseOrder(o, r, kind, price)
  PROVE  DocumentsKept
<1>1. UNCHANGED <<goodsReceipt, supplierInvoice, supplierPayment, ledger>>
  BY DEF CreatePurchaseOrder
<1>2. /\ purchaseOrder' \in [PurchaseOrder -> OrderRow \cup {None}]
      /\ \A t \in Rows(purchaseOrder') : purchaseOrder'[t].request \in Rows(purchaseRequest)
      /\ purchaseRequest' \in [PurchaseRequest -> RequestRow \cup {None}]
      /\ Rows(purchaseRequest') = Rows(purchaseRequest)
  BY OrderWritten
<1>3. DocumentTypeOK'
  BY <1>1, <1>2 DEF DocumentsInv, DocumentTypeOK
<1>4. Referenced'
  BY <1>1, <1>2 DEF DocumentsInv, Referenced
<1>5. RowsAreFinite'
  BY <1>1, <1>2 DEF DocumentsInv, RowsAreFinite
<1> QED
  BY <1>3, <1>4, <1>5 DEF DocumentsKept

\* An order received is still an order for the same request.
LEMMA ReceiptKeepsDocuments ==
  ASSUME DocumentsInv, NEW g \in GoodsReceipt, NEW r \in Rows(purchaseRequest), NEW cost \in Nat,
         NEW day \in Day, WriteReceipt(g, r, cost, day),
         \/ UNCHANGED purchaseOrder
         \/ \E o \in Rows(purchaseOrder) :
               purchaseOrder' = [purchaseOrder EXCEPT ![o].status = "RECEIVED"]
  PROVE  DocumentsKept
<1>1. UNCHANGED <<supplierInvoice, supplierPayment>> /\ PostJournal(Inventory, Accrual, cost)
  BY DEF WriteReceipt, ReceiptSideEffects
<1>2. ledger' \in [Code -> Int]
  BY <1>1, CodesDiffer, JournalPosted DEF DocumentsInv, DocumentTypeOK
<1>3. /\ goodsReceipt' \in [GoodsReceipt -> ReceiptRow \cup {None}]
      /\ Rows(goodsReceipt') = Rows(goodsReceipt) \cup {g}
      /\ \A h \in Rows(goodsReceipt) : goodsReceipt'[h] = goodsReceipt[h]
      /\ goodsReceipt'[g].request = r
      /\ purchaseRequest' \in [PurchaseRequest -> RequestRow \cup {None}]
      /\ Rows(purchaseRequest') = Rows(purchaseRequest)
  BY ReceiptWritten
<1>4. /\ purchaseOrder' \in [PurchaseOrder -> OrderRow \cup {None}]
      /\ \A t \in Rows(purchaseOrder') : purchaseOrder'[t].request \in Rows(purchaseRequest)
  <2>1. CASE UNCHANGED purchaseOrder
    BY <2>1 DEF DocumentsInv, DocumentTypeOK, Referenced
  <2>2. ASSUME NEW o \in Rows(purchaseOrder),
               purchaseOrder' = [purchaseOrder EXCEPT ![o].status = "RECEIVED"]
        PROVE  /\ purchaseOrder' \in [PurchaseOrder -> OrderRow \cup {None}]
               /\ \A t \in Rows(purchaseOrder') : purchaseOrder'[t].request \in Rows(purchaseRequest)
    <3>1. o \in PurchaseOrder /\ purchaseOrder[o] \in OrderRow
      BY RowsTyped DEF DocumentsInv
    <3> DEFINE row == [purchaseOrder[o] EXCEPT !.status = "RECEIVED"]
    <3>2. row \in OrderRow /\ row.request = purchaseOrder[o].request
      BY <3>1 DEF OrderRow
    <3>3. purchaseOrder' = [purchaseOrder EXCEPT ![o] = row]
      BY <2>2, <3>1 DEF DocumentsInv, DocumentTypeOK
    <3> HIDE DEF row
    <3>4. purchaseOrder \in [PurchaseOrder -> OrderRow \cup {None}]
      BY DEF DocumentsInv, DocumentTypeOK
    <3>5. /\ purchaseOrder' \in [PurchaseOrder -> OrderRow \cup {None}]
          /\ purchaseOrder'[o] = row
          /\ \A t \in Rows(purchaseOrder') \ {o} :
                t \in Rows(purchaseOrder) /\ purchaseOrder'[t] = purchaseOrder[t]
      BY <3>1, <3>2, <3>3, <3>4 DEF Rows
    <3>6. \A t \in Rows(purchaseOrder') : purchaseOrder'[t].request \in Rows(purchaseRequest)
      BY <3>2, <3>5 DEF DocumentsInv, Referenced
    <3> QED
      BY <3>5, <3>6
  <2> QED
    BY <2>1, <2>2
<1>5. DocumentTypeOK'
  BY <1>1, <1>2, <1>3, <1>4 DEF DocumentsInv, DocumentTypeOK
<1>6. Referenced'
  BY <1>1, <1>3, <1>4 DEF DocumentsInv, Referenced
<1>7. IsFiniteSet(Rows(goodsReceipt) \cup {g})
  BY FS_AddElement DEF DocumentsInv, RowsAreFinite
<1>8. RowsAreFinite'
  BY <1>1, <1>3, <1>7 DEF DocumentsInv, RowsAreFinite
<1> QED
  BY <1>5, <1>6, <1>8 DEF DocumentsKept

LEMMA InvoiceKeepsDocuments ==
  ASSUME DocumentsInv, NEW v \in SupplierInvoice, NEW g \in GoodsReceipt, NEW account, NEW day,
         CreateSupplierInvoice(v, g, account, day)
  PROVE  DocumentsKept
<1>1. /\ UNCHANGED <<purchaseRequest, purchaseOrder, goodsReceipt, supplierPayment>>
      /\ PostJournal(Accrual, Payable, goodsReceipt[g].cost)
      /\ g \in Rows(goodsReceipt) /\ goodsReceipt[g].cost \in Nat
  BY Receipted DEF CreateSupplierInvoice
<1>2. ledger' \in [Code -> Int]
  BY <1>1, CodesDiffer, JournalPosted DEF DocumentsInv, DocumentTypeOK
<1>3. /\ supplierInvoice' \in [SupplierInvoice -> InvoiceRow \cup {None}]
      /\ Rows(supplierInvoice') = Rows(supplierInvoice) \cup {v}
      /\ \A u \in Rows(supplierInvoice) : supplierInvoice'[u] = supplierInvoice[u]
      /\ supplierInvoice'[v].receipt = g
  BY InvoiceWritten
<1>4. DocumentTypeOK'
  BY <1>1, <1>2, <1>3 DEF DocumentsInv, DocumentTypeOK
<1>5. Referenced'
  BY <1>1, <1>3 DEF DocumentsInv, Referenced
<1>6. IsFiniteSet(Rows(supplierInvoice) \cup {v})
  BY FS_AddElement DEF DocumentsInv, RowsAreFinite
<1>7. RowsAreFinite'
  BY <1>1, <1>3, <1>6 DEF DocumentsInv, RowsAreFinite
<1> QED
  BY <1>4, <1>5, <1>7 DEF DocumentsKept

LEMMA PaymentKeepsDocuments ==
  ASSUME DocumentsInv, NEW y \in SupplierPayment, NEW v \in SupplierInvoice, CreateSupplierPayment(y, v)
  PROVE  DocumentsKept
<1>1. /\ supplierPayment' \in [SupplierPayment -> PaymentRow \cup {None}]
      /\ Rows(supplierPayment') = Rows(supplierPayment) \cup {y}
      /\ supplierInvoice' \in [SupplierInvoice -> InvoiceRow \cup {None}]
      /\ v \in Rows(supplierInvoice)
      /\ Rows(supplierInvoice') = Rows(supplierInvoice)
      /\ supplierInvoice'[v].receipt = supplierInvoice[v].receipt
      /\ \A u \in Rows(supplierInvoice) \ {v} : supplierInvoice'[u] = supplierInvoice[u]
  BY PaymentWritten
<1>2. /\ UNCHANGED <<purchaseRequest, purchaseOrder, goodsReceipt>>
      /\ PostJournal(Payable, Cash, supplierInvoice[v].cost)
  BY DEF CreateSupplierPayment
<1>3. supplierInvoice[v].cost \in Nat
  BY <1>1, RowsTyped DEF DocumentsInv, InvoiceRow
<1>4. ledger' \in [Code -> Int]
  BY <1>2, <1>3, CodesDiffer, JournalPosted DEF DocumentsInv, DocumentTypeOK
<1>5. DocumentTypeOK'
  BY <1>1, <1>2, <1>4 DEF DocumentsInv, DocumentTypeOK
<1>6. Referenced'
  BY <1>1, <1>2 DEF DocumentsInv, Referenced
<1>7. IsFiniteSet(Rows(supplierPayment) \cup {y})
  BY FS_AddElement DEF DocumentsInv, RowsAreFinite
<1>8. RowsAreFinite'
  BY <1>1, <1>2, <1>7 DEF DocumentsInv, RowsAreFinite
<1> QED
  BY <1>5, <1>6, <1>8 DEF DocumentsKept

\* Both ways of receiving write a receipt of a request, at its cost.
LEMMA ReceivedEitherWay ==
  ASSUME DocumentsInv, NEW g \in GoodsReceipt, NEW day \in Day,
         \/ \E r \in PurchaseRequest, w \in Warehouse : ReceiveRequest(g, r, w, day)
         \/ \E o \in PurchaseOrder, w \in Warehouse, X \in SUBSET Tracked, blocked \in BOOLEAN :
               \E batchOf \in [X -> Batch] : ReceiveOrder(g, o, w, day, batchOf, blocked)
  PROVE  \E r \in Rows(purchaseRequest), cost \in Nat :
            /\ WriteReceipt(g, r, cost, day)
            /\ \/ UNCHANGED purchaseOrder
               \/ \E o \in Rows(purchaseOrder) :
                     purchaseOrder' = [purchaseOrder EXCEPT ![o].status = "RECEIVED"]
<1>1. ASSUME NEW r \in PurchaseRequest, NEW w \in Warehouse, ReceiveRequest(g, r, w, day)
      PROVE  \E s \in Rows(purchaseRequest), cost \in Nat :
                WriteReceipt(g, s, cost, day) /\ UNCHANGED purchaseOrder
  <2>1. /\ purchaseRequest[r] # None /\ WriteReceipt(g, r, purchaseRequest[r].cost, day)
        /\ UNCHANGED purchaseOrder
    BY <1>1 DEF ReceiveRequest
  <2> QED
    BY <2>1, Requisitioned
<1>2. ASSUME NEW o \in PurchaseOrder, NEW w \in Warehouse, NEW batchOf, NEW blocked \in BOOLEAN,
             ReceiveOrder(g, o, w, day, batchOf, blocked)
      PROVE  /\ o \in Rows(purchaseOrder)
             /\ purchaseOrder' = [purchaseOrder EXCEPT ![o].status = "RECEIVED"]
             /\ \E s \in Rows(purchaseRequest), cost \in Nat : WriteReceipt(g, s, cost, day)
  <2>1. /\ purchaseOrder[o] # None
        /\ WriteReceipt(g, purchaseOrder[o].request, purchaseOrder[o].cost, day)
        /\ purchaseOrder' = [purchaseOrder EXCEPT ![o].status = "RECEIVED"]
    BY <1>2 DEF ReceiveOrder
  <2>2. o \in Rows(purchaseOrder)
    BY <2>1 DEF DocumentsInv, DocumentTypeOK, Rows
  <2> QED
    BY <2>1, <2>2, Ordered
<1> QED
  BY <1>1, <1>2

LEMMA DocumentsStep ==
  ASSUME DocumentsInv, [Next]_vars
  PROVE  DocumentsInv'
<1>1. StockTypeOK' /\ ReconciledInv'
  BY StockServed
<1>2. BudgetTypeOK'
  BY BudgetsCharged, BudgetStep DEF DocumentsInv
<1>3. ASSUME UNCHANGED <<documentVars, ledger>> PROVE DocumentsKept
  BY <1>3 DEF documentVars, DocumentsKept, DocumentsInv, DocumentTypeOK, Referenced, RowsAreFinite, Rows
<1>4. ASSUME NEW g \in GoodsReceipt, NEW day \in Day,
             \/ \E r \in PurchaseRequest, w \in Warehouse : ReceiveRequest(g, r, w, day)
             \/ \E o \in PurchaseOrder, w \in Warehouse, X \in SUBSET Tracked, blocked \in BOOLEAN :
                   \E batchOf \in [X -> Batch] : ReceiveOrder(g, o, w, day, batchOf, blocked)
      PROVE  DocumentsKept
  BY <1>4, ReceivedEitherWay, ReceiptKeepsDocuments
<1>5. DocumentsKept
  <2>1. CASE Meanwhile
    BY <1>3, <2>1 DEF Meanwhile
  <2>2. CASE UNCHANGED vars
    BY <1>3, <2>2 DEF vars
  <2> QED
    BY <1>4, <2>1, <2>2, RequestKeepsDocuments, OrderKeepsDocuments, InvoiceKeepsDocuments,
       PaymentKeepsDocuments DEF Next
<1> QED
  BY <1>1, <1>2, <1>5 DEF DocumentsInv, DocumentsKept

LEMMA DocumentsInit == Init => DocumentsInv
<1> SUFFICES ASSUME Init PROVE DocumentsInv
  OBVIOUS
<1>1. StockTypeOK /\ ReconciledInv /\ BudgetTypeOK
  BY StockInitTyped, ReconciledAtFirst, BudgetStart DEF Init
<1>2. DocumentTypeOK
  BY DEF Init, DocumentTypeOK
<1>3. /\ Rows(purchaseRequest) = {} /\ Rows(purchaseOrder) = {} /\ Rows(goodsReceipt) = {}
      /\ Rows(supplierInvoice) = {} /\ Rows(supplierPayment) = {}
  BY DEF Init, Rows
<1>4. Referenced /\ RowsAreFinite
  BY <1>3, FS_EmptySet DEF Referenced, RowsAreFinite
<1> QED
  BY <1>1, <1>2, <1>4 DEF DocumentsInv

LEMMA DocumentsStand == Spec => []DocumentsInv
<1> QED
  BY DocumentsInit, DocumentsStep, PTL DEF Spec

(***************************************************************************)
(* Documents keep their types, whatever is requested, ordered, received,   *)
(* invoiced and paid in whatever order: no quantity requested exceeds what *)
(* the plan needs, as stock is never below zero, and every order and       *)
(* receipt is of a request.                                                *)
(***************************************************************************)
THEOREM DocumentTypes == Spec => []DocumentTypeOK
<1>1. DocumentsInv => DocumentTypeOK
  BY DEF DocumentsInv
<1> QED
  BY <1>1, DocumentsStand, PTL

(***************************************************************************)
(* Procurement charges the budgets as BudgetLedger says and no other way:  *)
(* each of its requests is one charge of a natural amount, or none.        *)
(***************************************************************************)
THEOREM ProcurementCharges == Spec => BudgetSpec
<1>1. Init => BudgetInit
  BY DEF Init
<1>2. DocumentsInv /\ [Next]_vars => [BudgetNext]_budgetVars
  BY BudgetsCharged
<1> QED
  BY <1>1, <1>2, DocumentsStand, PTL DEF Spec, BudgetSpec

(***************************************************************************)
(* So nothing procurement charges drops out of sight of a line's           *)
(* availability, and no receipt, invoice or repeated order gives           *)
(* availability back.                                                      *)
(***************************************************************************)
THEOREM ProcurementStaysInSight == Spec => []ChargesStayInSight /\ AvailableOnlyShrinks
BY ProcurementCharges, ChargesStay, AvailabilityShrinks, PTL

(***************************************************************************)
(* With procurement serving its requests, every balance still is what the  *)
(* ledger says, and none falls below zero.                                 *)
(***************************************************************************)
THEOREM ProcurementReconciles == Spec => []BalanceIsLedger
<1>1. DocumentsInv => BalanceIsLedger
  BY DEF DocumentsInv, ReconciledInv
<1> QED
  BY <1>1, DocumentsStand, PTL
-----------------------------------------------------------------------------
(* What rows cost as they come and go.                                     *)

LEMMA CostIsNat ==
  ASSUME NEW table, NEW rows, IsFiniteSet(rows), \A k \in rows : table[k].cost \in Nat
  PROVE  CostIn(table, rows) \in Nat
<1> DEFINE costs == [k \in rows |-> table[k].cost]
<1>1. \A k \in rows : costs[k] \in Nat
  OBVIOUS
<1>2. CostIn(table, rows) = Total(costs, rows)
  BY DEF CostIn
<1> HIDE DEF costs
<1> QED
  BY <1>1, <1>2, TotalIsNat

LEMMA CostSame ==
  ASSUME NEW old, NEW new, NEW rows, \A k \in rows : new[k].cost = old[k].cost
  PROVE  CostIn(new, rows) = CostIn(old, rows)
<1>1. [k \in rows |-> new[k].cost] = [k \in rows |-> old[k].cost]
  OBVIOUS
<1> QED
  BY <1>1 DEF CostIn

LEMMA CostAdded ==
  ASSUME NEW old, NEW new, NEW rows, IsFiniteSet(rows), NEW k, k \notin rows,
         \A j \in rows : old[j].cost \in Nat /\ new[j].cost = old[j].cost, new[k].cost \in Nat
  PROVE  CostIn(new, rows \cup {k}) = CostIn(old, rows) + new[k].cost
<1> DEFINE before == [j \in rows |-> old[j].cost]
           after == [j \in rows \cup {k} |-> new[j].cost]
<1>1. /\ \A j \in rows : before[j] \in Int /\ after[j] = before[j]
      /\ after[k] = new[k].cost /\ after[k] \in Int
  OBVIOUS
<1>2. CostIn(new, rows \cup {k}) = Total(after, rows \cup {k}) /\ CostIn(old, rows) = Total(before, rows)
  BY DEF CostIn
<1> HIDE DEF before, after
<1>3. Total(after, rows \cup {k}) = after[k] + Total(before, rows)
  BY <1>1, TotalGrows
<1>4. Total(before, rows) \in Int
  BY <1>1, TotalIsInt
<1> QED
  BY <1>1, <1>2, <1>3, <1>4

LEMMA CostTaken ==
  ASSUME NEW old, NEW new, NEW rows, IsFiniteSet(rows), NEW k \in rows,
         \A j \in rows : old[j].cost \in Nat, \A j \in rows \ {k} : new[j].cost = old[j].cost
  PROVE  CostIn(new, rows \ {k}) = CostIn(old, rows) - old[k].cost
<1>1. IsFiniteSet(rows \ {k}) /\ (rows \ {k}) \cup {k} = rows
  BY FS_RemoveElement
<1>2. CostIn(old, rows) = CostIn(old, rows \ {k}) + old[k].cost
  <2>1. CostIn(old, (rows \ {k}) \cup {k}) = CostIn(old, rows \ {k}) + old[k].cost
    BY <1>1, CostAdded
  <2> QED
    BY <1>1, <2>1
<1>3. CostIn(new, rows \ {k}) = CostIn(old, rows \ {k})
  BY CostSame
<1>4. CostIn(old, rows \ {k}) \in Nat /\ old[k].cost \in Nat
  BY <1>1, CostIsNat
<1> QED
  BY <1>1, <1>2, <1>3, <1>4

LEMMA CostOfPart ==
  ASSUME NEW table, NEW rows, IsFiniteSet(rows), \A k \in rows : table[k].cost \in Nat,
         NEW part \in SUBSET rows
  PROVE  CostIn(table, part) <= CostIn(table, rows)
<1> DEFINE costs == [k \in rows |-> table[k].cost]
           some == [k \in part |-> table[k].cost]
<1>1. (\A k \in rows : costs[k] \in Nat) /\ \A k \in part : some[k] = costs[k]
  OBVIOUS
<1>2. CostIn(table, rows) = Total(costs, rows) /\ CostIn(table, part) = Total(some, part)
  BY DEF CostIn
<1> HIDE DEF costs, some
<1>3. IsFiniteSet(part)
  BY FS_Subset
<1>4. Total(some, part) = Total(costs, part)
  BY <1>1, <1>3, TotalSame
<1> QED
  BY <1>1, <1>2, <1>4, TotalOfPart
-----------------------------------------------------------------------------
\* Receipts still accrued, and invoices still to be paid.
Accrued == {g \in Rows(goodsReceipt) : ~Invoiced(g)}
Open == {v \in Rows(supplierInvoice) : supplierInvoice[v].status = "POSTED"}

Matched ==
    /\ ledger[Inventory] = CostIn(goodsReceipt, Rows(goodsReceipt))
    /\ ledger[Accrual] = -CostIn(goodsReceipt, Accrued)
    /\ ledger[Payable] = -CostIn(supplierInvoice, Open)
    /\ ledger[Cash] = -CostIn(supplierPayment, Rows(supplierPayment))

LEMMA MatchedIsLedger == Matched => LedgerMatchesDocuments
  BY DEF Matched, LedgerMatchesDocuments, CostIn, Accrued, Open

LEMMA CostsAreTyped ==
  ASSUME DocumentsInv
  PROVE  /\ \A g \in Rows(goodsReceipt) : goodsReceipt[g].cost \in Nat
         /\ \A v \in Rows(supplierInvoice) : supplierInvoice[v].cost \in Nat
         /\ \A y \in Rows(supplierPayment) : supplierPayment[y].cost \in Nat
         /\ \A r \in Rows(purchaseRequest) : purchaseRequest[r].cost \in Nat
         /\ IsFiniteSet(Accrued) /\ IsFiniteSet(Open)
<1>1. Accrued \in SUBSET Rows(goodsReceipt) /\ Open \in SUBSET Rows(supplierInvoice)
  BY DEF Accrued, Open
<1>2. IsFiniteSet(Accrued) /\ IsFiniteSet(Open)
  BY <1>1, FS_Subset DEF DocumentsInv, RowsAreFinite
<1> QED
  BY <1>2, RowsTyped DEF DocumentsInv, ReceiptRow, InvoiceRow, PaymentRow, RequestRow

LEMMA MatchedAlone ==
  ASSUME Matched, UNCHANGED <<goodsReceipt, supplierInvoice, supplierPayment, ledger>>
  PROVE  Matched'
<1>1. Accrued' = Accrued /\ Open' = Open
  BY DEF Accrued, Open, Invoiced, Rows
<1> QED
  BY <1>1 DEF Matched, Rows

\* What is received is accrued: nobody can have invoiced it before.
LEMMA MatchedReceipt ==
  ASSUME DocumentsInv, Matched, NEW g \in GoodsReceipt, NEW r \in Rows(purchaseRequest),
         NEW cost \in Nat, NEW day \in Day, WriteReceipt(g, r, cost, day)
  PROVE  Matched'
<1>1. UNCHANGED <<supplierInvoice, supplierPayment>> /\ PostJournal(Inventory, Accrual, cost)
  BY DEF WriteReceipt, ReceiptSideEffects
<1>2. /\ ledger'[Inventory] = ledger[Inventory] + cost /\ ledger'[Accrual] = ledger[Accrual] - cost
      /\ ledger'[Payable] = ledger[Payable] /\ ledger'[Cash] = ledger[Cash]
  BY <1>1, CodesDiffer, JournalPosted DEF DocumentsInv, DocumentTypeOK
<1>3. PICK table : table = goodsReceipt'
  OBVIOUS
<1>4. /\ g \notin Rows(goodsReceipt) /\ Rows(goodsReceipt)' = Rows(goodsReceipt) \cup {g}
      /\ \A h \in Rows(goodsReceipt) : table[h] = goodsReceipt[h]
      /\ table[g].cost = cost
  BY <1>3, ReceiptWritten
<1>5. \A h : Invoiced(h)' <=> Invoiced(h)
  BY <1>1 DEF Invoiced, Rows
<1>6. ~Invoiced(g)
  BY <1>4 DEF Invoiced, DocumentsInv, Referenced
<1>7. Accrued' = Accrued \cup {g} /\ g \notin Accrued
  BY <1>4, <1>5, <1>6 DEF Accrued
<1>8. \A h \in Rows(goodsReceipt) : goodsReceipt[h].cost \in Nat /\ table[h].cost = goodsReceipt[h].cost
  BY <1>4, CostsAreTyped
<1>9. CostIn(table, Rows(goodsReceipt) \cup {g}) = CostIn(goodsReceipt, Rows(goodsReceipt)) + cost
  BY <1>4, <1>8, CostAdded DEF DocumentsInv, RowsAreFinite
<1>10. CostIn(table, Accrued \cup {g}) = CostIn(goodsReceipt, Accrued) + cost
  <2>1. \A h \in Accrued : goodsReceipt[h].cost \in Nat /\ table[h].cost = goodsReceipt[h].cost
    BY <1>8 DEF Accrued
  <2>2. IsFiniteSet(Accrued) /\ table[g].cost \in Nat
    BY <1>4, CostsAreTyped
  <2> QED
    BY <1>4, <1>7, <2>1, <2>2, CostAdded
<1>11. CostIn(goodsReceipt, Rows(goodsReceipt))' = CostIn(goodsReceipt, Rows(goodsReceipt)) + cost
  BY <1>3, <1>4, <1>9
<1>12. CostIn(goodsReceipt, Accrued)' = CostIn(goodsReceipt, Accrued) + cost
  BY <1>3, <1>7, <1>10
<1>13. CostIn(goodsReceipt, Accrued) \in Nat
  <2>1. \A h \in Accrued : goodsReceipt[h].cost \in Nat
    BY <1>8 DEF Accrued
  <2> QED
    BY <2>1, CostsAreTyped, CostIsNat
<1>14. Open' = Open /\ Rows(supplierPayment)' = Rows(supplierPayment)
  BY <1>1 DEF Open, Rows
<1>15. ledger'[Accrual] = -(CostIn(goodsReceipt, Accrued)')
  BY <1>2, <1>12, <1>13 DEF Matched
<1> QED
  BY <1>1, <1>2, <1>11, <1>14, <1>15 DEF Matched

\* An invoice turns what was accrued into what is payable.
LEMMA MatchedInvoice ==
  ASSUME DocumentsInv, Matched, NEW v \in SupplierInvoice, NEW g \in GoodsReceipt, NEW account,
         NEW day, CreateSupplierInvoice(v, g, account, day)
  PROVE  Matched'
<1>1. /\ UNCHANGED <<goodsReceipt, supplierPayment>>
      /\ PostJournal(Accrual, Payable, goodsReceipt[g].cost)
      /\ g \in Rows(goodsReceipt) /\ goodsReceipt[g].cost \in Nat
      /\ \A u \in Rows(supplierInvoice) : supplierInvoice[u].receipt # g
  BY Receipted DEF CreateSupplierInvoice
<1>2. PICK cost \in Nat : cost = goodsReceipt[g].cost
  BY <1>1
<1>3. /\ ledger'[Accrual] = ledger[Accrual] + cost /\ ledger'[Payable] = ledger[Payable] - cost
      /\ ledger'[Inventory] = ledger[Inventory] /\ ledger'[Cash] = ledger[Cash]
  BY <1>1, <1>2, CodesDiffer, JournalPosted DEF DocumentsInv, DocumentTypeOK
<1>4. PICK table : table = supplierInvoice'
  OBVIOUS
<1>5. /\ v \notin Rows(supplierInvoice) /\ Rows(supplierInvoice)' = Rows(supplierInvoice) \cup {v}
      /\ \A u \in Rows(supplierInvoice) : table[u] = supplierInvoice[u]
      /\ table[v].receipt = g /\ table[v].status = "POSTED" /\ table[v].cost = cost
  BY <1>2, <1>4, InvoiceWritten
<1>6. Open' = Open \cup {v} /\ v \notin Open
  BY <1>4, <1>5 DEF Open
<1>7. \A h : Invoiced(h)' <=> Invoiced(h) \/ h = g
  BY <1>4, <1>5 DEF Invoiced
<1>8. Accrued' = Accrued \ {g} /\ g \in Accrued
  BY <1>1, <1>7 DEF Accrued, Invoiced, Rows
<1>9. CostIn(supplierInvoice, Open)' = CostIn(supplierInvoice, Open) + cost
  <2>1. \A u \in Open : supplierInvoice[u].cost \in Nat /\ table[u].cost = supplierInvoice[u].cost
    BY <1>5, CostsAreTyped DEF Open
  <2>2. IsFiniteSet(Open) /\ table[v].cost \in Nat
    BY <1>5, CostsAreTyped
  <2>3. CostIn(table, Open \cup {v}) = CostIn(supplierInvoice, Open) + cost
    BY <1>5, <1>6, <2>1, <2>2, CostAdded
  <2> QED
    BY <1>4, <1>6, <2>3
<1>10. /\ CostIn(goodsReceipt, Accrued)' = CostIn(goodsReceipt, Accrued) - cost
       /\ CostIn(goodsReceipt, Accrued) \in Nat
  <2>1. \A h \in Accrued : goodsReceipt[h].cost \in Nat
    BY CostsAreTyped DEF Accrued
  <2>2. CostIn(goodsReceipt, Accrued) \in Nat
    BY <2>1, CostsAreTyped, CostIsNat
  <2>3. CostIn(goodsReceipt, Accrued \ {g}) = CostIn(goodsReceipt, Accrued) - cost
    BY <1>2, <1>8, <2>1, CostsAreTyped, CostTaken
  <2> QED
    BY <1>1, <1>8, <2>2, <2>3
<1>11. CostIn(supplierInvoice, Open) \in Nat
  <2>1. \A u \in Open : supplierInvoice[u].cost \in Nat
    BY CostsAreTyped DEF Open
  <2> QED
    BY <2>1, CostsAreTyped, CostIsNat
<1>12. ledger'[Payable] = -(CostIn(supplierInvoice, Open)')
  BY <1>3, <1>9, <1>11 DEF Matched
<1>13. ledger'[Accrual] = -(CostIn(goodsReceipt, Accrued)')
  BY <1>3, <1>10 DEF Matched
<1> QED
  BY <1>1, <1>3, <1>12, <1>13 DEF Matched, Rows

\* A payment takes its invoice, which nobody paid before, off what is payable.
LEMMA MatchedPayment ==
  ASSUME DocumentsInv, Matched, NEW y \in SupplierPayment, NEW v \in SupplierInvoice,
         CreateSupplierPayment(y, v)
  PROVE  Matched'
<1>1. PICK invoices : invoices = supplierInvoice'
  OBVIOUS
<1>2. PICK payments : payments = supplierPayment'
  OBVIOUS
<1>3. /\ y \notin Rows(supplierPayment) /\ Rows(supplierPayment)' = Rows(supplierPayment) \cup {y}
      /\ \A z \in Rows(supplierPayment) : payments[z] = supplierPayment[z]
      /\ payments[y].cost = supplierInvoice[v].cost
      /\ v \in Rows(supplierInvoice) /\ supplierInvoice[v].status = "POSTED"
      /\ Rows(supplierInvoice)' = Rows(supplierInvoice)
      /\ invoices[v].status = "PAID" /\ invoices[v].receipt = supplierInvoice[v].receipt
      /\ \A u \in Rows(supplierInvoice) \ {v} : invoices[u] = supplierInvoice[u]
  BY <1>1, <1>2, PaymentWritten
<1>4. PICK cost \in Nat : cost = supplierInvoice[v].cost
  BY <1>3, CostsAreTyped
<1>5. UNCHANGED goodsReceipt /\ PostJournal(Payable, Cash, cost)
  BY <1>4 DEF CreateSupplierPayment
<1>6. /\ ledger'[Payable] = ledger[Payable] + cost /\ ledger'[Cash] = ledger[Cash] - cost
      /\ ledger'[Inventory] = ledger[Inventory] /\ ledger'[Accrual] = ledger[Accrual]
  BY <1>5, CodesDiffer, JournalPosted DEF DocumentsInv, DocumentTypeOK
<1>7. Open' = Open \ {v} /\ v \in Open
  BY <1>1, <1>3 DEF Open
<1>8. Accrued' = Accrued
  <2>1. \A u \in Rows(supplierInvoice) : invoices[u].receipt = supplierInvoice[u].receipt
    BY <1>3
  <2>2. \A h : Invoiced(h)' <=> Invoiced(h)
    BY <1>1, <1>3, <2>1 DEF Invoiced
  <2> QED
    BY <1>5, <2>2 DEF Accrued, Rows
<1>9. /\ CostIn(supplierInvoice, Open)' = CostIn(supplierInvoice, Open) - cost
      /\ CostIn(supplierInvoice, Open) \in Nat
  <2>1. /\ \A u \in Open : supplierInvoice[u].cost \in Nat
        /\ \A u \in Open \ {v} : invoices[u].cost = supplierInvoice[u].cost
    BY <1>3, CostsAreTyped DEF Open
  <2>2. CostIn(supplierInvoice, Open) \in Nat
    BY <2>1, CostsAreTyped, CostIsNat
  <2>3. CostIn(invoices, Open \ {v}) = CostIn(supplierInvoice, Open) - cost
    BY <1>4, <1>7, <2>1, CostsAreTyped, CostTaken
  <2> QED
    BY <1>1, <1>7, <2>2, <2>3
<1>10. /\ CostIn(supplierPayment, Rows(supplierPayment))' = CostIn(supplierPayment, Rows(supplierPayment)) + cost
       /\ CostIn(supplierPayment, Rows(supplierPayment)) \in Nat
  <2>1. \A z \in Rows(supplierPayment) :
           supplierPayment[z].cost \in Nat /\ payments[z].cost = supplierPayment[z].cost
    BY <1>3, CostsAreTyped
  <2>2. IsFiniteSet(Rows(supplierPayment)) /\ payments[y].cost \in Nat
    BY <1>3, <1>4 DEF DocumentsInv, RowsAreFinite
  <2>3. CostIn(payments, Rows(supplierPayment) \cup {y}) = CostIn(supplierPayment, Rows(supplierPayment)) + cost
    BY <1>3, <1>4, <2>1, <2>2, CostAdded
  <2>4. CostIn(supplierPayment, Rows(supplierPayment)) \in Nat
    BY <2>1, <2>2, CostIsNat
  <2> QED
    BY <1>2, <1>3, <2>3, <2>4
<1>11. ledger'[Payable] = -(CostIn(supplierInvoice, Open)')
  BY <1>6, <1>9 DEF Matched
<1>12. ledger'[Cash] = -(CostIn(supplierPayment, Rows(supplierPayment))')
  BY <1>6, <1>10 DEF Matched
<1> QED
  BY <1>5, <1>6, <1>8, <1>11, <1>12 DEF Matched, Rows

LEMMA MatchedStep ==
  ASSUME DocumentsInv, Matched, [Next]_vars
  PROVE  Matched'
<1>1. ASSUME NEW g \in GoodsReceipt, NEW day \in Day,
             \/ \E r \in PurchaseRequest, w \in Warehouse : ReceiveRequest(g, r, w, day)
             \/ \E o \in PurchaseOrder, w \in Warehouse, X \in SUBSET Tracked, blocked \in BOOLEAN :
                   \E batchOf \in [X -> Batch] : ReceiveOrder(g, o, w, day, batchOf, blocked)
      PROVE  Matched'
  BY <1>1, ReceivedEitherWay, MatchedReceipt
<1>2. ASSUME NEW r \in PurchaseRequest, NEW p \in MealPlan, CreatePurchaseRequest(r, p)
      PROVE  Matched'
  BY <1>2, MatchedAlone DEF CreatePurchaseRequest
<1>3. ASSUME NEW o \in PurchaseOrder, NEW r \in PurchaseRequest, NEW kind, NEW price,
             CreatePurchaseOrder(o, r, kind, price)
      PROVE  Matched'
  BY <1>3, MatchedAlone DEF CreatePurchaseOrder
<1>4. CASE Meanwhile
  BY <1>4, MatchedAlone DEF Meanwhile, documentVars
<1>5. CASE UNCHANGED vars
  BY <1>5, MatchedAlone DEF vars, documentVars
<1> QED
  BY <1>1, <1>2, <1>3, <1>4, <1>5, MatchedInvoice, MatchedPayment DEF Next

LEMMA MatchedInit == Init => Matched
<1> SUFFICES ASSUME Init PROVE Matched
  OBVIOUS
<1>1. /\ Rows(goodsReceipt) = {} /\ Rows(supplierInvoice) = {} /\ Rows(supplierPayment) = {}
      /\ \A c \in Code : ledger[c] = 0
  BY DEF Init, Rows
<1>2. \A table : CostIn(table, {}) = 0
  BY TotalOfNone DEF CostIn
<1>3. Accrued = {} /\ Open = {}
  BY <1>1 DEF Accrued, Open
<1> QED
  BY <1>1, <1>2, <1>3, CodesDiffer DEF Matched

(***************************************************************************)
(* The accounts agree with the documents, however often a request is       *)
(* ordered or an order received: goods received are accrued until their    *)
(* invoice comes, invoices are payable until they are paid.                *)
(***************************************************************************)
THEOREM AccountsMatchDocuments == Spec => []LedgerMatchesDocuments
<1>1. Init => Matched
  BY MatchedInit
<1>2. DocumentsInv /\ Matched /\ [Next]_vars => Matched'
  BY MatchedStep
<1> QED
  BY <1>1, <1>2, MatchedIsLedger, DocumentsStand, PTL DEF Spec
-----------------------------------------------------------------------------
\* What a line still holds, as long as its receipts keep within their requests.
Withheld(l) == WithinRequest(l) => amount[l].reserved >= CostIn(purchaseRequest, Unreleased(l))

LEMMA LinesAreTyped ==
  ASSUME DocumentsInv, DocumentsInv', NEW l \in BudgetLine
  PROVE  /\ amount[l] \in AmountRow /\ amount[l].reserved \in Nat
         /\ amount'[l] \in AmountRow /\ amount'[l].reserved \in Nat
         /\ \A r \in Rows(purchaseRequest) : purchaseRequest[r].cost \in Nat
         /\ Unreleased(l) \subseteq Rows(purchaseRequest) /\ IsFiniteSet(Unreleased(l))
         /\ CostIn(purchaseRequest, Unreleased(l)) \in Nat
<1>1. amount[l] \in AmountRow /\ amount'[l] \in AmountRow
  BY DEF DocumentsInv, BudgetTypeOK
<1>2. \A r \in Rows(purchaseRequest) : purchaseRequest[r].cost \in Nat
  BY CostsAreTyped
<1>3. Unreleased(l) \in SUBSET Rows(purchaseRequest)
  BY DEF Unreleased
<1>4. IsFiniteSet(Unreleased(l))
  BY <1>3, FS_Subset DEF DocumentsInv, RowsAreFinite
<1>5. CostIn(purchaseRequest, Unreleased(l)) \in Nat
  BY <1>2, <1>3, <1>4, CostIsNat
<1> QED
  BY <1>1, <1>2, <1>3, <1>4, <1>5 DEF AmountRow

\* Receipts that keep within their requests kept within them before the last
\* one, and before the request of none of them.
LEMMA WithinBefore ==
  ASSUME DocumentsInv, NEW l \in BudgetLine, WithinRequest(l)',
         Rows(goodsReceipt) \subseteq Rows(goodsReceipt)',
         \A g \in Rows(goodsReceipt) : goodsReceipt'[g] = goodsReceipt[g],
         \A r \in Rows(purchaseRequest) :
            purchaseRequest'[r].on = purchaseRequest[r].on /\ purchaseRequest'[r].cost = purchaseRequest[r].cost
  PROVE  WithinRequest(l)
<1>1. \A g \in Rows(goodsReceipt) : goodsReceipt[g].request \in Rows(purchaseRequest)
  BY DEF DocumentsInv, Referenced
<1> DEFINE on == {g \in Rows(goodsReceipt) : l \in goodsReceipt[g].on}
           onNext == {g \in Rows(goodsReceipt)' : l \in goodsReceipt'[g].on}
<1>2. \A g \in on : g \in onNext /\ g \in Rows(goodsReceipt)
  OBVIOUS
<1>3. /\ \A g \in onNext : /\ l \in purchaseRequest'[goodsReceipt'[g].request].on
                          /\ goodsReceipt'[g].cost <= purchaseRequest'[goodsReceipt'[g].request].cost
      /\ \A g, h \in onNext : goodsReceipt'[g].request = goodsReceipt'[h].request => g = h
  BY DEF WithinRequest
<1> HIDE DEF on, onNext
<1>4. \A g \in on : /\ l \in purchaseRequest[goodsReceipt[g].request].on
                   /\ goodsReceipt[g].cost <= purchaseRequest[goodsReceipt[g].request].cost
  BY <1>1, <1>2, <1>3
<1>5. \A g, h \in on : goodsReceipt[g].request = goodsReceipt[h].request => g = h
  BY <1>2, <1>3
<1> QED
  BY <1>4, <1>5 DEF WithinRequest, on

\* No receipt, no request, and no reservation of the line given back.
LEMMA WithheldAlone ==
  ASSUME DocumentsInv, DocumentsInv', NEW l \in BudgetLine, Withheld(l), UNCHANGED goodsReceipt,
         Rows(purchaseRequest)' = Rows(purchaseRequest),
         \A r \in Rows(purchaseRequest) :
            purchaseRequest'[r].on = purchaseRequest[r].on /\ purchaseRequest'[r].cost = purchaseRequest[r].cost,
         amount'[l].reserved = amount[l].reserved
  PROVE  Withheld(l)'
<1>1. WithinRequest(l)' => WithinRequest(l)
  BY WithinBefore DEF Rows
<1>2. Unreleased(l)' = Unreleased(l) /\ \A r \in Unreleased(l) : r \in Rows(purchaseRequest)
  BY DEF Unreleased, Rows
<1>3. PICK table : table = purchaseRequest'
  OBVIOUS
<1>4. CostIn(table, Unreleased(l)) = CostIn(purchaseRequest, Unreleased(l))
  <2>1. \A r \in Unreleased(l) : table[r].cost = purchaseRequest[r].cost
    BY <1>2, <1>3
  <2> QED
    BY <2>1, CostSame
<1>5. CostIn(purchaseRequest, Unreleased(l))' = CostIn(purchaseRequest, Unreleased(l))
  BY <1>2, <1>3, <1>4
<1> QED
  BY <1>1, <1>5 DEF Withheld

\* A request reserves on its lines what it costs, before any receipt of it.
LEMMA WithheldRequest ==
  ASSUME DocumentsInv, DocumentsInv', NEW l \in BudgetLine, Withheld(l),
         NEW r \in PurchaseRequest, NEW p \in MealPlan, CreatePurchaseRequest(r, p)
  PROVE  Withheld(l)'
<1>1. PICK cost \in Nat : cost = CostOf(ShortageLines(p), StandardCost)
  BY RequestCosts DEF CreatePurchaseRequest
<1>2. PICK on : on = IF Expense \in Chart THEN LinesOf(Expense, PlanDay[p]) ELSE {}
  OBVIOUS
<1>3. PICK table : table = purchaseRequest'
  OBVIOUS
<1>4. /\ r \notin Rows(purchaseRequest) /\ Rows(purchaseRequest)' = Rows(purchaseRequest) \cup {r}
      /\ \A s \in Rows(purchaseRequest) : table[s] = purchaseRequest[s]
      /\ table[r].cost = cost /\ table[r].on = on
  BY <1>1, <1>2, <1>3, RequestWritten
<1>5. UNCHANGED goodsReceipt /\ \A g \in Rows(goodsReceipt) : goodsReceipt[g].request # r
  BY <1>4 DEF CreatePurchaseRequest, DocumentsInv, Referenced
<1>6. WithinRequest(l)' => WithinRequest(l)
  BY <1>3, <1>4, <1>5, WithinBefore DEF Rows
<1>7. \A s \in Unreleased(l) : s \in Rows(purchaseRequest) /\ table[s].cost = purchaseRequest[s].cost
  BY <1>4 DEF Unreleased
<1>8. CASE l \in on
  <2>1. amount'[l] = Reserved(amount[l], cost)
    BY <1>1, <1>2, <1>8 DEF CreatePurchaseRequest, ReserveBudget
  <2>2. amount'[l].reserved = amount[l].reserved + cost
    BY <2>1 DEF Reserved
  <2>3. Unreleased(l)' = Unreleased(l) \cup {r} /\ r \notin Unreleased(l)
    BY <1>3, <1>4, <1>5, <1>8 DEF Unreleased, Rows
  <2>4. CostIn(table, Unreleased(l) \cup {r}) = CostIn(purchaseRequest, Unreleased(l)) + cost
    BY <1>4, <1>7, <2>3, LinesAreTyped, CostAdded
  <2>5. CostIn(purchaseRequest, Unreleased(l))' = CostIn(purchaseRequest, Unreleased(l)) + cost
    BY <1>3, <2>3, <2>4
  <2> QED
    BY <1>6, <2>2, <2>5, LinesAreTyped DEF Withheld
<1>9. CASE l \notin on
  <2>1. amount'[l] = amount[l]
    BY <1>2, <1>9 DEF CreatePurchaseRequest, ReserveBudget, budgetVars
  <2>2. Unreleased(l)' = Unreleased(l)
    BY <1>3, <1>4, <1>5, <1>9 DEF Unreleased, Rows
  <2>3. CostIn(table, Unreleased(l)) = CostIn(purchaseRequest, Unreleased(l))
    BY <1>7, CostSame
  <2>4. CostIn(purchaseRequest, Unreleased(l))' = CostIn(purchaseRequest, Unreleased(l))
    BY <1>3, <2>2, <2>3
  <2> QED
    BY <1>6, <2>1, <2>4 DEF Withheld
<1> QED
  BY <1>8, <1>9

\* A receipt releases at most its cost, which its request no longer waits for.
LEMMA WithheldReceipt ==
  ASSUME DocumentsInv, DocumentsInv', NEW l \in BudgetLine, Withheld(l),
         NEW g \in GoodsReceipt, NEW r \in Rows(purchaseRequest), NEW cost \in Nat,
         NEW day \in Day, WriteReceipt(g, r, cost, day)
  PROVE  Withheld(l)'
<1>1. PICK on : on = IF Expense \in Chart THEN LinesOf(Expense, day) ELSE {}
  OBVIOUS
<1>2. PICK table : table = purchaseRequest'
  OBVIOUS
<1>3. PICK receipts : receipts = goodsReceipt'
  OBVIOUS
<1>4. /\ g \notin Rows(goodsReceipt) /\ Rows(goodsReceipt)' = Rows(goodsReceipt) \cup {g}
      /\ \A h \in Rows(goodsReceipt) : receipts[h] = goodsReceipt[h]
      /\ receipts[g].request = r /\ receipts[g].cost = cost /\ receipts[g].on = on
      /\ Rows(purchaseRequest)' = Rows(purchaseRequest)
      /\ \A s \in Rows(purchaseRequest) :
            table[s].on = purchaseRequest[s].on /\ table[s].cost = purchaseRequest[s].cost
  BY <1>1, <1>2, <1>3, ReceiptWritten
<1>5. WithinRequest(l)' => WithinRequest(l)
  BY <1>2, <1>3, <1>4, WithinBefore
<1>6. \A s \in Unreleased(l) : s \in Rows(purchaseRequest) /\ table[s].cost = purchaseRequest[s].cost
  BY <1>4 DEF Unreleased
<1>7. CASE l \notin on
  <2>1. amount'[l] = amount[l]
    BY <1>1, <1>7 DEF WriteReceipt, ReceiptSideEffects, CommitBudget, budgetVars
  <2>2. Unreleased(l)' = Unreleased(l)
    BY <1>2, <1>3, <1>4, <1>7 DEF Unreleased
  <2>3. CostIn(table, Unreleased(l)) = CostIn(purchaseRequest, Unreleased(l))
    BY <1>6, CostSame
  <2>4. CostIn(purchaseRequest, Unreleased(l))' = CostIn(purchaseRequest, Unreleased(l))
    BY <1>2, <2>2, <2>3
  <2> QED
    BY <1>5, <2>1, <2>4 DEF Withheld
<1>8. ASSUME l \in on, WithinRequest(l)'
      PROVE  amount'[l].reserved >= CostIn(purchaseRequest, Unreleased(l))'
  <2>1. amount'[l] = Committed(amount[l], cost)
    BY <1>1, <1>8 DEF WriteReceipt, ReceiptSideEffects, CommitBudget
  <2>2. amount'[l].reserved >= amount[l].reserved - cost
    BY <2>1, LinesAreTyped DEF Committed, Least
  <2>3. /\ l \in table[r].on /\ cost <= table[r].cost
        /\ \A h \in Rows(goodsReceipt) : l \in receipts[h].on => receipts[h].request # r
    BY <1>2, <1>3, <1>4, <1>8 DEF WithinRequest
  <2>4. r \in Unreleased(l) /\ Unreleased(l)' = Unreleased(l) \ {r}
    <3>1. r \in Unreleased(l)
      BY <1>4, <2>3 DEF Unreleased
    <3>2. Unreleased(l)' = Unreleased(l) \ {r}
      BY <1>2, <1>3, <1>4, <1>8 DEF Unreleased
    <3> QED
      BY <3>1, <3>2
  <2>5. CostIn(table, Unreleased(l) \ {r}) = CostIn(purchaseRequest, Unreleased(l)) - purchaseRequest[r].cost
    <3>1. PICK rows : rows = Unreleased(l)
      OBVIOUS
    <3>2. \A s \in rows : purchaseRequest[s].cost \in Nat
      BY <1>6, <3>1, LinesAreTyped
    <3>3. \A s \in rows \ {r} : table[s].cost = purchaseRequest[s].cost
      BY <1>6, <3>1
    <3>4. IsFiniteSet(rows) /\ r \in rows
      BY <2>4, <3>1, LinesAreTyped
    <3>5. PICK q \in Nat : q = purchaseRequest[r].cost
      BY <3>2, <3>4
    <3>6. CostIn(table, rows \ {r}) = CostIn(purchaseRequest, rows) - q
      BY <3>2, <3>3, <3>4, <3>5, CostTaken
    <3> QED
      BY <3>1, <3>5, <3>6
  <2>6. CostIn(purchaseRequest, Unreleased(l))' =
           CostIn(purchaseRequest, Unreleased(l)) - purchaseRequest[r].cost
    BY <1>2, <2>4, <2>5
  <2>7. amount[l].reserved >= CostIn(purchaseRequest, Unreleased(l))
    BY <1>5, <1>8 DEF Withheld
  <2>8. cost <= purchaseRequest[r].cost /\ purchaseRequest[r].cost \in Nat
    BY <1>4, <2>3, LinesAreTyped
  <2> QED
    BY <2>2, <2>6, <2>7, <2>8, LinesAreTyped
<1> QED
  BY <1>7, <1>8 DEF Withheld

LEMMA WithheldStep ==
  ASSUME DocumentsInv, DocumentsInv', [Next]_vars, NEW l \in BudgetLine, Withheld(l)
  PROVE  Withheld(l)'
<1>1. ASSUME NEW g \in GoodsReceipt, NEW day \in Day,
             \/ \E r \in PurchaseRequest, w \in Warehouse : ReceiveRequest(g, r, w, day)
             \/ \E o \in PurchaseOrder, w \in Warehouse, X \in SUBSET Tracked, blocked \in BOOLEAN :
                   \E batchOf \in [X -> Batch] : ReceiveOrder(g, o, w, day, batchOf, blocked)
      PROVE  Withheld(l)'
  BY <1>1, ReceivedEitherWay, WithheldReceipt
<1>2. ASSUME NEW o \in PurchaseOrder, NEW r \in PurchaseRequest, NEW kind \in {"PO", "RFQ"},
             NEW price \in [Product -> Price \cup {StandardCost[x] : x \in Product}],
             CreatePurchaseOrder(o, r, kind, price)
      PROVE  Withheld(l)'
  <2>1. UNCHANGED <<goodsReceipt, amount>>
    BY <1>2 DEF CreatePurchaseOrder, budgetVars
  <2>2. /\ Rows(purchaseRequest)' = Rows(purchaseRequest)
        /\ \A s \in Rows(purchaseRequest) :
              purchaseRequest'[s].on = purchaseRequest[s].on /\ purchaseRequest'[s].cost = purchaseRequest[s].cost
    BY <1>2, OrderWritten
  <2> QED
    BY <2>1, <2>2, WithheldAlone
<1>3. ASSUME UNCHANGED <<goodsReceipt, purchaseRequest>>, amount'[l].reserved = amount[l].reserved
      PROVE  Withheld(l)'
  BY <1>3, WithheldAlone DEF Rows
<1>4. ASSUME NEW v \in SupplierInvoice, NEW g \in GoodsReceipt, NEW account, NEW day,
             CreateSupplierInvoice(v, g, account, day)
      PROVE  Withheld(l)'
  <2>1. CASE account = None
    BY <1>3, <1>4, <2>1 DEF CreateSupplierInvoice, budgetVars
  <2>2. CASE account # None
    <3>1. /\ UNCHANGED <<goodsReceipt, purchaseRequest>>
          /\ amount'[l] \in {amount[l], Actualized(amount[l], goodsReceipt[g].cost)}
      BY <1>4, <2>2 DEF CreateSupplierInvoice, ActualizeBudget
    <3>2. amount'[l].reserved = amount[l].reserved
      BY <3>1 DEF Actualized
    <3> QED
      BY <1>3, <3>1, <3>2
  <2> QED
    BY <2>1, <2>2
<1>5. ASSUME NEW y \in SupplierPayment, NEW v \in SupplierInvoice, CreateSupplierPayment(y, v)
      PROVE  Withheld(l)'
  BY <1>3, <1>5 DEF CreateSupplierPayment, budgetVars
<1>6. CASE Meanwhile
  BY <1>3, <1>6 DEF Meanwhile, documentVars, budgetVars, ApproveBudget
<1>7. CASE UNCHANGED vars
  BY <1>3, <1>7 DEF vars, documentVars, budgetVars
<1> QED
  BY <1>1, <1>2, <1>4, <1>5, <1>6, <1>7, WithheldRequest DEF Next

\* What is withheld for requests not released here covers those received
\* nowhere.
LEMMA WithheldCovers ==
  ASSUME DocumentsInv, NEW l \in BudgetLine, Withheld(l), WithinRequest(l)
  PROVE  amount[l].reserved >= HeldFor(l)
<1> DEFINE waiting == {r \in Rows(purchaseRequest) :
                         /\ l \in purchaseRequest[r].on
                         /\ \A g \in Rows(goodsReceipt) : goodsReceipt[g].request # r}
<1>1. HeldFor(l) = CostIn(purchaseRequest, waiting)
  BY DEF HeldFor, CostIn
<1>2. waiting \in SUBSET Unreleased(l) /\ Unreleased(l) \in SUBSET Rows(purchaseRequest)
  BY DEF Unreleased
<1> HIDE DEF waiting
<1>3. \A r \in Unreleased(l) : purchaseRequest[r].cost \in Nat
  BY <1>2, CostsAreTyped
<1>4. IsFiniteSet(Unreleased(l)) /\ IsFiniteSet(waiting)
  <2>1. IsFiniteSet(Unreleased(l))
    BY <1>2, FS_Subset DEF DocumentsInv, RowsAreFinite
  <2> QED
    BY <1>2, <2>1, FS_Subset
<1>5. CostIn(purchaseRequest, waiting) <= CostIn(purchaseRequest, Unreleased(l))
  BY <1>2, <1>3, <1>4, CostOfPart
<1>6. CostIn(purchaseRequest, waiting) \in Nat /\ CostIn(purchaseRequest, Unreleased(l)) \in Nat
  BY <1>2, <1>3, <1>4, CostIsNat
<1>7. amount[l].reserved \in Nat
  BY DEF DocumentsInv, BudgetTypeOK, AmountRow
<1> QED
  BY <1>1, <1>5, <1>6, <1>7 DEF Withheld

\* Receipts elsewhere leave a line reserved as well: what has to be shown is
\* more than ReservationsHoldWithin says.
HoldInv == DocumentsInv /\ \A l \in BudgetLine : Withheld(l)

LEMMA HoldInit == Init => HoldInv
<1> SUFFICES ASSUME Init PROVE HoldInv
  OBVIOUS
<1>1. DocumentsInv
  BY DocumentsInit
<1>2. ASSUME NEW l \in BudgetLine PROVE Withheld(l)
  <2>1. Unreleased(l) = {}
    BY DEF Init, Rows, Unreleased
  <2>2. CostIn(purchaseRequest, {}) = 0
    BY TotalOfNone DEF CostIn
  <2>3. amount[l].reserved = 0
    BY DEF Init, BudgetInit
  <2> QED
    BY <2>1, <2>2, <2>3 DEF Withheld
<1> QED
  BY <1>1, <1>2 DEF HoldInv

(***************************************************************************)
(* A receipt that keeps within its request releases nothing that is held   *)
(* for another: a line holds at least what the requests nobody received    *)
(* reserved on it, whatever else is requested, received and invoiced.      *)
(***************************************************************************)
THEOREM ReservationsHold == Spec => []ReservationsHoldWithin
<1>1. HoldInv /\ [Next]_vars => HoldInv'
  <2> SUFFICES ASSUME HoldInv, [Next]_vars PROVE HoldInv'
    OBVIOUS
  <2>1. DocumentsInv /\ DocumentsInv'
    BY DocumentsStep DEF HoldInv
  <2>2. ASSUME NEW l \in BudgetLine PROVE Withheld(l)'
    BY <2>1, WithheldStep DEF HoldInv
  <2> QED
    BY <2>1, <2>2 DEF HoldInv
<1>2. HoldInv => ReservationsHoldWithin
  BY WithheldCovers DEF HoldInv, ReservationsHoldWithin
<1> QED
  BY <1>1, <1>2, HoldInit, PTL DEF Spec
=============================================================================
