----------------------------- MODULE Procurement -----------------------------
(***************************************************************************)
(* ProcurementService: from the shortage of a meal plan to the payment of  *)
(* its supplier.  Each document is made from the one before it, and each   *)
(* request also writes the stock of StockLedger, the budgets of            *)
(* BudgetLedger and a posted journal of AccountingService, in one          *)
(* transaction.  Requests are served one at a time.                        *)
(*                                                                         *)
(* The documents made before are mostly not asked for their status: a plan *)
(* may be requested, a request ordered, and an order received, again and   *)
(* again.                                                                  *)
(***************************************************************************)
EXTENDS StockLedger, BudgetLedger

CONSTANTS
    PurchaseRequest, PurchaseOrder, GoodsReceipt, SupplierInvoice, SupplierPayment,
    MealPlan,
    PlanNeed,      \* PlanNeed[p][x]: what plan p needs of product x
    PlanDay,       \* plan_date
    StandardCost,  \* products.standard_cost
    Price,         \* the latest price a supplier may have for a product
    Tracked,       \* products with track_batch or track_expiry
    Chart          \* account codes of the tenant's chart of accounts

ASSUME PlansAreDated == PlanDay \in [MealPlan -> Day]
ASSUME PlansNeedProducts == PlanNeed \in [MealPlan -> [Product -> 0 .. MaxQty]]
ASSUME CostsAreNaturals == StandardCost \in [Product -> Nat] /\ Price \subseteq Nat
ASSUME ChartHasAccounts == Chart \subseteq Account
ASSUME StockIsFinite == IsFiniteSet(Warehouse) /\ IsFiniteSet(Product)

VARIABLES
    purchaseRequest,    \* of each: None or a RequestRow
    purchaseOrder,      \* None or an OrderRow
    goodsReceipt,       \* None or a ReceiptRow
    supplierInvoice,    \* None or an InvoiceRow
    supplierPayment,    \* None or a PaymentRow
    ledger     \* posted journal lines of these documents by account: debit less credit

documentVars == <<purchaseRequest, purchaseOrder, goodsReceipt, supplierInvoice, supplierPayment>>
vars == <<stockVars, budgetVars, documentVars, ledger>>

Inventory == "130000"
Accrual == "240000"
Payable == "210000"
Cash == "110000"
Expense == "510000"
Code == {Inventory, Accrual, Payable, Cash, Expense}

\* The lines of a request, an order or a receipt, by product.
Lines == UNION {[X -> Quantity] : X \in (SUBSET Product) \ {{}}}

\* "on" is not a column: the budget lines the document was charged to.
RequestRow == [plan : MealPlan, lines : Lines, cost : Nat, on : SUBSET BudgetLine,
               status : {"DRAFT", "ORDERED", "RECEIVED"}]
OrderRow == [request : PurchaseRequest, lines : Lines, cost : Nat,
             status : {"SENT", "APPROVED", "RECEIVED"}]
ReceiptRow == [request : PurchaseRequest, cost : Nat, on : SUBSET BudgetLine]
InvoiceRow == [receipt : GoodsReceipt, cost : Nat, status : {"POSTED", "PAID"}]
PaymentRow == [invoice : SupplierInvoice, cost : Nat]

ASSUME NoneIsNoDocument ==
    /\ None \notin RequestRow /\ None \notin OrderRow /\ None \notin ReceiptRow
    /\ None \notin InvoiceRow /\ None \notin PaymentRow

\* The rows of a table that are there.
Rows(table) == {k \in DOMAIN table : table[k] # None}

-----------------------------------------------------------------------------
(* What a request needs of the other services.                             *)

CostOf(lines, price) == Total([x \in DOMAIN lines |-> lines[x] * price[x]], DOMAIN lines)

Shortage(p, x) ==
    PlanNeed[p][x] - Total([w \in Warehouse |-> balance[<<w, x>>].available], Warehouse)

ShortageLines(p) ==
    [x \in {y \in Product : Shortage(p, y) > 0} |-> Shortage(p, x)]

\* create_and_post_operational_journal raises when an account is missing; the
\* callers leave out a journal of nothing.
PostJournal(debit, credit, q) ==
    /\ q > 0 => {debit, credit} \subseteq Chart
    /\ ledger' = [ledger EXCEPT ![debit] = @ + q, ![credit] = @ - q]

\* One RECEIPT transaction for each line.  A batch number the product already
\* has names that batch, which goes where the goods go; another one is
\* created, empty, by the request.
PostReceipts(w, lines, batchOf, blocked) ==
    LET gets(i) == i[1] = w /\ i[2] \in DOMAIN lines
        of(b) == {x \in DOMAIN batchOf : batchOf[x] = b}
        held(b) == IF batch[b] = None THEN 0 ELSE batch[b].onHand
    IN
    /\ \A x \in DOMAIN lines : posted[<<w, x>>] + lines[x] <= MaxStock
    /\ \A x \in DOMAIN batchOf :
          /\ batch[batchOf[x]] # None => batch[batchOf[x]].product = x
          /\ held(batchOf[x]) + lines[x] <= MaxStock
          /\ \A y \in DOMAIN batchOf : batchOf[x] = batchOf[y] => x = y
    /\ balance' = [i \in Item |->
          IF gets(i) THEN Increased(balance[i], lines[i[2]]) ELSE balance[i]]
    /\ posted' = [i \in Item |-> posted[i] + (IF gets(i) THEN lines[i[2]] ELSE 0)]
    /\ batch' = [b \in Batch |->
          IF of(b) = {} THEN batch[b]
          ELSE [product |-> CHOOSE x \in of(b) : TRUE, warehouse |-> w,
                onHand |-> held(b) + lines[CHOOSE x \in of(b) : TRUE],
                blocked |-> IF batch[b] = None THEN blocked ELSE batch[b].blocked]]

\* _post_goods_receipt_side_effects
ReceiptSideEffects(cost, day) ==
    /\ IF Expense \in Chart THEN CommitBudget(Expense, cost, day) ELSE UNCHANGED budgetVars
    /\ PostJournal(Inventory, Accrual, cost)

-----------------------------------------------------------------------------
Init ==
    /\ StockInit
    /\ BudgetInit
    /\ purchaseRequest = [r \in PurchaseRequest |-> None]
    /\ purchaseOrder = [o \in PurchaseOrder |-> None]
    /\ goodsReceipt = [g \in GoodsReceipt |-> None]
    /\ supplierInvoice = [v \in SupplierInvoice |-> None]
    /\ supplierPayment = [y \in SupplierPayment |-> None]
    /\ ledger = [c \in Code |-> 0]

\* create_purchase_request_from_meal_plan, of a plan in any status.
CreatePurchaseRequest(r, p) ==
    LET lines == ShortageLines(p)
        cost == CostOf(lines, StandardCost)
    IN
    /\ purchaseRequest[r] = None
    /\ DOMAIN lines # {}
    /\ purchaseRequest' = [purchaseRequest EXCEPT ![r] =
          [plan |-> p, lines |-> lines, cost |-> cost, status |-> "DRAFT",
           on |-> IF Expense \in Chart THEN LinesOf(Expense, PlanDay[p]) ELSE {}]]
    /\ IF Expense \in Chart THEN ReserveBudget(Expense, cost, PlanDay[p])
       ELSE UNCHANGED budgetVars
    /\ UNCHANGED <<stockVars, purchaseOrder, goodsReceipt, supplierInvoice,
                   supplierPayment, ledger>>

\* create_purchase_order_from_request, as an order or an RFQ, at the price of
\* the supplier for a product, if it has one, or the estimate.
CreatePurchaseOrder(o, r, kind, price) ==
    /\ purchaseOrder[o] = None
    /\ purchaseRequest[r] # None
    /\ \A x \in Product : price[x] \in Price \cup {StandardCost[x]}
    /\ purchaseOrder' = [purchaseOrder EXCEPT ![o] =
          [request |-> r, lines |-> purchaseRequest[r].lines,
           cost |-> CostOf(purchaseRequest[r].lines, price),
           status |-> IF kind = "RFQ" THEN "SENT" ELSE "APPROVED"]]
    /\ purchaseRequest' = [purchaseRequest EXCEPT ![r].status = "ORDERED"]
    /\ UNCHANGED <<stockVars, budgetVars, goodsReceipt, supplierInvoice,
                   supplierPayment, ledger>>

\* What both ways of receiving write of their documents.
WriteReceipt(g, r, cost, day) ==
    /\ goodsReceipt[g] = None
    /\ goodsReceipt' = [goodsReceipt EXCEPT ![g] =
          [request |-> r, cost |-> cost,
           on |-> IF Expense \in Chart THEN LinesOf(Expense, day) ELSE {}]]
    /\ purchaseRequest' = [purchaseRequest EXCEPT ![r].status = "RECEIVED"]
    /\ ReceiptSideEffects(cost, day)
    /\ UNCHANGED <<supplierInvoice, supplierPayment>>

\* create_goods_receipt_from_purchase_request: at the estimate, no batch.
ReceiveRequest(g, r, w, day) ==
    /\ purchaseRequest[r] # None
    /\ PostReceipts(w, purchaseRequest[r].lines, <<>>, FALSE)
    /\ WriteReceipt(g, r, purchaseRequest[r].cost, day)
    /\ UNCHANGED purchaseOrder

\* create_goods_receipt_from_purchase_order: an RFQ will do, and so will an
\* order received before.
ReceiveOrder(g, o, w, day, batchOf, blocked) ==
    /\ purchaseOrder[o] # None
    /\ DOMAIN batchOf = Tracked \cap DOMAIN purchaseOrder[o].lines
    /\ PostReceipts(w, purchaseOrder[o].lines, batchOf, blocked)
    /\ WriteReceipt(g, purchaseOrder[o].request, purchaseOrder[o].cost, day)
    /\ purchaseOrder' = [purchaseOrder EXCEPT ![o].status = "RECEIVED"]

\* Mutant of CreateSupplierInvoice: the receipt may have one already.
InvoiceAgain(v, g, account, day) ==
    /\ supplierInvoice[v] = None
    /\ goodsReceipt[g] # None
    /\ supplierInvoice' = [supplierInvoice EXCEPT ![v] =
          [receipt |-> g, cost |-> goodsReceipt[g].cost, status |-> "POSTED"]]
    /\ PostJournal(Accrual, Payable, goodsReceipt[g].cost)
    /\ IF account # None THEN ActualizeBudget(account, goodsReceipt[g].cost, day)
       ELSE UNCHANGED budgetVars
    /\ UNCHANGED <<stockVars, purchaseRequest, purchaseOrder, goodsReceipt, supplierPayment>>

\* create_supplier_invoice_from_goods_receipt: the account spent from is that
\* of the payload, if any.
CreateSupplierInvoice(v, g, account, day) ==
    /\ supplierInvoice[v] = None
    /\ goodsReceipt[g] # None
    /\ \A u \in Rows(supplierInvoice) : supplierInvoice[u].receipt # g
    /\ supplierInvoice' = [supplierInvoice EXCEPT ![v] =
          [receipt |-> g, cost |-> goodsReceipt[g].cost, status |-> "POSTED"]]
    /\ PostJournal(Accrual, Payable, goodsReceipt[g].cost)
    /\ IF account # None THEN ActualizeBudget(account, goodsReceipt[g].cost, day)
       ELSE UNCHANGED budgetVars
    /\ UNCHANGED <<stockVars, purchaseRequest, purchaseOrder, goodsReceipt, supplierPayment>>

\* create_supplier_payment_from_invoice
CreateSupplierPayment(y, v) ==
    /\ supplierPayment[y] = None
    /\ supplierInvoice[v] # None
    /\ \A z \in Rows(supplierPayment) : supplierPayment[z].invoice # v
    /\ supplierInvoice[v].status = "POSTED"
    /\ supplierPayment' = [supplierPayment EXCEPT ![y] =
          [invoice |-> v, cost |-> supplierInvoice[v].cost]]
    /\ supplierInvoice' = [supplierInvoice EXCEPT ![v].status = "PAID"]
    /\ PostJournal(Payable, Cash, supplierInvoice[v].cost)
    /\ UNCHANGED <<stockVars, budgetVars, purchaseRequest, purchaseOrder, goodsReceipt>>

\* What else happens to stock and to budgets meanwhile.
Meanwhile ==
    \/ /\ \E i \in Item, q \in Quantity : PostOutbound(i, q, None)
       /\ UNCHANGED <<budgetVars, documentVars, ledger>>
    \/ /\ \E b \in Budget : ApproveBudget(b)
       /\ UNCHANGED <<stockVars, documentVars, ledger>>

Next ==
    \/ \E r \in PurchaseRequest, p \in MealPlan : CreatePurchaseRequest(r, p)
    \/ \E o \in PurchaseOrder, r \in PurchaseRequest, kind \in {"PO", "RFQ"},
          price \in [Product -> Price \cup {StandardCost[x] : x \in Product}] :
          CreatePurchaseOrder(o, r, kind, price)
    \/ \E g \in GoodsReceipt, r \in PurchaseRequest, w \in Warehouse, day \in Day :
          ReceiveRequest(g, r, w, day)
    \/ \E g \in GoodsReceipt, o \in PurchaseOrder, w \in Warehouse, day \in Day,
          X \in SUBSET Tracked, blocked \in BOOLEAN :
          \E batchOf \in [X -> Batch] : ReceiveOrder(g, o, w, day, batchOf, blocked)
    \/ \E v \in SupplierInvoice, g \in GoodsReceipt, account \in Chart \cup {None}, day \in Day :
          CreateSupplierInvoice(v, g, account, day)
    \/ \E y \in SupplierPayment, v \in SupplierInvoice : CreateSupplierPayment(y, v)
    \/ Meanwhile

Spec == Init /\ [][Next]_vars
-----------------------------------------------------------------------------
DocumentTypeOK ==
    /\ purchaseRequest \in [PurchaseRequest -> RequestRow \cup {None}]
    /\ purchaseOrder \in [PurchaseOrder -> OrderRow \cup {None}]
    /\ goodsReceipt \in [GoodsReceipt -> ReceiptRow \cup {None}]
    /\ supplierInvoice \in [SupplierInvoice -> InvoiceRow \cup {None}]
    /\ supplierPayment \in [SupplierPayment -> PaymentRow \cup {None}]
    /\ ledger \in [Code -> Int]

Invoiced(g) == \E v \in Rows(supplierInvoice) : supplierInvoice[v].receipt = g

(***************************************************************************)
(* The accounts agree with the documents that are open: goods received are *)
(* accrued until their invoice comes, invoices are payable until they are  *)
(* paid, and nothing is paid that was not invoiced.                        *)
(***************************************************************************)
LedgerMatchesDocuments ==
    LET receipts == Rows(goodsReceipt)
        open == {v \in Rows(supplierInvoice) : supplierInvoice[v].status = "POSTED"}
        cost(table, rows) == Total([k \in rows |-> table[k].cost], rows)
    IN
    /\ ledger[Inventory] = cost(goodsReceipt, receipts)
    /\ ledger[Accrual] = -cost(goodsReceipt, {g \in receipts : ~Invoiced(g)})
    /\ ledger[Payable] = -cost(supplierInvoice, open)
    /\ ledger[Cash] = -cost(supplierPayment, Rows(supplierPayment))

\* What a budget line should still hold for requests nobody received; an order
\* made late takes the status of a request back, so receipts are looked at.
HeldFor(l) ==
    LET waiting == {r \in Rows(purchaseRequest) :
                       /\ l \in purchaseRequest[r].on
                       /\ \A g \in Rows(goodsReceipt) : goodsReceipt[g].request # r}
    IN Total([r \in waiting |-> purchaseRequest[r].cost], waiting)

\* Receipts of a request on a line it reserved, at no more than it reserved.
WithinRequest(l) ==
    LET on == {g \in Rows(goodsReceipt) : l \in goodsReceipt[g].on} IN
    /\ \A g \in on : LET r == purchaseRequest[goodsReceipt[g].request]
                     IN l \in r.on /\ goodsReceipt[g].cost <= r.cost
    /\ \A g, h \in on : goodsReceipt[g].request = goodsReceipt[h].request => g = h

(***************************************************************************)
(* A receipt releases the reservation of its own request and leaves those  *)
(* of others alone, as long as the receipts of a line keep within their    *)
(* requests: one receipt each, in a period that was reserved in, at no     *)
(* higher cost.                                                            *)
(***************************************************************************)
ReservationsHoldWithin ==
    \A l \in BudgetLine : WithinRequest(l) => amount[l].reserved >= HeldFor(l)
=============================================================================
