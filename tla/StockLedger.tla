----------------------------- MODULE StockLedger -----------------------------
(***************************************************************************)
(* StockService: the inventory_balances rows, the inventory_transactions   *)
(* ledger and the inventory_batches rows of one SPPG, and the requests     *)
(* that post stock.  Each action is one request served alone: the service  *)
(* call, its commit, or nothing at all when a check raises (the session is *)
(* dropped uncommitted).  StockSessions takes up requests that overlap.    *)
(*                                                                         *)
(* A balance row exists for every item here: a missing row and a row of    *)
(* zeros answer every request alike.                                       *)
(***************************************************************************)
EXTENDS Integers, Tables

CONSTANTS
    Warehouse,
    Product,
    Batch,      \* batch rows that may be created
    MaxQty,     \* bound: the largest quantity, of either sign, of one request
    MaxStock    \* bound: no receipt takes an item or a batch above this

ASSUME BoundsAreNaturals == MaxQty \in Nat /\ MaxStock \in Nat
ASSUME NoneIsNoRow == None \notin Batch /\ None \notin Warehouse

VARIABLES
    balance,    \* inventory_balances, by (warehouse, product)
    posted,     \* inventory_transactions netted by item: in minus out
    batch       \* inventory_batches

stockVars == <<balance, posted, batch>>

Item == Warehouse \X Product

BalanceRow == [onHand : Int, reserved : Int, available : Int]

\* quantity_reserved of a batch is written once, as 0, so quantity_available
\* is always quantity_on_hand and one figure stands for both.
BatchRow == [product : Product, warehouse : Warehouse \cup {None},
             onHand : Int, blocked : BOOLEAN]

Quantity == 1 .. MaxQty

-----------------------------------------------------------------------------
(* A balance row after _increase_balance and _decrease_balance.            *)

Increased(row, q) ==
    [onHand    |-> row.onHand + q,
     reserved  |-> row.reserved,
     available |-> row.onHand + q - row.reserved]

\* Mutant of Decreased: the availability is not computed again.
DecreasedOnHand(row, q) ==
    [onHand |-> row.onHand - q, reserved |-> row.reserved, available |-> row.available]

Decreased(row, q) ==
    [onHand    |-> row.onHand - q,
     reserved  |-> row.reserved,
     available |-> row.onHand - q - row.reserved]

\* The optional batch of a transaction must exist and hold its product.
BatchMatches(b, x) ==
    \A c \in {b} \ {None} : batch[c] # None /\ batch[c].product = x

\* An outbound transaction also wants its batch free and large enough.
BatchServes(b, x, q) ==
    /\ BatchMatches(b, x)
    /\ \A c \in {b} \ {None} : ~batch[c].blocked /\ batch[c].onHand >= q

\* A batch handed to a transaction goes wherever the goods go, whole.
BatchMoved(b, w, q) ==
    IF b = None THEN batch
    ELSE [batch EXCEPT ![b].warehouse = w, ![b].onHand = @ + q]

-----------------------------------------------------------------------------
StockInit ==
    /\ balance = [i \in Item |-> [onHand |-> 0, reserved |-> 0, available |-> 0]]
    /\ posted = [i \in Item |-> 0]
    /\ batch = [b \in Batch |-> None]

\* create_batch: the row's own stock is taken from the payload, below zero too;
\* no balance and no ledger entry comes with it.
CreateBatch(b, x, w, q, blocked) ==
    /\ batch[b] = None
    /\ batch' = [batch EXCEPT ![b] =
                    [product |-> x, warehouse |-> w, onHand |-> q, blocked |-> blocked]]
    /\ UNCHANGED <<balance, posted>>

\* create_transaction, an inbound type: RECEIPT, ADJUSTMENT_IN,
\* DONATION_RECEIPT or PRODUCTION_RETURN.
PostInbound(i, q, b) ==
    /\ BatchMatches(b, i[2])
    /\ posted[i] + q <= MaxStock
    /\ \A c \in {b} \ {None} : batch[c].onHand + q <= MaxStock
    /\ balance' = [balance EXCEPT ![i] = Increased(@, q)]
    /\ posted' = [posted EXCEPT ![i] = @ + q]
    /\ batch' = BatchMoved(b, i[1], q)

\* create_transaction, an outbound type: ISSUE_TO_PRODUCTION, DELIVERY_ISSUE,
\* ADJUSTMENT_OUT, DONATION_DISTRIBUTION, WASTE or EXPIRED.  The batch need
\* not lie in the warehouse issued from.
PostOutbound(i, q, b) ==
    /\ BatchServes(b, i[2], q)
    /\ balance[i].available >= q
    /\ balance' = [balance EXCEPT ![i] = Decreased(@, q)]
    /\ posted' = [posted EXCEPT ![i] = @ - q]
    /\ batch' = IF b = None THEN batch ELSE [batch EXCEPT ![b].onHand = @ - q]

\* create_transaction, INTERNAL_TRANSFER: the batch moves whole, blocked or
\* not, whatever the quantity transferred.
PostTransfer(w, v, x, q, b) ==
    /\ w # v
    /\ BatchMatches(b, x)
    /\ posted[<<v, x>>] + q <= MaxStock
    /\ balance[<<w, x>>].available >= q
    /\ balance' = [balance EXCEPT ![<<w, x>>] = Decreased(@, q),
                                  ![<<v, x>>] = Increased(@, q)]
    /\ posted' = [posted EXCEPT ![<<w, x>>] = @ - q, ![<<v, x>>] = @ + q]
    /\ batch' = BatchMoved(b, v, 0)

StockNext ==
    \/ \E b \in Batch, x \in Product, w \in Warehouse \cup {None},
          q \in -MaxQty .. MaxQty, blocked \in BOOLEAN : CreateBatch(b, x, w, q, blocked)
    \/ \E i \in Item, q \in Quantity, b \in Batch \cup {None} :
          PostInbound(i, q, b) \/ PostOutbound(i, q, b)
    \/ \E w, v \in Warehouse, x \in Product, q \in Quantity, b \in Batch \cup {None} :
          PostTransfer(w, v, x, q, b)

StockSpec == StockInit /\ [][StockNext]_stockVars

StockTypeOK ==
    /\ balance \in [Item -> BalanceRow]
    /\ posted \in [Item -> Int]
    /\ batch \in [Batch -> BatchRow \cup {None}]

(***************************************************************************)
(* As long as nothing but StockService writes the balances, every balance  *)
(* reconciles with the ledger and covers itself: the design makes the      *)
(* ledger the source of truth.  KitchenCycle shows who breaks it.          *)
(***************************************************************************)
BalanceIsLedger ==
    \A i \in Item :
        /\ balance[i].onHand = posted[i]
        /\ balance[i].available = posted[i]
        /\ posted[i] >= 0
=============================================================================
