---------------------------- MODULE KitchenCycle ----------------------------
(***************************************************************************)
(* From meal plan to meal: MealPlanService reserves the materials of an    *)
(* approved plan in the stock of StockLedger, under the workflow of        *)
(* ApprovalWorkflow, and ProductionService consumes them when a production *)
(* order of the plan is completed.  Requests are served one at a time.     *)
(***************************************************************************)
EXTENDS StockLedger, ApprovalWorkflow

CONSTANTS
    Order,     \* production_orders rows that may be created
    Need,      \* Need[p][x]: what plan p needs of product x, gross of waste
    RowBefore  \* RowBefore[w][v]: the id of warehouse w sorts before that of v

ASSUME NeedIsBounded == Need \in [MealPlan -> [Product -> 0 .. MaxQty]]
ASSUME WarehousesAreFinite == IsFiniteSet(Warehouse)

VARIABLES
    order,     \* production_orders
    consumed,  \* production_material_consumptions.actual_quantity by item
    audited    \* plans with a RESERVE_MATERIALS audit event

kitchenVars == <<order, consumed, audited>>
vars == <<stockVars, workflowVars, kitchenVars>>

OrderRow == [plan : MealPlan, status : {"PLANNED", "COMPLETED"}]

ASSUME NoneIsNoOrder == None \notin OrderRow

Draw == [Item -> 0 .. MaxQty]

-----------------------------------------------------------------------------
(***************************************************************************)
(* Both services walk the balance rows of a product in the order           *)
(* list_by_sppg_and_product returns them, the most available first, and    *)
(* take what a pool (available, or reserved) holds until the requirement   *)
(* is met.  A draw is what such walks take from every item, one walk for   *)
(* each product.                                                           *)
(***************************************************************************)
Before(w, v, x) ==
    \/ balance[<<w, x>>].available > balance[<<v, x>>].available
    \/ /\ balance[<<w, x>>].available = balance[<<v, x>>].available
       /\ RowBefore[w][v]

TakesInOrder(take, pool) ==
    \A x \in Product, w, v \in Warehouse :
        w # v /\ Before(w, v, x) /\ take[<<v, x>>] > 0
            => take[<<w, x>>] = pool[<<w, x>>]

\* Mutant of Meets: the walk does not stop once the requirement is met.
MeetsAtLeast(take, pool, p) ==
    /\ \A i \in Item : take[i] <= pool[i]
    /\ \A x \in Product :
          Total([w \in Warehouse |-> take[<<w, x>>]], Warehouse) >= Need[p][x]
    /\ TakesInOrder(take, pool)

\* The walk raises, and the request is undone, when a pool falls short.
Meets(take, pool, p) ==
    /\ \A i \in Item : take[i] <= pool[i]
    /\ \A x \in Product :
          Total([w \in Warehouse |-> take[<<w, x>>]], Warehouse) = Need[p][x]
    /\ TakesInOrder(take, pool)

\* Mutant of AvailableStock: what is promised already is promised again.
StockOnHand == [i \in Item |-> balance[i].onHand]

AvailableStock == [i \in Item |-> balance[i].available]
ReservedStock == [i \in Item |-> balance[i].reserved]

-----------------------------------------------------------------------------
(* What a reservation and a completion do to one balance row.              *)

\* Mutants of SetAside: the available column is forgotten; the stock is taken
\* off the shelf at once.
SetAsideOnce(row, q) ==
    [onHand |-> row.onHand, reserved |-> row.reserved + q, available |-> row.available]
SetAsideTaken(row, q) ==
    [onHand |-> row.onHand - q, reserved |-> row.reserved + q, available |-> row.available - q]

SetAside(row, q) ==
    [onHand |-> row.onHand, reserved |-> row.reserved + q, available |-> row.available - q]

\* complete_production_order takes the quantity off the row itself...
TakenFromReserve(row, q) ==
    [onHand |-> row.onHand - q, reserved |-> row.reserved - q, available |-> row.available]

\* ...and then posts an ISSUE_TO_PRODUCTION of the same quantity, which goes
\* through create_transaction and takes it off once more.
IssuedToProduction(row, q) ==
    IF q = 0 THEN row ELSE Decreased(TakenFromReserve(row, q), q)

-----------------------------------------------------------------------------
Init ==
    /\ StockInit
    /\ WorkflowInit
    /\ order = [o \in Order |-> None]
    /\ consumed = [i \in Item |-> 0]
    /\ audited = {}

\* reserve_materials and its route's audit event.
ReserveMaterials(p) ==
    /\ MarkReserved(p)
    /\ \E take \in Draw :
          /\ Meets(take, AvailableStock, p)
          /\ balance' = [i \in Item |-> SetAside(balance[i], take[i])]
    /\ audited' = audited \cup {p}
    /\ UNCHANGED <<posted, batch, order, consumed>>

\* create_from_meal_plan: the plan stays MATERIAL_RESERVED, so more than one
\* order may be created from it.
CreateProductionOrder(o, p) ==
    /\ order[o] = None
    /\ status[p] = "MATERIAL_RESERVED"
    /\ order' = [order EXCEPT ![o] = [plan |-> p, status |-> "PLANNED"]]
    /\ UNCHANGED <<stockVars, workflowVars, consumed, audited>>

\* complete_production_order: the status of the plan is not looked at, and
\* create_transaction refuses what is not available besides being reserved.
CompleteProductionOrder(o) ==
    /\ order[o] # None
    /\ order[o].status # "COMPLETED"
    /\ \E take \in Draw :
          /\ Meets(take, ReservedStock, order[o].plan)
          /\ \A i \in Item : take[i] > 0 => balance[i].available >= take[i]
          /\ balance' = [i \in Item |-> IssuedToProduction(balance[i], take[i])]
          /\ posted' = [i \in Item |-> posted[i] - take[i]]
          /\ consumed' = [i \in Item |-> consumed[i] + take[i]]
    /\ order' = [order EXCEPT ![o].status = "COMPLETED"]
    /\ status' = [status EXCEPT ![order[o].plan] = "IN_PRODUCTION"]
    /\ UNCHANGED <<batch, definition, version, instance, approval, audited>>

Next ==
    \/ StockNext /\ UNCHANGED <<workflowVars, kitchenVars>>
    \/ DocumentNext /\ UNCHANGED <<stockVars, kitchenVars>>
    \/ \E p \in MealPlan : ReserveMaterials(p)
    \/ \E o \in Order, p \in MealPlan : CreateProductionOrder(o, p)
    \/ \E o \in Order : CompleteProductionOrder(o)

Spec == Init /\ [][Next]_vars
-----------------------------------------------------------------------------
TypeOK ==
    /\ StockTypeOK
    /\ WorkflowTypeOK
    /\ order \in [Order -> OrderRow \cup {None}]
    /\ consumed \in [Item -> Nat]
    /\ audited \in SUBSET MealPlan

(***************************************************************************)
(* The three figures of a balance row agree with each other and none is    *)
(* negative, although receipts, issues, transfers, reservations and        *)
(* completions each rewrite a different pair of them.                      *)
(***************************************************************************)
Solvent ==
    \A i \in Item :
        /\ balance[i].available = balance[i].onHand - balance[i].reserved
        /\ balance[i].reserved >= 0
        /\ balance[i].available >= 0

(***************************************************************************)
(* A balance departs from the transaction ledger by exactly what           *)
(* production has consumed from the item, no more and no less: completing  *)
(* an order takes its materials off quantity_on_hand twice and off the     *)
(* ledger once, and no other request makes the two disagree.               *)
(***************************************************************************)
DriftIsProductionUse ==
    \A i \in Item : balance[i].onHand = posted[i] - consumed[i]

(***************************************************************************)
(* What is reserved of a product over all warehouses is what the audited   *)
(* reservations set aside less what the completed orders needed: draws     *)
(* over several warehouses neither lose nor invent a unit.                 *)
(***************************************************************************)
CompletedOrders == {o \in Order : order[o] # None /\ order[o].status = "COMPLETED"}

ReservationsAccounted ==
    \A x \in Product :
        Total([w \in Warehouse |-> balance[<<w, x>>].reserved], Warehouse) =
            Total([p \in audited |-> Need[p][x]], audited)
              - Total([o \in CompletedOrders |-> Need[order[o].plan][x]], CompletedOrders)

(***************************************************************************)
(* Stock is set aside only in the step that marks a plan MATERIAL_RESERVED *)
(* and only after somebody decided APPROVED on an approval request of that *)
(* plan, or where the tenant's definition does not ask for a decision.     *)
(***************************************************************************)
ReserveNeedsDecision ==
    [][(\E i \in Item : balance'[i].reserved > balance[i].reserved)
          => \E p \in MealPlan :
                /\ status[p] = "APPROVED" /\ status'[p] = "MATERIAL_RESERVED"
                /\ DecidedApproved(p) \/ Ungated("meal_plan")]_vars

(***************************************************************************)
(* The transaction ledger never promises or issues what it does not hold:  *)
(* the cycle implements StockPromise with the ledger as the stock.         *)
(***************************************************************************)
Ledger == INSTANCE StockPromise
    WITH stock <- posted, promised <- [i \in Item |-> balance[i].reserved]

LedgerKeepsPromises == Ledger!Spec

(***************************************************************************)
(* production_service.py:151 says of completing an order that              *)
(* quantity_available stays as it is, the stock having left it when it was *)
(* reserved.                                                               *)
(***************************************************************************)
CompletionLeavesAvailable ==
    [][\A o \in Order :
          order[o] # None /\ order[o].status = "PLANNED" /\ order'[o].status = "COMPLETED"
            => \A i \in Item : balance'[i].available = balance[i].available]_vars
=============================================================================
