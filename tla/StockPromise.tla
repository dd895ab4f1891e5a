---------------------------- MODULE StockPromise ----------------------------
(***************************************************************************)
(* What the stock of a kitchen promises, whatever the tables behind it.    *)
(* Every stock item (a product in a warehouse) holds a stock and a promise *)
(* made on it to meal plans.  Stock is received, issued, moved and, when a *)
(* promise is kept, consumed.  Nothing is ever issued or promised that the *)
(* item does not hold free of earlier promises.                            *)
(*                                                                         *)
(* KitchenCycle is shown to implement this module with the transaction     *)
(* ledger as the stock: the docs call the ledger the source of truth.      *)
(***************************************************************************)
EXTENDS Integers

CONSTANT Item

VARIABLES
    stock,     \* what the item holds
    promised   \* how much of it is set aside for meal plans

vars == <<stock, promised>>

Quantities == [Item -> Nat]

Init ==
    /\ stock = [i \in Item |-> 0]
    /\ promised = [i \in Item |-> 0]

(***************************************************************************)
(* Actions are relations between the item's figures before and after the   *)
(* step; none names the amount.                                            *)
(***************************************************************************)
Receive ==
    /\ stock' \in Quantities
    /\ \A i \in Item : stock'[i] >= stock[i]
    /\ UNCHANGED promised

Issue ==
    /\ stock' \in Quantities
    /\ \A i \in Item : promised[i] <= stock'[i] /\ stock'[i] <= stock[i]
    /\ UNCHANGED promised

Move ==
    /\ stock' \in Quantities
    /\ \E i, j \in Item :
          /\ i # j
          /\ promised[i] <= stock'[i]
          /\ stock'[i] + stock'[j] = stock[i] + stock[j]
          /\ stock'[j] >= stock[j]
          /\ \A k \in Item \ {i, j} : stock'[k] = stock[k]
    /\ UNCHANGED promised

Promise ==
    /\ promised' \in Quantities
    /\ \A i \in Item : promised[i] <= promised'[i] /\ promised'[i] <= stock[i]
    /\ UNCHANGED stock

Fulfil ==
    /\ stock' \in Quantities
    /\ promised' \in Quantities
    /\ \A i \in Item :
          /\ promised'[i] <= promised[i]
          /\ stock[i] - stock'[i] = promised[i] - promised'[i]

Next == Receive \/ Issue \/ Move \/ Promise \/ Fulfil

Spec == Init /\ [][Next]_vars
=============================================================================
