----------------------------- MODULE MCStockFefo -----------------------------
(***************************************************************************)
(* StockFefo on a small instance: two batches of one product in two        *)
(* warehouses, so that a preview may run from one batch into the next.     *)
(* Nothing tells warehouses or products apart; the batches differ by their *)
(* expiry.                                                                 *)
(***************************************************************************)
EXTENDS StockFefo, TLC

CONSTANTS b1, b2

MCExpiry == b1 :> 1 @@ b2 :> 2

Symmetric == Permutations(Warehouse) \cup Permutations(Product)
=============================================================================
