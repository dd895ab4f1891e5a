---------------------------- MODULE MCProcurement ----------------------------
(***************************************************************************)
(* Procurement on a small instance: one product in one warehouse, a plan   *)
(* that may be requested twice, two budgets for two periods, the second of *)
(* which has a line for another account too.                               *)
(***************************************************************************)
EXTENDS Procurement, TLC

CONSTANTS r1, r2, g1, g2, v1, v2, p1, x1, b1, b2, l1, l2, l3

Symmetric ==
    Permutations({r1, r2}) \cup Permutations({g1, g2}) \cup Permutations({v1, v2})

MCPlanNeed == p1 :> (x1 :> 2)
MCPlanDay == p1 :> 1
MCStandardCost == x1 :> 1
MCBudgetOf == l1 :> b1 @@ l2 :> b2 @@ l3 :> b2
MCAccountOf == l1 :> Expense @@ l2 :> Expense @@ l3 :> Inventory
MCCovers == b1 :> {1} @@ b2 :> {2}
=============================================================================
