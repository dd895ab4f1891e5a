---------------------------- MODULE MCDeployment ----------------------------
(***************************************************************************)
(* Two rows for every stage that commits row by row, at most three runs,   *)
(* and any two of: a kill between any two commits, a row of the operators  *)
(* in one of the tables where one matters, a downgrade, a request for      *)
(* kitchens.  Before the first run the database goes to every revision;    *)
(* then to before the accounts, the active kitchen, the accesses or the    *)
(* fleet and all the way down.                                             *)
(***************************************************************************)
EXTENDS Deployment

MCOwnTables ==
  {"accounts", "beneficiaries", "meal_plans", "vehicle_types", "vehicles", "drivers",
   "vehicle_assignments", "asset_categories", "assets"}

Preceding(m) == CHOOSE r \in 0 .. Latest - 1 : Chain[r + 1] = m

MCStops ==
  {0, ActiveKitchenSince - 1, AccessesSince - 1, Preceding(AddFleetFoundation),
   Preceding(AddBudgetAndAccountingFoundation)}
=============================================================================
