------------------------------ MODULE DemoSeed ------------------------------
(***************************************************************************)
(* scripts/seed_demo_data.py, which fills a database with the demo pack.   *)
(* The script is one function of some fifty stages that commits after      *)
(* every row or batch of rows, may be killed between two commits, and is   *)
(* simply run again.  A stage either fills a table it finds empty, or adds *)
(* the rows whose key is missing, or writes its rows whatever is there, or *)
(* deletes rows.  The values of the rows are left out: a row is known by   *)
(* its stage and its number, and Each rows stand for the rows of a stage   *)
(* that commits them one by one.  Nobody else writes while the script is   *)
(* running; between two runs the operators add rows of their own, with     *)
(* keys that are not the pack's.                                           *)
(***************************************************************************)
EXTENDS Tables, Sequences

CONSTANTS Each,        \* rows of a stage that commits row by row
          OwnTables    \* tables the operators add rows of their own to

ASSUME EachAssumption == Each \in Nat \ {0}
ASSUME NoneIsNoAccount == None # "second"

\* Rows of the operators in other tables are left out.
ASSUME OwnTablesAssumption ==
  OwnTables \subseteq {"accounts", "beneficiaries", "meal_plans", "vehicle_types", "vehicles",
                       "drivers", "vehicle_assignments", "asset_categories", "assets"}

VARIABLES rows,           \* the rows in the database
          stage,          \* the stage the running script is in; 0 when it is not running
          item,           \* the row of that stage it writes next
          outcome,        \* how the last run ended
          expense,        \* the account the running script takes for the material costs
          budgetAccount,  \* the account of the demo budget's line
          activeKitchen,  \* active_sppg_id of a demo user
          cutShort        \* history: the stages in which a run was killed or failed

seedVars ==
  <<rows, stage, item, outcome, expense, budgetAccount, activeKitchen, cutShort>>

(***************************************************************************)
(* The kinds of stages.                                                    *)
(***************************************************************************)
Stage(how, table, name, count) ==
  [how |-> how, tables |-> {table}, table |-> table, name |-> name, count |-> count]

\* Fills the table if it holds no row at all, in one commit.
FillEmpty(t, name) == Stage("fill", t, name, 1)
\* Adds the rows whose key is missing.
Keep(t, count)     == Stage("write", t, "demo", count)
\* Adds the missing rows and sets every column of the others, one commit per row.
Overwrite(t)       == Stage("write", t, "demo", Each)
\* Adds rows, after a stage that deleted them, in one commit.
Insert(t)          == Stage("write", t, "demo", 1)
\* Deletes the rows that are not the pack's (Purge) or all rows (Clear) of some tables.
Purge(tables) ==
  [how |-> "purge", tables |-> tables, table |-> "", name |-> "", count |-> 1]
Clear(tables) ==
  [how |-> "clear", tables |-> tables, table |-> "", name |-> "", count |-> 1]

(***************************************************************************)
(* The stages, in the order of the script.                                 *)
(***************************************************************************)
Tenant            == FillEmpty("tenants", "demo")
Users             == Keep("users", 2)
Unit              == FillEmpty("uoms", "demo")
MenuProduct       == FillEmpty("products", "menu")
Recipe            == FillEmpty("recipes", "demo")
Ingredient        == Keep("products", 1)
RecipeLine        == FillEmpty("recipe_lines", "demo")
Schools           == Keep("schools", Each)
Kitchens          == Keep("sppg", Each)
ServiceAreas      == Keep("service_areas", Each)
Warehouses        == Keep("warehouses", Each)
\* Sets the active kitchen of the demo users and gives them access to every kitchen.
AccessGrants      == Stage("grant", "user_sppg_access", "demo", Each)

\* Whatever beneficiary does not carry a reference of the pack goes, and the rest is written.
BeneficiaryPurge  == Purge({"beneficiaries"})
Beneficiaries     == Overwrite("beneficiaries")
FirstMealPlan     == FillEmpty("meal_plans", "first")
MealPlans         == Keep("meal_plans", Each)
ProductionOrders  == Overwrite("production_orders")
DeliveryOrders    == Overwrite("delivery_orders")
Routes            == Keep("delivery_routes", Each)
Proofs            == Keep("delivery_proofs", Each)
Incidents         == Keep("delivery_incidents", Each)

\* The fleet of an earlier pack goes, known by its codes; then the runs of the vehicles.
FleetPurge        == Purge({"vehicle_types", "vehicles", "drivers"})
VehicleTypes      == Overwrite("vehicle_types")
Vehicles          == Overwrite("vehicles")
Drivers           == Overwrite("drivers")
FleetClear        == Clear({"vehicle_locations", "vehicle_assignments", "vehicle_maintenances"})
VehicleAssignments == Overwrite("vehicle_assignments")
Maintenances      == Overwrite("vehicle_maintenances")
Locations         == Overwrite("vehicle_locations")

Feedback          == Keep("feedback_submissions", Each)
Complaints        == Keep("complaints", Each)
QualityScores     == Keep("service_quality_scores", Each)
FirstStock        == FillEmpty("inventory_transactions", "demo")

\* Mutant of Accounts: the accounts are committed one by one.
AccountsEach      == Stage("fill", "accounts", "base", Each)

\* Cash, materials, stock and goods received: four accounts in one commit.
Accounts          == FillEmpty("accounts", "base")
FurtherAccounts   == Keep("accounts", Each)
AssetAccounts     == Stage("write", "accounts", "asset", Each)
AssetPurge        == Purge({"assets", "asset_categories"})
AssetCategories   == Overwrite("asset_categories")
Assets            == Overwrite("assets")
AssetClear        == Clear({"asset_assignments", "asset_depreciations"})
AssetAssignments  == Insert("asset_assignments")
Depreciations     == Insert("asset_depreciations")
DemoBudget        == FillEmpty("budgets", "demo")

\* The journals of the demo costs, which the script then charges to the approved budgets.
CashJournals      == Keep("journal_entries", Each)
FundingPurge      ==
  Purge({"funding_sources", "funding_agreements", "funding_disbursements", "funding_repayments"})
FundingSources    == Overwrite("funding_sources")
Agreements        == Overwrite("funding_agreements")
Disbursements     == Keep("funding_disbursements", Each)
Repayments        == Keep("funding_repayments", Each)
Claims            == Overwrite("government_claims")
ClaimPayments     == Keep("claim_payments", Each)

Script ==
  << Tenant, Users, Unit, MenuProduct, Recipe, Ingredient, RecipeLine, Schools, Kitchens,
     ServiceAreas, Warehouses, AccessGrants, BeneficiaryPurge, Beneficiaries, FirstMealPlan,
     MealPlans, ProductionOrders, DeliveryOrders, Routes, Proofs, Incidents, FleetPurge,
     VehicleTypes, Vehicles, Drivers, FleetClear, VehicleAssignments, Maintenances, Locations,
     Feedback, Complaints, QualityScores, FirstStock, Accounts, FurtherAccounts, AssetAccounts,
     AssetPurge, AssetCategories, Assets, AssetClear, AssetAssignments, Depreciations,
     DemoBudget, CashJournals, FundingPurge, FundingSources, Agreements, Disbursements,
     Repayments, Claims, ClaimPayments >>

PositionOf(s) == CHOOSE i \in 1 .. Len(Script) : Script[i] = s

(***************************************************************************)
(* The rows of a stage, those of a table and the operators'.               *)
(***************************************************************************)
Row(s, k) == [table |-> s.table, name |-> s.name, item |-> k]

\* A row of the operators that is coded like the earlier pack's: a purge of its table takes it.
Own(t) == [table |-> t, name |-> "own", item |-> 1]

\* A vehicle or an asset of the operators that is coded otherwise and stays.
Lasting(t) == [table |-> t, name |-> "lasting", item |-> 1]

OwnRows ==
  {Own(t) : t \in OwnTables} \cup {Lasting(t) : t \in OwnTables \cap {"vehicles", "assets"}}

\* The driver of their assignment, and the type and the category of what stays.
Referred(r) ==
  CASE r = Own("vehicle_assignments") -> {Own("drivers")}
    [] r = Lasting("vehicles")        -> {Own("vehicle_types")}
    [] r = Lasting("assets")          -> {Own("asset_categories")}
    [] OTHER                          -> {}

RowsIn(tables) == {r \in rows : r.table \in tables}

\* The kitchens, the one the script makes active, and the access of a demo user to a kitchen.
Kitchen == 1 .. Each

Home == 1

Access(k) == Row(AccessGrants, k)

Current == Script[stage]

\* The servings.  A row of theirs is made from a row of an earlier stage and is passed over
\* if that is missing; the first row of each is of the first meal plan's serving.
Servings == {ProductionOrders, DeliveryOrders, Routes, Proofs, Incidents}

Parents(s, k) ==
  CASE s = ProductionOrders /\ k = 1     -> {Row(FirstMealPlan, 1)}
    [] s = ProductionOrders /\ k # 1     -> {Row(MealPlans, k)}
    [] s = DeliveryOrders                -> {Row(ProductionOrders, k)}
    [] s \in {Routes, Proofs, Incidents} -> {Row(DeliveryOrders, k)}
    [] OTHER                             -> {}

(***************************************************************************)
(* A run of the script.                                                    *)
(***************************************************************************)
BeginRun ==
  /\ stage = 0
  /\ stage' = 1
  /\ item' = 1
  /\ outcome' = "running"
  /\ expense' = None
  /\ UNCHANGED <<rows, budgetAccount, activeKitchen, cutShort>>

\* The run leaves its stage, and with the last one it ends.
NextStage ==
  IF stage = Len(Script)
  THEN stage' = 0 /\ item' = 1 /\ outcome' = "finished"
  ELSE stage' = stage + 1 /\ item' = 1 /\ UNCHANGED outcome

\* What a purging or clearing stage deletes.
Deleted == {r \in RowsIn(Current.tables) : Current.how = "clear" \/ r.name = "own"}

\* Mutant of Raises: the pack's own drivers are taken for those of the earlier pack.
RaisesForAnyDriver ==
  \/ Current = CashJournals /\ Row(Accounts, 1) \notin rows
  \/ Current = FleetPurge /\ {Row(Drivers, 1), Row(VehicleAssignments, 1)} \subseteq rows

\* The lookups of account_map raise, and so does the delete of a row that one which stays
\* refers to.
Raises ==
  \/ Current = CashJournals /\ Row(Accounts, 1) \notin rows
  \/ /\ Current.how \in {"purge", "clear"}
     /\ \E r \in rows \ Deleted : Referred(r) \cap Deleted # {}

RaiseError ==
  /\ stage # 0
  /\ Raises
  /\ stage' = 0
  /\ item' = 1
  /\ outcome' = "failed"
  /\ cutShort' = cutShort \cup {stage}
  /\ UNCHANGED <<rows, expense, budgetAccount, activeKitchen>>

\* Mutant of ExpenseAccount: the account is looked up in the list of all accounts in any case.
SecondAccount(made) == "second"

\* The account of the material costs is the one just made, or else the second by code.
ExpenseAccount(made) == IF made THEN "materials" ELSE "second"

\* list_...() is not empty; asked once, before the first row.
FindsRows == item = 1 /\ RowsIn({Current.table}) # {}

LeaveFilled ==
  /\ stage # 0
  /\ Current.how = "fill"
  /\ FindsRows
  /\ NextStage
  /\ expense' = IF Current = Accounts THEN ExpenseAccount(FALSE) ELSE expense
  /\ UNCHANGED <<rows, budgetAccount, activeKitchen, cutShort>>

WriteRow ==
  /\ stage # 0
  /\ Current.how \in {"fill", "write"}
  /\ ~Raises
  /\ Current.how = "fill" => ~FindsRows
  /\ rows' = rows \cup {r \in {Row(Current, item)} : Parents(Current, item) \subseteq rows}
  /\ IF item < Current.count
     THEN item' = item + 1 /\ UNCHANGED <<stage, outcome>>
     ELSE NextStage
  /\ expense' = IF Current = Accounts THEN ExpenseAccount(TRUE) ELSE expense
  /\ budgetAccount' = IF Current = DemoBudget THEN expense ELSE budgetAccount
  /\ UNCHANGED <<activeKitchen, cutShort>>

GrantAccesses ==
  /\ stage # 0
  /\ Current = AccessGrants
  /\ rows' = rows \cup {Access(k) : k \in Kitchen}
  /\ activeKitchen' = Home
  /\ NextStage
  /\ UNCHANGED <<expense, budgetAccount, cutShort>>

DeleteRows ==
  /\ stage # 0
  /\ Current.how \in {"purge", "clear"}
  /\ ~Raises
  /\ rows' = rows \ Deleted
  /\ NextStage
  /\ UNCHANGED <<expense, budgetAccount, activeKitchen, cutShort>>

\* The process is stopped between two commits.
Kill ==
  /\ stage # 0
  /\ stage' = 0
  /\ item' = 1
  /\ outcome' = "killed"
  /\ cutShort' = cutShort \cup {stage}
  /\ UNCHANGED <<rows, expense, budgetAccount, activeKitchen>>

\* An operator adds a row through the API while no run is going on, an assignment to a
\* vehicle that stays.
AddOwnRow(r) ==
  /\ stage = 0
  /\ r \notin rows
  /\ Referred(r) \subseteq rows
  /\ r.table = "vehicle_assignments" => RowsIn({"vehicles"}) \ {Own("vehicles")} # {}
  /\ rows' = rows \cup {r}
  /\ outcome' = "none"
  /\ UNCHANGED <<stage, item, expense, budgetAccount, activeKitchen, cutShort>>

SeedInit ==
  /\ rows = {}
  /\ stage = 0
  /\ item = 1
  /\ outcome = "none"
  /\ expense = None
  /\ budgetAccount = None
  /\ activeKitchen = None
  /\ cutShort = {}

SeedStep == BeginRun \/ RaiseError \/ LeaveFilled \/ WriteRow \/ GrantAccesses \/ DeleteRows

(***************************************************************************)
(* Properties.                                                             *)
(***************************************************************************)
(***************************************************************************)
(* A finished run leaves the whole pack behind, whatever runs were killed  *)
(* before it and wherever: every row of every stage is there, except that  *)
(* a table the script only fills when empty may hold the operators' rows   *)
(* instead; and where their meal plan has so kept out the pack's first     *)
(* one, the serving of that is missing too, from its order to its          *)
(* incident, but no other serving is.                                      *)
(***************************************************************************)
WholePack ==
  outcome = "finished" =>
    \A i \in 1 .. Len(Script) :
      LET s == Script[i]
      IN  \/ s.how \in {"purge", "clear"}
          \/ \A k \in 1 .. s.count :
               \/ Row(s, k) \in rows
               \/ s \in Servings /\ k = 1 /\ Row(FirstMealPlan, 1) \notin rows
          \/ s.how = "fill" /\ Own(s.table) \in rows

(***************************************************************************)
(* The demo budget is for the material costs, which the script charges to  *)
(* it, unless a run was killed, or failed, after the accounts were made    *)
(* and before the budget was (the next run takes whatever account is       *)
(* second by code), or the operators had made a chart of accounts of their *)
(* own.                                                                    *)
(***************************************************************************)
BudgetSlipsNeedsCut ==
  budgetAccount = "second" =>
    \/ \E i \in cutShort : PositionOf(Accounts) < i /\ i <= PositionOf(DemoBudget)
    \/ Own("accounts") \in rows

(***************************************************************************)
(* The script fails only over what the operators did: a chart of accounts  *)
(* that is not the pack's, which no later run can complete, or a row that  *)
(* stays and refers to one the script takes for the earlier pack's, an old *)
(* driver, vehicle type or asset category.  No kill and no migration       *)
(* leaves a database on which it fails.                                    *)
(***************************************************************************)
FailureNeedsOwnRows ==
  outcome = "failed" =>
    \/ Own("accounts") \in rows
    \/ \E r \in rows : Referred(r) \cap rows # {}
=============================================================================
