---------------------------- MODULE PlatformProofs ----------------------------
(***************************************************************************)
(* What the platform's own plumbing keeps, for any number of kitchens,     *)
(* requests, sessions, keys, rows and runs: first the deployment, its      *)
(* schema, its demo pack and its users' accesses; then the channel, which  *)
(* accepts a key once (it implements MessageOnce) and gives an event to    *)
(* two dispatchers only where they overlapped.                             *)
(***************************************************************************)
EXTENDS Deployment, IntegrationChannel, TablesProofs

(***************************************************************************)
(* The stages of the script, by their positions.                           *)
(***************************************************************************)
LEMMA ScriptLength == Len(Script) = 51
  BY DEF Script

\* The positions, one by one.
LEMMA Positions ==
  \A i \in 1 .. 51 :
    \/ i = 1 \/ i = 2 \/ i = 3 \/ i = 4 \/ i = 5 \/ i = 6 \/ i = 7 \/ i = 8 \/ i = 9
    \/ i = 10 \/ i = 11 \/ i = 12 \/ i = 13 \/ i = 14 \/ i = 15 \/ i = 16 \/ i = 17
    \/ i = 18 \/ i = 19 \/ i = 20 \/ i = 21 \/ i = 22 \/ i = 23 \/ i = 24 \/ i = 25
    \/ i = 26 \/ i = 27 \/ i = 28 \/ i = 29 \/ i = 30 \/ i = 31 \/ i = 32 \/ i = 33
    \/ i = 34 \/ i = 35 \/ i = 36 \/ i = 37 \/ i = 38 \/ i = 39 \/ i = 40 \/ i = 41
    \/ i = 42 \/ i = 43 \/ i = 44 \/ i = 45 \/ i = 46 \/ i = 47 \/ i = 48 \/ i = 49
    \/ i = 50 \/ i = 51
  OBVIOUS

USE DEF Script, Stage, FillEmpty, Keep, Overwrite, Insert, Purge, Clear, Tenant, Users,
        Unit, MenuProduct, Recipe, Ingredient, RecipeLine, Schools, Kitchens,
        ServiceAreas, Warehouses, AccessGrants, BeneficiaryPurge, Beneficiaries,
        FirstMealPlan, MealPlans, ProductionOrders, DeliveryOrders, Routes, Proofs,
        Incidents, FleetPurge, VehicleTypes, Vehicles, Drivers, FleetClear,
        VehicleAssignments, Maintenances, Locations, Feedback, Complaints,
        QualityScores, FirstStock, Accounts, FurtherAccounts, AssetAccounts, AssetPurge,
        AssetCategories, Assets, AssetClear, AssetAssignments, Depreciations,
        DemoBudget, CashJournals, FundingPurge, FundingSources, Agreements,
        Disbursements, Repayments, Claims, ClaimPayments

\* How each stage works,
LEMMA HowAt ==
  /\ Script[1].how = "fill" /\ Script[2].how = "write" /\ Script[3].how = "fill"
  /\ Script[4].how = "fill" /\ Script[5].how = "fill" /\ Script[6].how = "write"
  /\ Script[7].how = "fill" /\ Script[8].how = "write" /\ Script[9].how = "write"
  /\ Script[10].how = "write" /\ Script[11].how = "write" /\ Script[12].how = "grant"
  /\ Script[13].how = "purge" /\ Script[14].how = "write" /\ Script[15].how = "fill"
  /\ Script[16].how = "write" /\ Script[17].how = "write" /\ Script[18].how = "write"
  /\ Script[19].how = "write" /\ Script[20].how = "write" /\ Script[21].how = "write"
  /\ Script[22].how = "purge" /\ Script[23].how = "write" /\ Script[24].how = "write"
  /\ Script[25].how = "write" /\ Script[26].how = "clear" /\ Script[27].how = "write"
  /\ Script[28].how = "write" /\ Script[29].how = "write" /\ Script[30].how = "write"
  /\ Script[31].how = "write" /\ Script[32].how = "write" /\ Script[33].how = "fill"
  /\ Script[34].how = "fill" /\ Script[35].how = "write" /\ Script[36].how = "write"
  /\ Script[37].how = "purge" /\ Script[38].how = "write" /\ Script[39].how = "write"
  /\ Script[40].how = "clear" /\ Script[41].how = "write" /\ Script[42].how = "write"
  /\ Script[43].how = "fill" /\ Script[44].how = "write" /\ Script[45].how = "purge"
  /\ Script[46].how = "write" /\ Script[47].how = "write" /\ Script[48].how = "write"
  /\ Script[49].how = "write" /\ Script[50].how = "write" /\ Script[51].how = "write"
  OBVIOUS

\* the table it writes,
LEMMA TableAt ==
  /\ Script[1].table = "tenants" /\ Script[2].table = "users"
  /\ Script[3].table = "uoms" /\ Script[4].table = "products"
  /\ Script[5].table = "recipes" /\ Script[6].table = "products"
  /\ Script[7].table = "recipe_lines" /\ Script[8].table = "schools"
  /\ Script[9].table = "sppg" /\ Script[10].table = "service_areas"
  /\ Script[11].table = "warehouses" /\ Script[12].table = "user_sppg_access"
  /\ Script[13].table = "" /\ Script[14].table = "beneficiaries"
  /\ Script[15].table = "meal_plans" /\ Script[16].table = "meal_plans"
  /\ Script[17].table = "production_orders" /\ Script[18].table = "delivery_orders"
  /\ Script[19].table = "delivery_routes" /\ Script[20].table = "delivery_proofs"
  /\ Script[21].table = "delivery_incidents" /\ Script[22].table = ""
  /\ Script[23].table = "vehicle_types" /\ Script[24].table = "vehicles"
  /\ Script[25].table = "drivers" /\ Script[26].table = ""
  /\ Script[27].table = "vehicle_assignments"
  /\ Script[28].table = "vehicle_maintenances"
  /\ Script[29].table = "vehicle_locations"
  /\ Script[30].table = "feedback_submissions" /\ Script[31].table = "complaints"
  /\ Script[32].table = "service_quality_scores"
  /\ Script[33].table = "inventory_transactions" /\ Script[34].table = "accounts"
  /\ Script[35].table = "accounts" /\ Script[36].table = "accounts"
  /\ Script[37].table = "" /\ Script[38].table = "asset_categories"
  /\ Script[39].table = "assets" /\ Script[40].table = ""
  /\ Script[41].table = "asset_assignments" /\ Script[42].table = "asset_depreciations"
  /\ Script[43].table = "budgets" /\ Script[44].table = "journal_entries"
  /\ Script[45].table = "" /\ Script[46].table = "funding_sources"
  /\ Script[47].table = "funding_agreements"
  /\ Script[48].table = "funding_disbursements"
  /\ Script[49].table = "funding_repayments" /\ Script[50].table = "government_claims"
  /\ Script[51].table = "claim_payments"
  OBVIOUS

\* what its rows are called,
LEMMA NameAt ==
  /\ Script[1].name = "demo" /\ Script[2].name = "demo" /\ Script[3].name = "demo"
  /\ Script[4].name = "menu" /\ Script[5].name = "demo" /\ Script[6].name = "demo"
  /\ Script[7].name = "demo" /\ Script[8].name = "demo" /\ Script[9].name = "demo"
  /\ Script[10].name = "demo" /\ Script[11].name = "demo" /\ Script[12].name = "demo"
  /\ Script[13].name = "" /\ Script[14].name = "demo" /\ Script[15].name = "first"
  /\ Script[16].name = "demo" /\ Script[17].name = "demo" /\ Script[18].name = "demo"
  /\ Script[19].name = "demo" /\ Script[20].name = "demo" /\ Script[21].name = "demo"
  /\ Script[22].name = "" /\ Script[23].name = "demo" /\ Script[24].name = "demo"
  /\ Script[25].name = "demo" /\ Script[26].name = "" /\ Script[27].name = "demo"
  /\ Script[28].name = "demo" /\ Script[29].name = "demo" /\ Script[30].name = "demo"
  /\ Script[31].name = "demo" /\ Script[32].name = "demo" /\ Script[33].name = "demo"
  /\ Script[34].name = "base" /\ Script[35].name = "demo" /\ Script[36].name = "asset"
  /\ Script[37].name = "" /\ Script[38].name = "demo" /\ Script[39].name = "demo"
  /\ Script[40].name = "" /\ Script[41].name = "demo" /\ Script[42].name = "demo"
  /\ Script[43].name = "demo" /\ Script[44].name = "demo" /\ Script[45].name = ""
  /\ Script[46].name = "demo" /\ Script[47].name = "demo" /\ Script[48].name = "demo"
  /\ Script[49].name = "demo" /\ Script[50].name = "demo" /\ Script[51].name = "demo"
  OBVIOUS

\* and how many they are.
LEMMA CountAt ==
  /\ Script[1].count = 1 /\ Script[2].count = 2 /\ Script[3].count = 1
  /\ Script[4].count = 1 /\ Script[5].count = 1 /\ Script[6].count = 1
  /\ Script[7].count = 1 /\ Script[8].count = Each /\ Script[9].count = Each
  /\ Script[10].count = Each /\ Script[11].count = Each /\ Script[12].count = Each
  /\ Script[13].count = 1 /\ Script[14].count = Each /\ Script[15].count = 1
  /\ Script[16].count = Each /\ Script[17].count = Each /\ Script[18].count = Each
  /\ Script[19].count = Each /\ Script[20].count = Each /\ Script[21].count = Each
  /\ Script[22].count = 1 /\ Script[23].count = Each /\ Script[24].count = Each
  /\ Script[25].count = Each /\ Script[26].count = 1 /\ Script[27].count = Each
  /\ Script[28].count = Each /\ Script[29].count = Each /\ Script[30].count = Each
  /\ Script[31].count = Each /\ Script[32].count = Each /\ Script[33].count = 1
  /\ Script[34].count = 1 /\ Script[35].count = Each /\ Script[36].count = Each
  /\ Script[37].count = 1 /\ Script[38].count = Each /\ Script[39].count = Each
  /\ Script[40].count = 1 /\ Script[41].count = 1 /\ Script[42].count = 1
  /\ Script[43].count = 1 /\ Script[44].count = Each /\ Script[45].count = 1
  /\ Script[46].count = Each /\ Script[47].count = Each /\ Script[48].count = Each
  /\ Script[49].count = Each /\ Script[50].count = Each /\ Script[51].count = Each
  OBVIOUS

\* The tables the deleting stages delete from.
LEMMA TablesAt ==
  /\ Script[13].tables = {"beneficiaries"}
  /\ Script[22].tables = {"vehicle_types", "vehicles", "drivers"}
  /\ Script[26].tables = {"vehicle_locations", "vehicle_assignments", "vehicle_maintenances"}
  /\ Script[37].tables = {"assets", "asset_categories"}
  /\ Script[40].tables = {"asset_assignments", "asset_depreciations"}
  /\ Script[45].tables = {"funding_sources", "funding_agreements", "funding_disbursements",
                          "funding_repayments"}
  OBVIOUS

HIDE DEF Script, Stage, FillEmpty, Keep, Overwrite, Insert, Purge, Clear, Tenant, Users,
         Unit, MenuProduct, Recipe, Ingredient, RecipeLine, Schools, Kitchens,
         ServiceAreas, Warehouses, AccessGrants, BeneficiaryPurge, Beneficiaries,
         FirstMealPlan, MealPlans, ProductionOrders, DeliveryOrders, Routes, Proofs,
         Incidents, FleetPurge, VehicleTypes, Vehicles, Drivers, FleetClear,
         VehicleAssignments, Maintenances, Locations, Feedback, Complaints,
         QualityScores, FirstStock, Accounts, FurtherAccounts, AssetAccounts,
         AssetPurge, AssetCategories, Assets, AssetClear, AssetAssignments,
         Depreciations, DemoBudget, CashJournals, FundingPurge, FundingSources,
         Agreements, Disbursements, Repayments, Claims, ClaimPayments

LEMMA Names == \A i \in 1 .. 51 : Script[i].name # "own"
  BY ZenonT(60), Positions, NameAt

LEMMA Counts == \A i \in 1 .. 51 : Script[i].count \in Nat /\ Script[i].count >= 1
  BY Positions, CountAt, EachAssumption

LEMMA Hows ==
  \A i \in 1 .. 51 :
    /\ Script[i].how \in {"fill", "write", "grant", "purge", "clear"}
    /\ Script[i].how = "fill" =>
         \/ i = 1 \/ i = 3 \/ i = 4 \/ i = 5 \/ i = 7 \/ i = 15 \/ i = 33 \/ i = 34 \/ i = 43
    /\ Script[i].how = "grant" => i = 12
    /\ Script[i].how = "purge" => i = 13 \/ i = 22 \/ i = 37 \/ i = 45
    /\ Script[i].how = "clear" => i = 26 \/ i = 40
  BY Positions, HowAt

\* Which stages write to the tables that some stage fills,
LEMMA FillersOf ==
  \A i \in 1 .. 51 :
    /\ Script[i].table = "tenants" => i = 1
    /\ Script[i].table = "uoms" => i = 3
    /\ Script[i].table = "products" => i = 4 \/ i = 6
    /\ Script[i].table = "recipes" => i = 5
    /\ Script[i].table = "recipe_lines" => i = 7
    /\ Script[i].table = "meal_plans" => i = 15 \/ i = 16
    /\ Script[i].table = "inventory_transactions" => i = 33
    /\ Script[i].table = "accounts" => i = 34 \/ i = 35 \/ i = 36
    /\ Script[i].table = "budgets" => i = 43
<1> SUFFICES ASSUME NEW i \in 1 .. 51
             PROVE  /\ Script[i].table = "tenants" => i = 1
                    /\ Script[i].table = "uoms" => i = 3
                    /\ Script[i].table = "products" => i = 4 \/ i = 6
                    /\ Script[i].table = "recipes" => i = 5
                    /\ Script[i].table = "recipe_lines" => i = 7
                    /\ Script[i].table = "meal_plans" => i = 15 \/ i = 16
                    /\ Script[i].table = "inventory_transactions" => i = 33
                    /\ Script[i].table = "accounts" => i = 34 \/ i = 35 \/ i = 36
                    /\ Script[i].table = "budgets" => i = 43
  OBVIOUS
<1>1. Script[i].table = "tenants" => i = 1
  BY ZenonT(60), Positions, TableAt
<1>2. Script[i].table = "uoms" => i = 3
  BY ZenonT(60), Positions, TableAt
<1>3. Script[i].table = "products" => i = 4 \/ i = 6
  BY ZenonT(60), Positions, TableAt
<1>4. Script[i].table = "recipes" => i = 5
  BY ZenonT(60), Positions, TableAt
<1>5. Script[i].table = "recipe_lines" => i = 7
  BY ZenonT(60), Positions, TableAt
<1>6. Script[i].table = "meal_plans" => i = 15 \/ i = 16
  BY ZenonT(60), Positions, TableAt
<1>7. Script[i].table = "inventory_transactions" => i = 33
  BY ZenonT(60), Positions, TableAt
<1>8. Script[i].table = "accounts" => i = 34 \/ i = 35 \/ i = 36
  BY ZenonT(60), Positions, TableAt
<1>9. Script[i].table = "budgets" => i = 43
  BY ZenonT(60), Positions, TableAt
<1> QED
  BY <1>1, <1>2, <1>3, <1>4, <1>5, <1>6, <1>7, <1>8, <1>9

\* and to those that some stage clears or the migrations fill.
LEMMA WritersOf ==
  \A i \in 1 .. 51 :
    /\ Script[i].table = "user_sppg_access" => i = 12
    /\ Script[i].table = "vehicle_locations" => i = 29
    /\ Script[i].table = "vehicle_assignments" => i = 27
    /\ Script[i].table = "vehicle_maintenances" => i = 28
    /\ Script[i].table = "asset_assignments" => i = 41
    /\ Script[i].table = "asset_depreciations" => i = 42
<1> SUFFICES ASSUME NEW i \in 1 .. 51
             PROVE  /\ Script[i].table = "user_sppg_access" => i = 12
                    /\ Script[i].table = "vehicle_locations" => i = 29
                    /\ Script[i].table = "vehicle_assignments" => i = 27
                    /\ Script[i].table = "vehicle_maintenances" => i = 28
                    /\ Script[i].table = "asset_assignments" => i = 41
                    /\ Script[i].table = "asset_depreciations" => i = 42
  OBVIOUS
<1>1. Script[i].table = "user_sppg_access" => i = 12
  BY ZenonT(60), Positions, TableAt
<1>2. Script[i].table = "vehicle_locations" => i = 29
  BY ZenonT(60), Positions, TableAt
<1>3. Script[i].table = "vehicle_assignments" => i = 27
  BY ZenonT(60), Positions, TableAt
<1>4. Script[i].table = "vehicle_maintenances" => i = 28
  BY ZenonT(60), Positions, TableAt
<1>5. Script[i].table = "asset_assignments" => i = 41
  BY ZenonT(60), Positions, TableAt
<1>6. Script[i].table = "asset_depreciations" => i = 42
  BY ZenonT(60), Positions, TableAt
<1> QED
  BY <1>1, <1>2, <1>3, <1>4, <1>5, <1>6

\* The tables the filling and the granting stages write.
LEMMA FilledTables ==
  /\ Script[1].table = "tenants" /\ Script[3].table = "uoms" /\ Script[4].table = "products"
  /\ Script[5].table = "recipes" /\ Script[7].table = "recipe_lines"
  /\ Script[12].table = "user_sppg_access" /\ Script[15].table = "meal_plans"
  /\ Script[33].table = "inventory_transactions" /\ Script[34].table = "accounts"
  /\ Script[43].table = "budgets"
  BY Zenon, TableAt

\* A stage that fills its table writes one row, before any other stage writes to that table,
LEMMA FillsComeFirst ==
  \A i, j \in 1 .. 51 :
    Script[i].how = "fill" =>
      Script[i].count = 1 /\ (Script[j].table = Script[i].table => i <= j)
<1> SUFFICES ASSUME NEW i \in 1 .. 51, NEW j \in 1 .. 51, Script[i].how = "fill"
             PROVE  /\ Script[i].count = 1
                    /\ Script[j].table = Script[i].table => i <= j
  OBVIOUS
<1>1. \/ i = 1 \/ i = 3 \/ i = 4 \/ i = 5 \/ i = 7 \/ i = 15 \/ i = 33 \/ i = 34 \/ i = 43
  BY Hows
<1>2. Script[i].count = 1
  BY <1>1, CountAt
<1>3. Script[j].table = Script[i].table => i <= j
  BY <1>1, FillersOf, FilledTables
<1> QED
  BY <1>2, <1>3

\* and no stage deletes from it.
LEMMA FillsStay ==
  \A i, j \in 1 .. 51 :
    Script[i].how \in {"fill", "grant"} /\ Script[j].how \in {"purge", "clear"} =>
      Script[i].table \notin Script[j].tables
<1> SUFFICES ASSUME NEW i \in 1 .. 51, NEW j \in 1 .. 51, Script[i].how \in {"fill", "grant"},
                    Script[j].how \in {"purge", "clear"}
             PROVE  Script[i].table \notin Script[j].tables
  OBVIOUS
<1> DEFINE t == Script[i].table
<1>1. t \in {"tenants", "uoms", "products", "recipes", "recipe_lines", "meal_plans",
             "inventory_transactions", "accounts", "budgets", "user_sppg_access"}
  <2>1. \/ i = 1 \/ i = 3 \/ i = 4 \/ i = 5 \/ i = 7 \/ i = 12 \/ i = 15 \/ i = 33
        \/ i = 34 \/ i = 43
    BY Hows
  <2> QED
    BY <2>1, FilledTables
<1>2. j = 13 \/ j = 22 \/ j = 26 \/ j = 37 \/ j = 40 \/ j = 45
  BY Hows
<1> HIDE DEF t
<1>3. t \notin Script[j].tables
  BY <1>1, <1>2, TablesAt
<1> QED
  BY <1>3 DEF t

\* All rows of a table go only before the stage that writes to it.
LEMMA ClearsComeFirst ==
  \A i, j \in 1 .. 51 :
    Script[j].how = "clear" /\ Script[i].table \in Script[j].tables => j < i
<1> SUFFICES ASSUME NEW i \in 1 .. 51, NEW j \in 1 .. 51, Script[j].how = "clear",
                    Script[i].table \in Script[j].tables
             PROVE  j < i
  OBVIOUS
<1>1. CASE j = 26
  BY <1>1, TablesAt, WritersOf
<1>2. CASE j = 40
  BY <1>2, TablesAt, WritersOf
<1> QED
  BY <1>1, <1>2, Hows

\* No two of these stages are the same.
LEMMA StagesByName ==
  \A i \in 1 .. 51 :
    /\ Script[i] = AccessGrants <=> i = 12
    /\ Script[i] = Accounts <=> i = 34
    /\ Script[i] = DemoBudget <=> i = 43
    /\ Script[i] = CashJournals <=> i = 44
<1>1. /\ Script[12] = AccessGrants /\ Script[34] = Accounts
      /\ Script[43] = DemoBudget /\ Script[44] = CashJournals
  BY DEF Script
<1>2. ASSUME NEW i \in 1 .. 51
      PROVE  /\ Script[i] = Script[12] => i = 12
             /\ Script[i] = Script[43] => i = 43
  <2>1. Script[i] = Script[12] => Script[i].table = "user_sppg_access"
    BY FilledTables
  <2>2. Script[i] = Script[43] => Script[i].table = "budgets"
    BY FilledTables
  <2> QED
    BY <2>1, <2>2, FillersOf, WritersOf
<1>3. ASSUME NEW i \in 1 .. 51, Script[i] = Script[34]
      PROVE  i = 34
  <2>1. Script[34].how = "fill"
    BY Zenon, HowAt
  <2>2. Script[i].table = "accounts" /\ Script[i].how = "fill"
    BY <1>3, <2>1, FilledTables
  <2> QED
    BY <2>2, FillersOf, Hows
<1>4. ASSUME NEW i \in 1 .. 51, Script[i] = Script[44]
      PROVE  i = 44
  <2>1. Script[44].table = "journal_entries"
    BY Zenon, TableAt
  <2>2. Script[i].table = "journal_entries"
    BY <1>4, <2>1
  <2> QED
    BY ZenonT(60), <2>2, Positions, TableAt
<1> QED
  BY <1>1, <1>2, <1>3, <1>4

\* The stages of the servings and the ones of the plans they are made from.
LEMMA ServingsAt ==
  /\ Script[15] = FirstMealPlan /\ Script[16] = MealPlans
  /\ \A i \in 1 .. 51 :
       /\ Script[i] = ProductionOrders <=> i = 17
       /\ Script[i] = DeliveryOrders <=> i = 18
       /\ Script[i] \in {Routes, Proofs, Incidents} <=> i \in 19 .. 21
<1>1. /\ Script[15] = FirstMealPlan /\ Script[16] = MealPlans
      /\ Script[17] = ProductionOrders /\ Script[18] = DeliveryOrders
      /\ Script[19] = Routes /\ Script[20] = Proofs /\ Script[21] = Incidents
  BY DEF Script
<1>2. /\ Script[17].table = "production_orders" /\ Script[18].table = "delivery_orders"
      /\ Script[19].table = "delivery_routes" /\ Script[20].table = "delivery_proofs"
      /\ Script[21].table = "delivery_incidents"
  BY Zenon, TableAt
<1>3. ASSUME NEW i \in 1 .. 51
      PROVE  /\ Script[i].table = "production_orders" => i = 17
             /\ Script[i].table = "delivery_orders" => i = 18
             /\ Script[i].table = "delivery_routes" => i = 19
             /\ Script[i].table = "delivery_proofs" => i = 20
             /\ Script[i].table = "delivery_incidents" => i = 21
  <2>1. Script[i].table = "production_orders" => i = 17
    BY ZenonT(60), Positions, TableAt
  <2>2. Script[i].table = "delivery_orders" => i = 18
    BY ZenonT(60), Positions, TableAt
  <2>3. Script[i].table = "delivery_routes" => i = 19
    BY ZenonT(60), Positions, TableAt
  <2>4. Script[i].table = "delivery_proofs" => i = 20
    BY ZenonT(60), Positions, TableAt
  <2>5. Script[i].table = "delivery_incidents" => i = 21
    BY ZenonT(60), Positions, TableAt
  <2> QED
    BY <2>1, <2>2, <2>3, <2>4, <2>5
<1>4. ASSUME NEW i \in 1 .. 51
      PROVE  /\ Script[i] = Script[17] <=> i = 17
             /\ Script[i] = Script[18] <=> i = 18
             /\ Script[i] = Script[19] <=> i = 19
             /\ Script[i] = Script[20] <=> i = 20
             /\ Script[i] = Script[21] <=> i = 21
  BY <1>2, <1>3
<1>5. ASSUME NEW i \in 1 .. 51
      PROVE  Script[i] \in {Routes, Proofs, Incidents} <=> i = 19 \/ i = 20 \/ i = 21
  BY <1>1, <1>4
<1> QED
  BY <1>1, <1>4, <1>5

LEMMA ServingsAre == \A i \in 1 .. 51 : Script[i] \in Servings <=> i \in 17 .. 21
<1> SUFFICES ASSUME NEW i \in 1 .. 51
             PROVE  Script[i] \in Servings <=> i \in 17 .. 21
  OBVIOUS
<1>1. Script[i] \in Servings <=>
        \/ Script[i] = ProductionOrders \/ Script[i] = DeliveryOrders
        \/ Script[i] \in {Routes, Proofs, Incidents}
  BY DEF Servings
<1> QED
  BY <1>1, ServingsAt

\* The rows a row is made from.
LEMMA ParentsAt ==
  \A i \in 1 .. 51, k \in Nat :
    /\ i = 17 => Parents(Script[i], k) =
                   {IF k = 1 THEN Row(FirstMealPlan, 1) ELSE Row(MealPlans, k)}
    /\ i = 18 => Parents(Script[i], k) = {Row(Script[17], k)}
    /\ i \in 19 .. 21 => Parents(Script[i], k) = {Row(Script[18], k)}
    /\ i \notin 17 .. 21 => Parents(Script[i], k) = {}
<1> SUFFICES ASSUME NEW i \in 1 .. 51, NEW k \in Nat
             PROVE  /\ i = 17 => Parents(Script[i], k) =
                            {IF k = 1 THEN Row(FirstMealPlan, 1) ELSE Row(MealPlans, k)}
                    /\ i = 18 => Parents(Script[i], k) = {Row(Script[17], k)}
                    /\ i \in 19 .. 21 => Parents(Script[i], k) = {Row(Script[18], k)}
                    /\ i \notin 17 .. 21 => Parents(Script[i], k) = {}
  OBVIOUS
<1>1. /\ Script[i] = ProductionOrders <=> i = 17
      /\ Script[i] = DeliveryOrders <=> i = 18
      /\ Script[i] \in {Routes, Proofs, Incidents} <=> i \in 19 .. 21
      /\ Script[17] = ProductionOrders /\ Script[18] = DeliveryOrders
  BY ServingsAt
<1>2. CASE i = 17
  BY <1>1, <1>2 DEF Parents
<1>3. CASE i = 18
  BY <1>1, <1>3 DEF Parents
<1>4. CASE i \in 19 .. 21
  BY <1>1, <1>4 DEF Parents
<1>5. CASE i \notin 17 .. 21
  BY <1>1, <1>5 DEF Parents
<1> QED
  BY <1>2, <1>3, <1>4, <1>5

\* No other row is the pack's first meal plan.
LEMMA FirstPlanIsFirst ==
  ASSUME NEW i \in 1 .. 51, NEW k, Row(Script[i], k) = Row(FirstMealPlan, 1)
  PROVE  i = 15
<1>1. Script[i].name = "first"
  BY DEF Row, FirstMealPlan, FillEmpty, Stage
<1> QED
  BY ZenonT(60), <1>1, Positions, NameAt

LEMMA PositionsByName == PositionOf(Accounts) = 34 /\ PositionOf(DemoBudget) = 43
<1>1. \A i \in 1 .. Len(Script) :
         (Script[i] = Accounts <=> i = 34) /\ (Script[i] = DemoBudget <=> i = 43)
  BY ScriptLength, StagesByName
<1>2. 34 \in 1 .. Len(Script) /\ 43 \in 1 .. Len(Script)
  BY ScriptLength
<1> QED
  BY <1>1, <1>2 DEF PositionOf

-----------------------------------------------------------------------------
(***************************************************************************)
(* The schema.                                                             *)
(***************************************************************************)
\* g is what the scripts make of S, revision by revision.
Climbs(g, S, from, to) ==
  g = [r \in from .. to |-> IF r = from THEN S ELSE Run(g[r - 1], Chain[r].up)]

Descends(g, S, from, to) ==
  g = [r \in to .. from |-> IF r = from THEN S ELSE Run(g[r + 1], Chain[r + 1].down)]

LEMMA LatestIsNat == Latest \in Nat
  BY DEF Latest, Chain

\* Upgraded computes what climbs: two climbs first differ nowhere.
LEMMA ClimbIsUnique ==
  ASSUME NEW S, NEW from \in Nat, NEW to \in Nat, from <= to, NEW g, Climbs(g, S, from, to)
  PROVE  Upgraded(S, from, to) = g[to]
<1> DEFINE a == CHOOSE f : Climbs(f, S, from, to)
<1>1. Upgraded(S, from, to) = a[to]
  BY DEF Upgraded, Climbs
<1>2. Climbs(a, S, from, to)
  OBVIOUS
<1> DEFINE N == {r \in from .. to : a[r] # g[r]}
<1> HIDE DEF a
<1> SUFFICES ASSUME N # {}
             PROVE  FALSE
  BY <1>1
<1>3. PICK n \in N : \A m \in N : n <= m
  <2>1. N \in SUBSET Nat
    OBVIOUS
  <2> HIDE DEF N
  <2> QED
    BY <2>1, SmallestNumber
<1>4. a[n] = IF n = from THEN S ELSE Run(a[n - 1], Chain[n].up)
  BY <1>2 DEF Climbs
<1>5. g[n] = IF n = from THEN S ELSE Run(g[n - 1], Chain[n].up)
  BY DEF Climbs
<1>6. n # from => a[n - 1] = g[n - 1]
  BY <1>3
<1> QED
  BY <1>4, <1>5, <1>6

\* There is a climb: a shortest one that could not be taken could.
LEMMA SomethingClimbs ==
  ASSUME NEW S, NEW n \in Nat
  PROVE  \E g : Climbs(g, S, 0, n)
<1> DEFINE N == {m \in Nat : ~\E g : Climbs(g, S, 0, m)}
<1> SUFFICES ASSUME N # {}
             PROVE  FALSE
  OBVIOUS
<1>1. PICK m \in N : \A k \in N : m <= k
  <2>1. N \in SUBSET Nat
    OBVIOUS
  <2> HIDE DEF N
  <2> QED
    BY <2>1, SmallestNumber
<1>2. CASE m = 0
  <2> DEFINE g == [r \in 0 .. 0 |-> S]
  <2>1. Climbs(g, S, 0, 0)
    BY DEF Climbs
  <2> QED
    BY <1>1, <1>2, <2>1
<1>3. CASE m # 0
  <2>1. m - 1 \in Nat /\ m - 1 \notin N
    BY <1>1, <1>3
  <2>2. PICK g : Climbs(g, S, 0, m - 1)
    BY <2>1
  <2> DEFINE h == [r \in 0 .. m |-> IF r = m THEN Run(g[m - 1], Chain[m].up) ELSE g[r]]
  <2>3. \A r \in 0 .. m - 1 : g[r] = IF r = 0 THEN S ELSE Run(g[r - 1], Chain[r].up)
    BY <2>2 DEF Climbs
  <2>4. \A r \in 0 .. m : h[r] = IF r = 0 THEN S ELSE Run(h[r - 1], Chain[r].up)
    <3> SUFFICES ASSUME NEW r \in 0 .. m
                 PROVE  h[r] = IF r = 0 THEN S ELSE Run(h[r - 1], Chain[r].up)
      OBVIOUS
    <3>1. CASE r = m
      BY <1>3, <3>1
    <3>2. CASE r # m
      <4>1. r \in 0 .. m - 1 /\ h[r] = g[r]
        BY <3>2
      <4>2. r # 0 => h[r - 1] = g[r - 1]
        BY <3>2
      <4> QED
        BY <2>3, <4>1, <4>2
    <3> QED
      BY <3>1, <3>2
  <2>5. h = [r \in 0 .. m |-> h[r]]
    OBVIOUS
  <2> HIDE DEF h
  <2>6. Climbs(h, S, 0, m)
    BY <2>4, <2>5 DEF Climbs
  <2> QED
    BY <1>1, <2>6
<1> QED
  BY <1>2, <1>3

\* One revision of the design is made of the one before.
LEMMA DesignRecurs ==
  ASSUME NEW r \in 1 .. Latest
  PROVE  Designed[r] = Run(Designed[r - 1], Chain[r].up)
<1>1. r \in Nat /\ r - 1 \in Nat /\ r \in 0 .. Latest /\ r - 1 \in 0 .. Latest
  BY LatestIsNat
<1>2. PICK g : Climbs(g, {}, 0, r)
  BY <1>1, SomethingClimbs
<1> DEFINE h == [k \in 0 .. r - 1 |-> g[k]]
<1>3. \A k \in 0 .. r : g[k] = IF k = 0 THEN {} ELSE Run(g[k - 1], Chain[k].up)
  BY <1>2 DEF Climbs
<1>4. \A k \in 0 .. r - 1 : h[k] = IF k = 0 THEN {} ELSE Run(h[k - 1], Chain[k].up)
  <2> SUFFICES ASSUME NEW k \in 0 .. r - 1
               PROVE  h[k] = IF k = 0 THEN {} ELSE Run(h[k - 1], Chain[k].up)
    OBVIOUS
  <2>1. k \in 0 .. r /\ h[k] = g[k] /\ (k # 0 => h[k - 1] = g[k - 1])
    BY <1>1
  <2> QED
    BY <1>3, <2>1
<1>5. h = [k \in 0 .. r - 1 |-> h[k]] /\ h[r - 1] = g[r - 1]
  BY <1>1
<1> HIDE DEF h
<1>6. Climbs(h, {}, 0, r - 1)
  BY <1>4, <1>5 DEF Climbs
<1>7. Upgraded({}, 0, r) = g[r]
  BY <1>1, <1>2, ClimbIsUnique
<1>8. Upgraded({}, 0, r - 1) = h[r - 1]
  BY <1>1, <1>6, ClimbIsUnique
<1>9. g[r] = Run(g[r - 1], Chain[r].up)
  BY <1>1, <1>3
<1> QED
  BY <1>1, <1>5, <1>7, <1>8, <1>9 DEF Designed

LEMMA DesignStarts == Designed[0] = {}
<1>1. PICK g : Climbs(g, {}, 0, 0)
  BY SomethingClimbs
<1>2. g[0] = {}
  BY <1>1 DEF Climbs
<1>3. Upgraded({}, 0, 0) = g[0]
  BY <1>1, ClimbIsUnique
<1> QED
  BY <1>2, <1>3, LatestIsNat DEF Designed

\* The upgrades arrive at what the upgrades alone make of an empty database,
LEMMA UpgradeArrives ==
  ASSUME NEW from \in 0 .. Latest, NEW to \in 1 .. Latest, from < to
  PROVE  Upgraded(Designed[from], from, to) = Designed[to]
<1> DEFINE g == [r \in from .. to |-> Designed[r]]
<1>1. from \in Nat /\ to \in Nat /\ from <= to
  BY LatestIsNat
<1>2. \A r \in from .. to : g[r] = IF r = from THEN Designed[from] ELSE Run(g[r - 1], Chain[r].up)
  <2> SUFFICES ASSUME NEW r \in from .. to, r # from
               PROVE  g[r] = Run(g[r - 1], Chain[r].up)
    BY <1>1
  <2>1. r \in 1 .. Latest /\ r - 1 \in from .. to
    BY <1>1, LatestIsNat
  <2> QED
    BY <2>1, DesignRecurs
<1>3. g = [r \in from .. to |-> g[r]] /\ g[to] = Designed[to]
  BY <1>1
<1> HIDE DEF g
<1>4. Climbs(g, Designed[from], from, to)
  BY <1>2, <1>3 DEF Climbs
<1> QED
  BY <1>1, <1>3, <1>4, ClimbIsUnique

\* Likewise downwards.
LEMMA DescentIsUnique ==
  ASSUME NEW S, NEW from \in Nat, NEW to \in Nat, to <= from, NEW g, Descends(g, S, from, to)
  PROVE  Downgraded(S, from, to) = g[to]
<1> DEFINE a == CHOOSE f : Descends(f, S, from, to)
<1>1. Downgraded(S, from, to) = a[to]
  BY DEF Downgraded, Descends
<1>2. Descends(a, S, from, to)
  OBVIOUS
<1> DEFINE N == {k \in 0 .. from - to : a[from - k] # g[from - k]}
<1> HIDE DEF a
<1> SUFFICES ASSUME N # {}
             PROVE  FALSE
  <2>1. from - (from - to) = to /\ from - to \in 0 .. from - to
    OBVIOUS
  <2> QED
    BY <1>1, <2>1
<1>3. PICK n \in N : \A m \in N : n <= m
  <2>1. N \in SUBSET Nat
    OBVIOUS
  <2> HIDE DEF N
  <2> QED
    BY <2>1, SmallestNumber
<1> DEFINE r == from - n
<1>4. r \in to .. from /\ a[r] # g[r]
  BY <1>3
<1>5. r # from => a[r + 1] = g[r + 1]
  <2> SUFFICES ASSUME r # from
               PROVE  a[r + 1] = g[r + 1]
    OBVIOUS
  <2>1. n - 1 \in 0 .. from - to /\ n - 1 \notin N /\ from - (n - 1) = r + 1
    BY <1>3
  <2> QED
    BY <2>1
<1> HIDE DEF r
<1>6. a[r] = IF r = from THEN S ELSE Run(a[r + 1], Chain[r + 1].down)
  BY <1>2, <1>4 DEF Descends
<1>7. g[r] = IF r = from THEN S ELSE Run(g[r + 1], Chain[r + 1].down)
  BY <1>4 DEF Descends
<1> QED
  BY <1>4, <1>5, <1>6, <1>7

\* and so do the downgrades.
LEMMA DowngradeArrives ==
  ASSUME NEW from \in 0 .. Latest, NEW to \in 0 .. Latest, to < from
  PROVE  Downgraded(Designed[from], from, to) = Designed[to]
<1> DEFINE g == [r \in to .. from |-> Designed[r]]
<1>1. from \in Nat /\ to \in Nat /\ to <= from
  BY LatestIsNat
<1>2. \A r \in to .. from :
         g[r] = IF r = from THEN Designed[from] ELSE Run(g[r + 1], Chain[r + 1].down)
  <2> SUFFICES ASSUME NEW r \in to .. from, r # from
               PROVE  g[r] = Run(g[r + 1], Chain[r + 1].down)
    BY <1>1
  <2>1. r + 1 \in 1 .. Latest /\ r + 1 \in to .. from /\ r = (r + 1) - 1
    BY <1>1, LatestIsNat
  <2>2. Run(Designed[r + 1], Chain[r + 1].down) = Designed[(r + 1) - 1]
    BY <2>1, ChainIsReversible
  <2> QED
    BY <2>1, <2>2
<1>3. g = [r \in to .. from |-> g[r]] /\ g[to] = Designed[to]
  BY <1>1
<1> HIDE DEF g
<1>4. Descends(g, Designed[from], from, to)
  BY <1>2, <1>3 DEF Descends
<1> QED
  BY <1>1, <1>3, <1>4, DescentIsUnique

LEMMA AccessesSinceIsNat == AccessesSince \in 1 .. Latest
<1>1. Latest = 40 /\ Chain[17] = AddUserSppgAccess
  BY DEF Latest, Chain
<1> QED
  BY <1>1 DEF AccessesSince

LEMMA AccessGrantsGrant == Script[12].how = "grant"
  BY Zenon, HowAt

-----------------------------------------------------------------------------
(***************************************************************************)
(* The invariants.                                                         *)
(***************************************************************************)
\* The schema is the one the chain gives the revision.  The script runs on the latest
\* revision and alone, and requests are served on the latest revision.
RevisionInv ==
  /\ revision \in 0 .. Latest
  /\ schema = Designed[revision]
  /\ stage # 0 => revision = Latest /\ Idle
  /\ ~Idle => revision = Latest

\* The serving of the first meal plan, where the pack's is not there.
Missing(s, k) == s \in Servings /\ k = 1 /\ Row(FirstMealPlan, 1) \notin rows

Written(s, k) == Row(s, k) \in rows \/ Missing(s, k)

\* What a finished run must leave behind of one stage.
Complete(s) ==
  \/ s.how \in {"purge", "clear"}
  \/ \A k \in 1 .. s.count : Written(s, k)
  \/ s.how = "fill" /\ Own(s.table) \in rows

Vacant(t) == RowsIn({t}) = {}

RunTyped ==
  /\ stage \in 0 .. 51
  /\ stage # 0 => outcome = "running" /\ item \in 1 .. Current.count

\* The stages a run has passed are complete, and of the one it is in the rows before item.
CompleteSoFar ==
  stage # 0 =>
    /\ \A i \in 1 .. stage - 1 : Complete(Script[i])
    /\ \A k \in 1 .. item - 1 : Written(Current, k)

\* A table to be filled when empty has its stage's row or the operators' if it has any.
FilledByItsStage ==
  \A i \in 1 .. 51 :
    Script[i].how = "fill" /\ ~Vacant(Script[i].table) => Complete(Script[i])

FinishedComplete == outcome = "finished" => \A i \in 1 .. 51 : Complete(Script[i])

PackInv ==
  /\ RunTyped
  /\ CompleteSoFar
  /\ FilledByItsStage
  /\ FinishedComplete
  /\ FailureNeedsOwnRows
-----------------------------------------------------------------------------
LEMMA RowsOfTables ==
  /\ \A s, k : Row(s, k).table = s.table /\ Row(s, k).name = s.name
  /\ \A t : Own(t).table = t /\ Own(t).name = "own"
  BY DEF Row, Own

LEMMA AccessRows == \A k : Access(k).table = "user_sppg_access"
  BY RowsOfTables DEF Access, AccessGrants, Stage

LEMMA FillsAreNoAccesses ==
  \A i \in 1 .. 51 : Script[i].how = "fill" => Script[i].table # "user_sppg_access"
  BY Hows, WritersOf

\* What the operators add.
LEMMA OwnRowsAre ==
  \A r \in OwnRows :
    /\ r.name \in {"own", "lasting"}
    /\ r = Own(r.table) \/ r.table \in {"vehicles", "assets"}
  BY DEF OwnRows, Own, Lasting

LEMMA FillsAreNoOwn ==
  \A i \in 1 .. 51 : Script[i].how = "fill" => Script[i].table \notin {"vehicles", "assets"}
<1> SUFFICES ASSUME NEW i \in 1 .. 51, Script[i].how = "fill"
             PROVE  Script[i].table \notin {"vehicles", "assets"}
  OBVIOUS
<1>1. \/ i = 1 \/ i = 3 \/ i = 4 \/ i = 5 \/ i = 7 \/ i = 15 \/ i = 33 \/ i = 34 \/ i = 43
  BY Hows
<1> QED
  BY <1>1, FilledTables

LEMMA FillsAreNoServings ==
  \A i \in 1 .. 51 : Script[i].how = "fill" => Script[i] \notin Servings
<1> SUFFICES ASSUME NEW i \in 1 .. 51, Script[i].how = "fill"
             PROVE  Script[i] \notin Servings
  OBVIOUS
<1>1. i \notin 17 .. 21
  BY Hows
<1> QED
  BY <1>1, ServingsAre

\* A complete stage stays so while rows are added, a serving unless the first plan is;
\* and while its table is left alone.
LEMMA MoreIsComplete ==
  ASSUME NEW s, rows \subseteq rows', Complete(s),
         s \in Servings /\ Row(FirstMealPlan, 1) \in rows' => Row(FirstMealPlan, 1) \in rows
  PROVE  Complete(s)'
<1>1. \A k : Written(s, k) => Written(s, k)'
  BY DEF Written, Missing
<1> QED
  BY <1>1 DEF Complete

LEMMA SameIsComplete ==
  ASSUME NEW s, RowsIn({s.table})' = RowsIn({s.table}), Complete(s), s \notin Servings
  PROVE  Complete(s)'
<1>1. \A k : Written(s, k) => Written(s, k)'
  BY RowsOfTables DEF RowsIn, Written, Missing
<1>2. Own(s.table) \in rows => Own(s.table) \in rows'
  BY RowsOfTables DEF RowsIn
<1> QED
  BY <1>1, <1>2 DEF Complete

\* While no run is going on, rows come or whole tables go.
LEMMA PackBetweenRuns ==
  ASSUME PackInv, stage = 0, stage' = 0,
         \/ /\ outcome' = outcome /\ rows \subseteq rows'
            /\ Row(FirstMealPlan, 1) \in rows' => Row(FirstMealPlan, 1) \in rows
         \/ outcome' = "none",
         \A i \in 1 .. 51 : Script[i].how = "fill" =>
           \/ RowsIn({Script[i].table})' = RowsIn({Script[i].table})
           \/ Vacant(Script[i].table)'
           \/ Own(Script[i].table) \in rows'
  PROVE  PackInv'
<1>1. RunTyped' /\ CompleteSoFar'
  BY DEF RunTyped, CompleteSoFar
<1>2. FilledByItsStage'
  <2> SUFFICES ASSUME NEW i \in 1 .. 51, Script[i].how = "fill", ~Vacant(Script[i].table)'
               PROVE  Complete(Script[i])'
    BY DEF FilledByItsStage
  <2>1. CASE RowsIn({Script[i].table})' = RowsIn({Script[i].table})
    <3>1. ~Vacant(Script[i].table)
      BY <2>1 DEF Vacant
    <3>2. Complete(Script[i])
      BY <3>1 DEF PackInv, FilledByItsStage
    <3> QED
      BY <2>1, <3>2, SameIsComplete, FillsAreNoServings
  <2>2. CASE Own(Script[i].table) \in rows'
    BY <2>2 DEF Complete
  <2> QED
    BY <2>1, <2>2
<1>3. FinishedComplete' /\ FailureNeedsOwnRows'
  <2>1. CASE outcome' = "none"
    BY <2>1 DEF FinishedComplete, FailureNeedsOwnRows
  <2>2. CASE /\ outcome' = outcome /\ rows \subseteq rows'
             /\ Row(FirstMealPlan, 1) \in rows' => Row(FirstMealPlan, 1) \in rows
    <3>1. FinishedComplete'
      BY <2>2, MoreIsComplete DEF PackInv, FinishedComplete
    <3>2. FailureNeedsOwnRows'
      BY <2>2 DEF PackInv, FailureNeedsOwnRows
    <3> QED
      BY <3>1, <3>2
  <2> QED
    BY <2>1, <2>2
<1> QED
  BY <1>1, <1>2, <1>3 DEF PackInv

LEMMA PackUpgrade ==
  ASSUME PackInv, NEW to \in 1 .. Latest, Upgrade(to)
  PROVE  PackInv'
<1>1. stage = 0 /\ stage' = 0 /\ outcome' = outcome /\ rows' = rows \cup Refilled(revision, to)
  BY DEF Upgrade
<1>2. \A r \in Refilled(revision, to) : r.table = "user_sppg_access"
  BY AccessRows DEF Refilled
<1>3. \A i \in 1 .. 51 : Script[i].how = "fill" =>
         RowsIn({Script[i].table})' = RowsIn({Script[i].table})
  BY <1>1, <1>2, FillsAreNoAccesses DEF RowsIn
<1>4. Row(FirstMealPlan, 1) \in rows' => Row(FirstMealPlan, 1) \in rows
  <2>1. Row(FirstMealPlan, 1).table = "meal_plans"
    BY DEF Row, FirstMealPlan, FillEmpty, Stage
  <2> QED
    BY <1>1, <1>2, <2>1
<1> QED
  BY <1>1, <1>3, <1>4, PackBetweenRuns

LEMMA PackDowngrade ==
  ASSUME PackInv, NEW to \in 0 .. Latest - 1, Downgrade(to)
  PROVE  PackInv'
<1> DEFINE T == TablesOf(schema')
<1>1. stage = 0 /\ stage' = 0 /\ outcome' = "none" /\ rows' = {r \in rows : r.table \in T}
  BY DEF Downgrade, Kept
<1>2. ASSUME NEW i \in 1 .. 51
      PROVE  \/ RowsIn({Script[i].table})' = RowsIn({Script[i].table})
             \/ Vacant(Script[i].table)'
  <2> HIDE DEF T
  <2>1. CASE Script[i].table \in T
    BY <1>1, <2>1 DEF RowsIn
  <2>2. CASE Script[i].table \notin T
    BY <1>1, <2>2 DEF RowsIn, Vacant
  <2> QED
    BY <2>1, <2>2
<1> QED
  BY <1>1, <1>2, PackBetweenRuns

\* Users and administrators touch nothing but the accesses.
LEMMA AccessesAlone ==
  ASSUME Administer
  PROVE  \A r : r.table # "user_sppg_access" => (r \in rows' <=> r \in rows)
<1>1. CASE rows' = rows
  BY <1>1
<1>2. ASSUME NEW q \in Request, CommitAccess(q)
      PROVE  \A r : r.table # "user_sppg_access" => (r \in rows' <=> r \in rows)
  BY <1>2, AccessRows DEF CommitAccess
<1> QED
  BY <1>1, <1>2 DEF Administer, BeginAccess, PursueAccess, BeginSwitch, BeginUpdate,
     WriteAccesses, LoseRequest

LEMMA PackAdminister ==
  ASSUME PackInv, Administer
  PROVE  PackInv'
<1>1. stage = 0 /\ stage' = 0 /\ outcome' = "none"
  BY DEF Administer
<1>2. \A i \in 1 .. 51 : Script[i].how = "fill" =>
         RowsIn({Script[i].table})' = RowsIn({Script[i].table})
  BY AccessesAlone, FillsAreNoAccesses DEF RowsIn
<1> QED
  BY <1>1, <1>2, PackBetweenRuns

LEMMA PackDisturb ==
  ASSUME PackInv, Disturb
  PROVE  PackInv'
<1>1. CASE Kill
  <2>1. stage' = 0 /\ outcome' = "killed" /\ rows' = rows
    BY <1>1 DEF Kill
  <2>2. RunTyped' /\ CompleteSoFar' /\ FinishedComplete' /\ FailureNeedsOwnRows'
    BY <2>1 DEF RunTyped, CompleteSoFar, FinishedComplete, FailureNeedsOwnRows
  <2>3. FilledByItsStage'
    BY <2>1 DEF PackInv, FilledByItsStage, Vacant, RowsIn, Complete, Written, Missing
  <2> QED
    BY <2>2, <2>3 DEF PackInv
<1>2. ASSUME NEW r \in OwnRows, AddOwnRow(r)
      PROVE  PackInv'
  <2>1. stage = 0 /\ stage' = 0 /\ outcome' = "none" /\ rows' = rows \cup {r}
    BY <1>2 DEF AddOwnRow
  <2>2. ASSUME NEW i \in 1 .. 51, Script[i].how = "fill"
        PROVE  \/ RowsIn({Script[i].table})' = RowsIn({Script[i].table})
               \/ Own(Script[i].table) \in rows'
    <3>1. r.table = Script[i].table => r = Own(Script[i].table)
      BY <2>2, OwnRowsAre, FillsAreNoOwn
    <3> QED
      BY <2>1, <3>1 DEF RowsIn
  <2> QED
    BY <2>1, <2>2, PackBetweenRuns
<1> QED
  BY <1>1, <1>2 DEF Disturb

LEMMA PackBegins ==
  ASSUME PackInv, BeginRun
  PROVE  PackInv'
<1>1. stage' = 1 /\ item' = 1 /\ outcome' = "running" /\ rows' = rows
  BY DEF BeginRun
<1>2. RunTyped'
  BY <1>1, Counts DEF RunTyped, Current
<1>3. CompleteSoFar' /\ FinishedComplete' /\ FailureNeedsOwnRows'
  BY <1>1 DEF CompleteSoFar, FinishedComplete, FailureNeedsOwnRows
<1>4. FilledByItsStage'
  BY <1>1 DEF PackInv, FilledByItsStage, Vacant, RowsIn, Complete, Written, Missing
<1> QED
  BY <1>2, <1>3, <1>4 DEF PackInv

\* The run fails where the accounts' stage left the operators' accounts alone, or at a row
\* which one of theirs that stays refers to.
LEMMA PackFails ==
  ASSUME PackInv, RaiseError
  PROVE  PackInv'
<1>1. stage # 0 /\ stage' = 0 /\ outcome' = "failed" /\ rows' = rows /\ Raises
  BY DEF RaiseError
<1>2. RunTyped' /\ CompleteSoFar' /\ FinishedComplete'
  BY <1>1 DEF RunTyped, CompleteSoFar, FinishedComplete
<1>3. FilledByItsStage'
  BY <1>1 DEF PackInv, FilledByItsStage, Vacant, RowsIn, Complete, Written, Missing
<1>4. FailureNeedsOwnRows'
  <2>1. CASE \E r \in rows \ Deleted : Referred(r) \cap Deleted # {}
    <3>1. Deleted \subseteq rows
      BY DEF Deleted, RowsIn
    <3>2. \E r \in rows : Referred(r) \cap rows # {}
      BY <2>1, <3>1
    <3> QED
      BY <1>1, <3>2 DEF FailureNeedsOwnRows
  <2>2. CASE Current = CashJournals /\ Row(Accounts, 1) \notin rows
    <3>1. stage = 44
      BY <1>1, <2>2, StagesByName DEF PackInv, RunTyped, Current
    <3>2. Complete(Accounts)
      BY <3>1, StagesByName DEF PackInv, CompleteSoFar
    <3>3. Accounts.how = "fill" /\ Accounts.count = 1 /\ Accounts.table = "accounts"
      BY DEF Accounts, FillEmpty, Stage
    <3>4. Own("accounts") \in rows
      <4>1. 1 \in 1 .. 1 /\ Accounts \notin Servings
        BY StagesByName, ServingsAre
      <4> QED
        BY <2>2, <3>2, <3>3, <4>1 DEF Complete, Written, Missing
    <3> QED
      BY <1>1, <3>4 DEF FailureNeedsOwnRows
  <2> QED
    BY <1>1, <2>1, <2>2 DEF Raises
<1> QED
  BY <1>2, <1>3, <1>4 DEF PackInv

\* A run leaves a stage when it is complete.
LEMMA PackNextStage ==
  ASSUME PackInv, stage # 0, NextStage, FilledByItsStage',
         \A i \in 1 .. stage : Complete(Script[i])'
  PROVE  PackInv'
<1>1. stage \in 1 .. 51 /\ outcome = "running"
  BY DEF PackInv, RunTyped
<1>2. CASE stage = 51
  <2>1. stage' = 0 /\ outcome' = "finished"
    BY <1>2, ScriptLength DEF NextStage
  <2>2. FinishedComplete'
    BY <1>2 DEF FinishedComplete
  <2> QED
    BY <2>1, <2>2 DEF PackInv, RunTyped, CompleteSoFar, FailureNeedsOwnRows
<1>3. CASE stage # 51
  <2>1. stage' = stage + 1 /\ item' = 1 /\ outcome' = "running"
    BY <1>1, <1>3, ScriptLength DEF NextStage
  <2>2. RunTyped'
    <3>1. stage + 1 \in 1 .. 51
      BY <1>1, <1>3
    <3> QED
      BY <2>1, <3>1, Counts DEF RunTyped, Current
  <2>3. CompleteSoFar'
    <3>1. \A i \in 1 .. stage' - 1 : Complete(Script[i])'
      BY <1>1, <2>1
    <3>2. 1 .. item' - 1 = {}
      BY <2>1
    <3> QED
      BY <3>1, <3>2 DEF CompleteSoFar
  <2>4. FinishedComplete' /\ FailureNeedsOwnRows'
    BY <2>1 DEF FinishedComplete, FailureNeedsOwnRows
  <2> QED
    BY <2>2, <2>3, <2>4 DEF PackInv
<1> QED
  BY <1>2, <1>3

\* Nothing that only adds rows of a stage which the run has reached, or rows of the
\* accesses, spoils a table that is filled when empty.
LEMMA FilledWhileRunning ==
  ASSUME PackInv, NEW n \in 1 .. 51, stage = n, rows \subseteq rows',
         \A r \in rows' \ rows : r.table = Script[n].table,
         Script[n].how = "fill" => Complete(Script[n])'
  PROVE  FilledByItsStage'
<1> SUFFICES ASSUME NEW i \in 1 .. 51, Script[i].how = "fill", ~Vacant(Script[i].table)'
             PROVE  Complete(Script[i])'
  BY DEF FilledByItsStage
<1>1. CASE Script[i].table # Script[n].table
  <2>1. RowsIn({Script[i].table})' = RowsIn({Script[i].table})
    BY <1>1 DEF RowsIn
  <2>2. Complete(Script[i])
    BY <2>1 DEF PackInv, FilledByItsStage, Vacant
  <2> QED
    BY <2>2, MoreIsComplete, FillsAreNoServings
<1>2. CASE Script[i].table = Script[n].table /\ i = n
  BY <1>2
<1>3. CASE Script[i].table = Script[n].table /\ i # n
  <2>1. i <= n
    BY <1>3, FillsComeFirst
  <2>2. i \in 1 .. n - 1
    BY <1>3, <2>1
  <2>3. Complete(Script[i])
    BY <2>2 DEF PackInv, CompleteSoFar
  <2> QED
    BY <2>3, MoreIsComplete, FillsAreNoServings
<1> QED
  BY <1>1, <1>2, <1>3

LEMMA PackLeavesFilled ==
  ASSUME PackInv, LeaveFilled
  PROVE  PackInv'
<1>1. stage # 0 /\ NextStage /\ rows' = rows
  BY DEF LeaveFilled
<1>2. PICK n \in 1 .. 51 : stage = n
  BY <1>1 DEF PackInv, RunTyped
<1>3. Complete(Script[n])
  BY <1>2 DEF LeaveFilled, FindsRows, PackInv, FilledByItsStage, Vacant, Current
<1>4. \A i \in 1 .. n : Complete(Script[i])
  BY <1>1, <1>2, <1>3 DEF PackInv, CompleteSoFar
<1>5. \A i \in 1 .. n : Complete(Script[i])'
  BY <1>1, <1>4, MoreIsComplete
<1>6. FilledByItsStage'
  BY <1>1, <1>2, <1>5, FilledWhileRunning
<1>7. \A i \in 1 .. stage : Complete(Script[i])'
  BY <1>2, <1>5
<1> QED
  BY <1>1, <1>6, <1>7, PackNextStage

\* Only the serving of a first meal plan that is missing is passed over.
LEMMA PassedOver ==
  ASSUME PackInv, NEW n \in 1 .. 51, stage = n, NEW m \in 1 .. Script[n].count,
         ~(Parents(Script[n], m) \subseteq rows)
  PROVE  Missing(Script[n], m)
<1>1. m \in Nat /\ m >= 1
  BY Counts
<1>2. /\ \A i \in 1 .. 51 : i < n => Complete(Script[i])
      /\ n \in 17 .. 21 /\ Script[n] \in Servings
  <2>1. n \in 17 .. 21
    BY <1>1, ParentsAt
  <2>2. ASSUME NEW i \in 1 .. 51, i < n
        PROVE  Complete(Script[i])
    <3>1. i \in 1 .. stage - 1 /\ stage # 0
      BY <2>2
    <3> QED
      BY <3>1 DEF PackInv, CompleteSoFar
  <2> QED
    BY <2>1, <2>2, ServingsAre
<1>3. /\ \A i \in 16 .. 21 : Script[i].how = "write" /\ Script[i].count = Each
      /\ m \in 1 .. Each
  BY HowAt, CountAt, <1>2
<1>4. ASSUME NEW i \in 16 .. 20, i < n
      PROVE  Written(Script[i], m)
  BY <1>2, <1>3, <1>4 DEF Complete
<1>5. ASSUME NEW i \in 17 .. 20, i < n, Row(Script[i], m) \notin rows
      PROVE  m = 1 /\ Row(FirstMealPlan, 1) \notin rows
  BY <1>4, <1>5 DEF Written, Missing
<1>6. CASE n = 17
  <2>1. CASE m = 1
    BY <1>1, <1>2, <1>6, <2>1, ParentsAt DEF Missing
  <2>2. CASE m # 1
    <3>1. Row(MealPlans, m) \notin rows
      BY <1>1, <1>6, <2>2, ParentsAt
    <3>2. Written(MealPlans, m)
      BY <1>4, <1>6, ServingsAt
    <3> QED
      BY <2>2, <3>1, <3>2 DEF Written, Missing
  <2> QED
    BY <2>1, <2>2
<1>7. CASE n = 18
  <2>1. Row(Script[17], m) \notin rows
    BY <1>1, <1>7, ParentsAt
  <2> QED
    BY <1>2, <1>5, <1>7, <2>1 DEF Missing
<1>8. CASE n \in 19 .. 21
  <2>1. Row(Script[18], m) \notin rows
    BY <1>1, <1>8, ParentsAt
  <2> QED
    BY <1>2, <1>5, <1>8, <2>1 DEF Missing
<1> QED
  BY <1>2, <1>6, <1>7, <1>8

LEMMA PackWrites ==
  ASSUME PackInv, WriteRow
  PROVE  PackInv'
<1>1. /\ stage # 0
      /\ rows' = rows \cup {r \in {Row(Current, item)} : Parents(Current, item) \subseteq rows}
  BY DEF WriteRow
<1>2. PICK n \in 1 .. 51 : stage = n
  BY <1>1 DEF PackInv, RunTyped
<1>3. PICK m \in 1 .. Script[n].count : item = m
  BY <1>1, <1>2 DEF PackInv, RunTyped, Current
<1>4. Script[n].count \in Nat
  BY Counts
<1>5. \A i \in 1 .. n - 1 : Complete(Script[i])'
  <2> SUFFICES ASSUME NEW i \in 1 .. n - 1
               PROVE  Complete(Script[i])'
    OBVIOUS
  <2>1. rows \subseteq rows' /\ Complete(Script[i]) /\ i \in 1 .. 51
    BY <1>1, <1>2 DEF PackInv, CompleteSoFar
  <2>2. CASE n = 15
    BY <2>1, <2>2, ServingsAre, MoreIsComplete
  <2>3. CASE n # 15
    <3>1. Row(FirstMealPlan, 1) \in rows' => Row(FirstMealPlan, 1) \in rows
      BY <1>1, <1>2, <2>3, FirstPlanIsFirst DEF Current
    <3> QED
      BY <2>1, <3>1, MoreIsComplete
  <2> QED
    BY <2>2, <2>3
<1>6. \A k \in 1 .. m : Written(Script[n], k)'
  <2> SUFFICES ASSUME NEW k \in 1 .. m
               PROVE  Written(Script[n], k)'
    OBVIOUS
  <2>1. k \in 1 .. m - 1 \/ k = m
    BY <1>3, <1>4
  <2>2. CASE k = m /\ Parents(Script[n], m) \subseteq rows
    BY <1>1, <1>2, <1>3, <2>2 DEF Written, Current
  <2>3. CASE k = m /\ ~(Parents(Script[n], m) \subseteq rows)
    <3>1. rows' = rows
      BY <1>1, <1>2, <1>3, <2>3 DEF Current
    <3>2. Missing(Script[n], m)
      BY <1>2, <1>3, <2>3, PassedOver
    <3> QED
      BY <2>3, <3>1, <3>2 DEF Written, Missing
  <2>4. CASE k \in 1 .. m - 1
    <3>1. Written(Script[n], k)
      BY <1>1, <1>2, <1>3, <2>4 DEF PackInv, CompleteSoFar, Current
    <3>2. CASE n = 15
      BY <1>1, <3>1, <3>2, ServingsAre DEF Written, Missing
    <3>3. CASE n # 15
      <4>1. Row(FirstMealPlan, 1) \in rows' => Row(FirstMealPlan, 1) \in rows
        BY <1>1, <1>2, <3>3, FirstPlanIsFirst DEF Current
      <4>2. Row(Script[n], k) \in rows => Row(Script[n], k) \in rows'
        BY <1>1
      <4>3. Missing(Script[n], k) => Missing(Script[n], k)'
        BY <4>1 DEF Missing
      <4> QED
        BY <3>1, <4>2, <4>3 DEF Written
    <3> QED
      BY <3>2, <3>3
  <2> QED
    BY <2>1, <2>2, <2>3, <2>4
<1>7. m = Script[n].count => Complete(Script[n])'
  BY <1>6 DEF Complete
<1>8. FilledByItsStage'
  <2>1. Script[n].how = "fill" => m = Script[n].count
    <3>1. Script[n].how = "fill" => Script[n].count = 1
      BY FillsComeFirst
    <3> QED
      BY <1>3, <3>1
  <2>2. \A r \in rows' \ rows : r.table = Script[n].table
    BY <1>1, <1>2, RowsOfTables DEF Current
  <2>3. rows \subseteq rows'
    BY <1>1
  <2> QED
    BY <1>2, <1>7, <2>1, <2>2, <2>3, FilledWhileRunning
<1>9. CASE item < Current.count
  <2>1. m < Script[n].count /\ stage' = n /\ item' = m + 1 /\ outcome' = "running"
    BY <1>1, <1>2, <1>3, <1>9 DEF WriteRow, Current, PackInv, RunTyped
  <2>2. RunTyped'
    BY <1>3, <1>4, <2>1 DEF RunTyped, Current
  <2>3. CompleteSoFar'
    <3>1. \A k \in 1 .. item' - 1 : Written(Script[n], k)'
      BY <1>3, <1>4, <1>6, <2>1
    <3>2. Current' = Script[n]
      BY <2>1 DEF Current
    <3> QED
      BY <1>5, <2>1, <3>1, <3>2 DEF CompleteSoFar, Written, Missing
  <2> QED
    BY <1>8, <2>1, <2>2, <2>3 DEF PackInv, FinishedComplete, FailureNeedsOwnRows
<1>10. CASE ~(item < Current.count)
  <2>1. m = Script[n].count
    BY <1>2, <1>3, <1>4, <1>10 DEF Current
  <2>2. \A i \in 1 .. stage : Complete(Script[i])'
    BY <1>2, <1>5, <1>7, <2>1
  <2>3. NextStage
    BY <1>10 DEF WriteRow
  <2> QED
    BY <1>1, <1>8, <2>2, <2>3, PackNextStage
<1> QED
  BY <1>9, <1>10

LEMMA PackGrants ==
  ASSUME PackInv, GrantAccesses
  PROVE  PackInv'
<1>1. /\ stage # 0 /\ Current = AccessGrants /\ NextStage
      /\ rows' = rows \cup {Access(k) : k \in Kitchen}
  BY DEF GrantAccesses
<1>2. stage = 12
  BY <1>1, StagesByName DEF PackInv, RunTyped, Current
<1>3. rows \subseteq rows'
  BY <1>1
<1>4. Complete(AccessGrants)'
  <2>1. \A k \in 1 .. AccessGrants.count : Row(AccessGrants, k) \in rows'
    BY <1>1 DEF AccessGrants, Stage, Access, Kitchen
  <2> QED
    BY <2>1 DEF Complete, Written
<1>5. \A i \in 1 .. 11 : Complete(Script[i])'
  BY <1>2, <1>3, MoreIsComplete, ServingsAre DEF PackInv, CompleteSoFar
<1>6. Complete(Script[12])'
  BY <1>4, StagesByName
<1>7. \A i \in 1 .. stage : Complete(Script[i])'
  BY <1>2, <1>5, <1>6
<1>8. FilledByItsStage'
  <2>1. \A r \in rows' \ rows : r.table = Script[12].table
    BY <1>1, AccessRows, FilledTables
  <2> QED
    BY <1>2, <1>3, <1>6, <2>1, FilledWhileRunning
<1> QED
  BY <1>1, <1>7, <1>8, PackNextStage

\* What a stage deletes is no row of the pack, or of a table the script writes later.
LEMMA PackDeletes ==
  ASSUME PackInv, DeleteRows
  PROVE  PackInv'
<1>1. /\ stage # 0 /\ Current.how \in {"purge", "clear"} /\ NextStage
      /\ rows' = rows \ {r \in RowsIn(Current.tables) : Current.how = "clear" \/ r.name = "own"}
  BY DEF DeleteRows, Deleted
<1>2. PICK n \in 1 .. 51 : stage = n
  BY <1>1 DEF PackInv, RunTyped
<1>3. /\ Script[n].how \in {"purge", "clear"}
      /\ rows' = rows \ {r \in RowsIn(Script[n].tables) :
                           Script[n].how = "clear" \/ r.name = "own"}
  BY <1>1, <1>2 DEF Current
<1>4. \A i \in 1 .. 51 : Script[i].how = "fill" =>
         RowsIn({Script[i].table})' = RowsIn({Script[i].table})
  BY <1>3, FillsStay DEF RowsIn
<1>5. FilledByItsStage'
  BY <1>4, SameIsComplete, FillsAreNoServings DEF PackInv, FilledByItsStage, Vacant
<1>6. ASSUME NEW i \in 1 .. n
      PROVE  Complete(Script[i])'
  <2>1. i \in 1 .. 51
    OBVIOUS
  <2>2. CASE i = n
    BY <1>3, <2>2 DEF Complete
  <2>3. CASE i # n /\ Script[i].how = "fill"
    <3>1. Complete(Script[i])
      BY <1>1, <1>2, <2>3 DEF PackInv, CompleteSoFar
    <3> QED
      BY <1>4, <2>1, <2>3, <3>1, SameIsComplete, FillsAreNoServings
  <2>4. CASE i # n /\ Script[i].how # "fill"
    <3>1. Complete(Script[i])
      BY <1>1, <1>2, <2>4 DEF PackInv, CompleteSoFar
    <3>2. Script[i].name # "own"
      BY <2>1, Names
    <3>3. Script[n].how = "clear" => Script[i].table \notin Script[n].tables
      <4>1. Script[n].how = "clear" /\ Script[i].table \in Script[n].tables => n < i
        BY <2>1, ClearsComeFirst
      <4>2. ~(n < i)
        OBVIOUS
      <4> QED
        BY <4>1, <4>2
    <3>4. \A k : Row(Script[i], k) \in rows => Row(Script[i], k) \in rows'
      BY <1>3, <3>2, <3>3, RowsOfTables DEF RowsIn
    <3>5. \A k : Written(Script[i], k) => Written(Script[i], k)'
      BY <1>3, <3>4 DEF Written, Missing
    <3> QED
      BY <2>4, <3>1, <3>5 DEF Complete
  <2> QED
    BY <2>2, <2>3, <2>4
<1>7. \A i \in 1 .. stage : Complete(Script[i])'
  BY <1>2, <1>6
<1> QED
  BY <1>1, <1>5, <1>7, PackNextStage

LEMMA PackStep ==
  ASSUME PackInv, [DeploymentNext]_deploymentVars
  PROVE  PackInv'
<1>1. CASE Seed
  BY <1>1, PackBegins, PackFails, PackLeavesFilled, PackWrites, PackGrants, PackDeletes
     DEF Seed, SeedStep
<1>2. CASE UNCHANGED deploymentVars
  BY <1>2 DEF deploymentVars, seedVars, PackInv, RunTyped, CompleteSoFar, FilledByItsStage,
     FinishedComplete, FailureNeedsOwnRows, Complete, Written, Missing, Vacant, RowsIn, Current
<1> QED
  BY <1>1, <1>2, PackUpgrade, PackDowngrade, PackDisturb, PackAdminister DEF DeploymentNext

LEMMA PackAtFirst == DeploymentInit => PackInv
  BY DEF DeploymentInit, SeedInit, PackInv, RunTyped, CompleteSoFar, FilledByItsStage,
     FinishedComplete, FailureNeedsOwnRows, Vacant, RowsIn

-----------------------------------------------------------------------------
(***************************************************************************)
(* The revision and the schema, step by step.                              *)
(***************************************************************************)

LEMMA RevisionStep ==
  ASSUME RevisionInv, [DeploymentNext]_deploymentVars
  PROVE  RevisionInv'
<1>1. ASSUME NEW to \in 1 .. Latest, Upgrade(to)
      PROVE  RevisionInv'
  <2>1. schema' = Designed[to]
    BY <1>1, UpgradeArrives DEF Upgrade, RevisionInv
  <2>2. revision' = to /\ to \in 0 .. Latest /\ stage' = 0
    BY <1>1, LatestIsNat DEF Upgrade
  <2>3. Idle'
    BY <1>1 DEF Upgrade, Idle
  <2> QED
    BY <2>1, <2>2, <2>3 DEF RevisionInv
<1>2. ASSUME NEW to \in 0 .. Latest - 1, Downgrade(to)
      PROVE  RevisionInv'
  <2>1. to \in 0 .. Latest
    BY LatestIsNat
  <2>2. schema' = Designed[to]
    BY <1>2, <2>1, DowngradeArrives DEF Downgrade, RevisionInv
  <2>3. revision' = to /\ stage' = 0
    BY <1>2 DEF Downgrade
  <2>4. Idle'
    BY <1>2 DEF Downgrade, Idle, accessVars
  <2> QED
    BY <2>1, <2>2, <2>3, <2>4 DEF RevisionInv
<1>3. CASE Seed
  <2>1. Idle /\ revision = Latest /\ UNCHANGED <<revision, schema, request>>
    BY <1>3 DEF Seed, RevisionInv
  <2> QED
    BY <2>1 DEF RevisionInv, Idle
<1>4. CASE Disturb
  <2>1. revision = Latest /\ UNCHANGED <<revision, schema, request>>
    BY <1>4 DEF Disturb, accessVars
  <2>2. stage' = 0 \/ stage' = stage
    BY <1>4 DEF Disturb, Kill, AddOwnRow
  <2> QED
    BY <2>1, <2>2 DEF RevisionInv, Idle
<1>5. CASE Administer
  BY <1>5 DEF Administer, RevisionInv
<1>6. CASE UNCHANGED deploymentVars
  BY <1>6 DEF deploymentVars, seedVars, accessVars, RevisionInv, Idle
<1> QED
  BY <1>1, <1>2, <1>3, <1>4, <1>5, <1>6 DEF DeploymentNext

LEMMA RevisionAtFirst == DeploymentInit => RevisionInv
  BY DesignStarts, LatestIsNat DEF DeploymentInit, SeedInit, AccessInit, RevisionInv, Idle
-----------------------------------------------------------------------------
(***************************************************************************)
(* The accesses.                                                           *)
(***************************************************************************)

AccessRequest ==
  [kind : {"switch", "update"}, loaded : Kitchen \cup {None}, set : Kitchen \cup {None},
   kept : SUBSET Kitchen, removed : SUBSET Kitchen, added : SUBSET Kitchen,
   written : BOOLEAN, fresh : BOOLEAN]

\* What a request holds is about the accesses there are, unless another overtook it.
Sound(p) ==
  /\ p.kind = "switch" => p.written /\ p.removed = {} /\ p.added = {}
  /\ p.fresh /\ p.kind = "switch" => p.set \in Accessible
  /\ p.fresh /\ p.kind = "update" =>
       /\ p.set \in p.kept \cup {None}
       /\ p.loaded = activeKitchen
       /\ p.written => p.removed = Accessible \ p.kept /\ p.added = p.kept \ Accessible

AccessInv ==
  /\ activeKitchen \in Kitchen \cup {None}
  /\ request \in [Request -> AccessRequest \cup {None}]
  /\ \A q \in Request : request[q] # None => Sound(request[q])
  /\ ActiveKitchenIsOpen

LEMMA AccessesByRows ==
  ASSUME \A k \in Kitchen : Access(k) \in rows' <=> Access(k) \in rows
  PROVE  Accessible' = Accessible
  BY DEF Accessible

LEMMA AccessNames == \A k : Access(k).table = "user_sppg_access" /\ Access(k).name = "demo"
  BY RowsOfTables DEF Access, AccessGrants, Stage

\* While nobody's request is under way.
LEMMA AccessWhenIdle ==
  ASSUME AccessInv, Idle, request' = request, activeKitchen' \in Kitchen \cup {None},
         ActiveKitchenIsOpen'
  PROVE  AccessInv'
  BY DEF AccessInv, Idle

LEMMA AccessUpgrade ==
  ASSUME RevisionInv, AccessInv, NEW to \in 1 .. Latest, Upgrade(to)
  PROVE  AccessInv'
<1>1. /\ Idle /\ request' = request /\ activeKitchen' = activeKitchen /\ revision' = to
      /\ revision < to /\ rows' = rows \cup Refilled(revision, to)
      /\ overtaken' = (overtaken /\ AccessesSince <= revision)
  BY DEF Upgrade
<1>2. activeKitchen \in Kitchen \cup {None}
  BY DEF AccessInv
<1>3. Accessible \subseteq Accessible'
  BY <1>1 DEF Accessible
<1>4. CASE AccessesSince <= revision
  <2>1. ActiveKitchenIsOpen'
    BY <1>1, <1>3, <1>4 DEF AccessInv, ActiveKitchenIsOpen
  <2> QED
    BY <1>1, <1>2, <2>1, AccessWhenIdle
<1>5. CASE ~(AccessesSince <= revision) /\ AccessesSince <= to
  <2>1. revision < AccessesSince
    BY <1>5, AccessesSinceIsNat, LatestIsNat DEF RevisionInv
  <2>2. activeKitchen # None => Access(activeKitchen) \in rows'
    BY <1>1, <1>5, <2>1 DEF Refilled
  <2>3. activeKitchen' \in Accessible' \cup {None}
    BY <1>1, <1>2, <2>2 DEF Accessible
  <2>4. ActiveKitchenIsOpen'
    BY <2>3 DEF ActiveKitchenIsOpen
  <2> QED
    BY <1>1, <1>2, <2>4, AccessWhenIdle
<1>6. CASE ~(AccessesSince <= to)
  <2>1. ActiveKitchenIsOpen'
    BY <1>1, <1>6 DEF ActiveKitchenIsOpen
  <2> QED
    BY <1>1, <1>2, <2>1, AccessWhenIdle
<1> QED
  BY <1>4, <1>5, <1>6

LEMMA AccessDowngrade ==
  ASSUME RevisionInv, AccessInv, NEW to \in 0 .. Latest - 1, Downgrade(to)
  PROVE  AccessInv'
<1>1. /\ Idle /\ request' = request /\ overtaken' = overtaken /\ revision' = to
      /\ to < revision /\ rows' = Kept(schema') /\ schema' = Downgraded(schema, revision, to)
      /\ activeKitchen' = activeKitchen \/ activeKitchen' = None
  BY DEF Downgrade, accessVars
<1>2. activeKitchen' \in Kitchen \cup {None}
  BY <1>1 DEF AccessInv
<1>3. ActiveKitchenIsOpen'
  <2> SUFFICES ASSUME AccessesSince <= to, activeKitchen' = activeKitchen
               PROVE  activeKitchen' \in Accessible' \cup {None} \/ overtaken'
    BY <1>1 DEF ActiveKitchenIsOpen
  <2>1. to \in 0 .. Latest /\ AccessesSince <= revision
    BY <1>1, AccessesSinceIsNat, LatestIsNat DEF RevisionInv
  <2>2. schema' = Designed[to]
    BY <1>1, <2>1, DowngradeArrives DEF RevisionInv
  <2>3. "user_sppg_access" \in TablesOf(schema')
    BY <2>1, <2>2, TablesStay
  <2>4. \A k \in Kitchen : Access(k) \in rows' <=> Access(k) \in rows
    BY <1>1, <2>3, AccessNames DEF Kept
  <2>5. Accessible' = Accessible
    BY <2>4, AccessesByRows
  <2> QED
    BY <1>1, <2>1, <2>5 DEF AccessInv, ActiveKitchenIsOpen
<1> QED
  BY <1>1, <1>2, <1>3, AccessWhenIdle

LEMMA AccessSeed ==
  ASSUME RevisionInv, PackInv, AccessInv, Seed
  PROVE  AccessInv'
<1>1. /\ Idle /\ request' = request /\ revision' = revision
      /\ overtaken' = (overtaken /\ (stage = 0 \/ Current # AccessGrants))
  BY DEF Seed, RevisionInv
<1>2. stage \in 0 .. 51
  BY DEF PackInv, RunTyped
<1>3. CASE GrantAccesses
  <2>1. activeKitchen' = 1 /\ 1 \in Kitchen /\ Access(1) \in rows'
    BY <1>3, EachAssumption DEF GrantAccesses, Home, Kitchen
  <2>2. ActiveKitchenIsOpen'
    BY <2>1 DEF ActiveKitchenIsOpen, Accessible
  <2> QED
    BY <1>1, <2>1, <2>2, AccessWhenIdle
<1>4. CASE ~GrantAccesses
  <2>1. activeKitchen' = activeKitchen
    BY <1>4 DEF Seed, SeedStep, BeginRun, RaiseError, LeaveFilled, WriteRow, DeleteRows
  <2>2. overtaken => overtaken'
    <3>1. AccessGrants.how = "grant" /\ CashJournals.how = "write"
      BY DEF AccessGrants, CashJournals, Stage, Keep
    <3>2. stage = 0 \/ Current # AccessGrants
      BY <1>4, <3>1 DEF Seed, SeedStep, BeginRun, RaiseError, Raises, LeaveFilled, WriteRow,
         DeleteRows
    <3> QED
      BY <1>1, <3>2
  <2>3. Accessible \subseteq Accessible'
    <3>1. CASE DeleteRows
      <4>1. stage \in 1 .. 51
        BY <1>2, <3>1 DEF DeleteRows
      <4>2. \A j \in 1 .. 51 : Script[j].how \in {"purge", "clear"} =>
               "user_sppg_access" \notin Script[j].tables
        <5>1. 12 \in 1 .. 51 /\ Script[12].how \in {"fill", "grant"}
          BY AccessGrantsGrant
        <5>2. \A j \in 1 .. 51 : Script[j].how \in {"purge", "clear"} =>
                 Script[12].table \notin Script[j].tables
          BY <5>1, FillsStay
        <5> QED
          BY <5>2, FilledTables
      <4>3. "user_sppg_access" \notin Current.tables
        BY <3>1, <4>1, <4>2 DEF DeleteRows, Current
      <4> QED
        BY <3>1, <4>3, AccessNames DEF DeleteRows, Deleted, RowsIn, Accessible
    <3>2. CASE ~DeleteRows
      <4>1. rows \subseteq rows'
        BY <1>4, <3>2 DEF Seed, SeedStep, BeginRun, RaiseError, LeaveFilled, WriteRow
      <4> QED
        BY <4>1 DEF Accessible
    <3> QED
      BY <3>1, <3>2
  <2>4. ActiveKitchenIsOpen'
    BY <1>1, <2>1, <2>2, <2>3 DEF AccessInv, ActiveKitchenIsOpen
  <2>5. activeKitchen' \in Kitchen \cup {None}
    BY <2>1 DEF AccessInv
  <2> QED
    BY <1>1, <2>4, <2>5, AccessWhenIdle
<1> QED
  BY <1>3, <1>4

LEMMA AccessDisturb ==
  ASSUME AccessInv, Disturb
  PROVE  AccessInv'
<1>1. UNCHANGED <<request, overtaken, activeKitchen, revision>>
  BY DEF Disturb, Kill, AddOwnRow, accessVars
<1>2. \A k \in Kitchen : Access(k) \in rows' <=> Access(k) \in rows
  BY AccessNames, OwnRowsAre DEF Disturb, Kill, AddOwnRow
<1>3. Accessible' = Accessible
  BY <1>2, AccessesByRows
<1> QED
  BY <1>1, <1>3 DEF AccessInv, Sound, ActiveKitchenIsOpen

\* A request that is taken up holds the accesses there are; nothing is committed.
LEMMA AccessBegins ==
  ASSUME AccessInv, NEW q \in Request, NEW p \in AccessRequest, Sound(p),
         request' = [request EXCEPT ![q] = p],
         UNCHANGED <<rows, activeKitchen, overtaken, revision>>
  PROVE  AccessInv'
<1>1. Accessible' = Accessible
  BY DEF Accessible
<1>2. request' \in [Request -> AccessRequest \cup {None}]
  BY DEF AccessInv
<1>3. \A t \in Request : request'[t] # None => Sound(request'[t])
  BY DEF AccessInv
<1>4. \A t \in Request : request'[t] # None => Sound(request[t])'
  BY <1>1, <1>3 DEF Sound
<1> QED
  BY <1>1, <1>2, <1>4 DEF AccessInv, ActiveKitchenIsOpen

LEMMA AccessSwitchBegins ==
  ASSUME AccessInv, NEW q \in Request, NEW k \in Kitchen, BeginSwitch(q, k),
         UNCHANGED revision
  PROVE  AccessInv'
<1> DEFINE p == [kind |-> "switch", loaded |-> activeKitchen, set |-> k, kept |-> {},
                 removed |-> {}, added |-> {}, written |-> TRUE, fresh |-> TRUE]
<1>1. p \in AccessRequest
  BY DEF AccessInv, AccessRequest
<1>2. Sound(p)
  BY DEF BeginSwitch, Sound
<1>3. request' = [request EXCEPT ![q] = p] /\ UNCHANGED <<rows, activeKitchen, overtaken>>
  BY DEF BeginSwitch, Opens
<1>4. PICK c : c = p
  OBVIOUS
<1> HIDE DEF p
<1> QED
  BY <1>1, <1>2, <1>3, <1>4, AccessBegins

LEMMA AccessUpdateBegins ==
  ASSUME AccessInv, NEW q \in Request, NEW kept \in SUBSET Kitchen,
         NEW k \in Kitchen \cup {None}, BeginUpdate(q, kept, k), UNCHANGED revision
  PROVE  AccessInv'
<1> DEFINE p == [kind |-> "update", loaded |-> activeKitchen, set |-> k, kept |-> kept,
                 removed |-> {}, added |-> {}, written |-> FALSE, fresh |-> TRUE]
<1>1. p \in AccessRequest
  BY DEF AccessInv, AccessRequest
<1>2. Sound(p)
  BY DEF BeginUpdate, Sound
<1>3. request' = [request EXCEPT ![q] = p] /\ UNCHANGED <<rows, activeKitchen, overtaken>>
  BY DEF BeginUpdate, Opens
<1>4. PICK c : c = p
  OBVIOUS
<1> HIDE DEF p
<1> QED
  BY <1>1, <1>2, <1>3, <1>4, AccessBegins

LEMMA AccessWrites ==
  ASSUME AccessInv, NEW q \in Request, WriteAccesses(q), UNCHANGED revision
  PROVE  AccessInv'
<1> DEFINE p == [request[q] EXCEPT !.written = TRUE,
                                   !.removed = Accessible \ request[q].kept,
                                   !.added = request[q].kept \ Accessible]
<1>1. request[q] \in AccessRequest /\ Sound(request[q])
  BY DEF WriteAccesses, AccessInv
<1>2. Accessible \subseteq Kitchen
  BY DEF Accessible
<1>3. p \in AccessRequest
  BY <1>1, <1>2 DEF AccessRequest
<1>4. Sound(p)
  <2>1. ~request[q].written
    BY DEF WriteAccesses
  <2>2. /\ p.kind = request[q].kind /\ p.set = request[q].set /\ p.kept = request[q].kept
        /\ p.loaded = request[q].loaded /\ p.fresh = request[q].fresh
        /\ p.removed = Accessible \ request[q].kept /\ p.added = request[q].kept \ Accessible
    BY <1>1 DEF AccessRequest
  <2>3. p.kind # "switch"
    BY <1>1, <2>1, <2>2 DEF Sound
  <2> HIDE DEF p
  <2> QED
    BY <1>1, <2>2, <2>3 DEF Sound
<1>5. request' = [request EXCEPT ![q] = p] /\ UNCHANGED <<rows, activeKitchen, overtaken>>
  BY DEF WriteAccesses, AccessInv
<1>6. PICK c : c = p
  OBVIOUS
<1> HIDE DEF p
<1> QED
  BY <1>3, <1>4, <1>5, <1>6, AccessBegins

LEMMA AccessIsLost ==
  ASSUME AccessInv, NEW q \in Request, LoseRequest(q), UNCHANGED revision
  PROVE  AccessInv'
<1>1. Accessible' = Accessible
  BY DEF LoseRequest, Accessible
<1>2. request' = [request EXCEPT ![q] = None]
  BY DEF LoseRequest
<1>3. request' \in [Request -> AccessRequest \cup {None}]
  BY <1>2 DEF AccessInv
<1>4. \A t \in Request : request'[t] # None => Sound(request'[t])
  BY <1>2 DEF AccessInv
<1>5. \A t \in Request : request'[t] # None => Sound(request[t])'
  BY <1>1, <1>4 DEF Sound, LoseRequest
<1> QED
  BY <1>1, <1>3, <1>5 DEF AccessInv, ActiveKitchenIsOpen, LoseRequest

\* What is committed fresh is about the accesses there are; what is left fresh beside it
\* is a switch beside a switch, and switches leave the accesses alone.
LEMMA AccessCommits ==
  ASSUME AccessInv, NEW q \in Request, CommitAccess(q), UNCHANGED revision
  PROVE  AccessInv'
<1> DEFINE p == request[q]
<1>1. /\ p \in AccessRequest /\ Sound(p) /\ p.written
      /\ p.added \cap Accessible = {}
      /\ rows' = (rows \ {Access(k) : k \in p.removed}) \cup {Access(k) : k \in p.added}
      /\ activeKitchen' = IF p.set # p.loaded THEN p.set ELSE activeKitchen
      /\ overtaken' = (~p.fresh \/ (overtaken /\ p.kind = "switch" /\ p.set = p.loaded))
  BY DEF CommitAccess, AccessInv
<1>2. p.removed \subseteq Kitchen /\ p.added \subseteq Kitchen /\ p.set \in Kitchen \cup {None}
  BY <1>1 DEF AccessRequest
<1>3. activeKitchen' \in Kitchen \cup {None}
  BY <1>1, <1>2 DEF AccessInv
<1>4. Accessible' = (Accessible \ p.removed) \cup p.added
  <2>1. \A j, k : Access(j) = Access(k) <=> j = k
    BY DEF Access, Row
  <2>2. \A k \in Kitchen : Access(k) \in rows' <=>
           (Access(k) \in rows /\ k \notin p.removed) \/ k \in p.added
    BY <1>1, <1>2, <2>1
  <2> QED
    BY <1>2, <2>2 DEF Accessible
<1>5. p.kind = "switch" => Accessible' = Accessible
  BY <1>1, <1>4 DEF Sound
<1>6. ActiveKitchenIsOpen'
  <2> SUFFICES ASSUME AccessesSince <= revision, ~overtaken'
               PROVE  activeKitchen' \in Accessible' \cup {None}
    BY DEF ActiveKitchenIsOpen
  <2>1. p.fresh
    BY <1>1
  <2>2. CASE p.kind = "switch" /\ p.set # p.loaded
    BY <1>1, <1>5, <2>1, <2>2 DEF Sound
  <2>3. CASE p.kind = "switch" /\ p.set = p.loaded
    BY <1>1, <1>5, <2>1, <2>3 DEF AccessInv, ActiveKitchenIsOpen
  <2>4. CASE p.kind = "update"
    <3>1. /\ p.set \in p.kept \cup {None} /\ p.loaded = activeKitchen
          /\ p.removed = Accessible \ p.kept /\ p.added = p.kept \ Accessible
      BY <1>1, <2>1, <2>4 DEF Sound
    <3>2. activeKitchen' = p.set
      BY <1>1, <3>1
    <3> QED
      BY <1>4, <3>1, <3>2
  <2> QED
    BY <1>1, <2>2, <2>3, <2>4 DEF AccessRequest
<1>7. request' = [t \in Request |->
         IF t = q \/ request[t] = None THEN None
         ELSE [request[t] EXCEPT !.fresh = @ /\ {p.kind, request[t].kind} = {"switch"}]]
  BY DEF CommitAccess, Overtakes
<1>8. ASSUME NEW t \in Request, request'[t] # None
      PROVE  /\ request'[t] \in AccessRequest
             /\ Sound(request[t])'
  <2>1. request[t] # None /\ request[t] \in AccessRequest /\ Sound(request[t])
    BY <1>7, <1>8 DEF AccessInv
  <2>2. request'[t] = [request[t] EXCEPT !.fresh = @ /\ {p.kind, request[t].kind} = {"switch"}]
    BY <1>7, <1>8
  <2>3. request'[t] \in AccessRequest
    BY <2>1, <2>2 DEF AccessRequest
  <2>4. /\ request'[t].kind = request[t].kind /\ request'[t].set = request[t].set
        /\ request'[t].removed = request[t].removed /\ request'[t].added = request[t].added
        /\ request'[t].written = request[t].written
        /\ request'[t].fresh => request[t].fresh /\ p.kind = "switch" /\ request[t].kind = "switch"
    BY <2>1, <2>2 DEF AccessRequest
  <2> HIDE DEF p
  <2>5. Sound(request[t])'
    BY <1>5, <2>1, <2>4 DEF Sound
  <2> QED
    BY <2>3, <2>5
<1>9. request' \in [Request -> AccessRequest \cup {None}]
  BY <1>7, <1>8
<1> QED
  BY <1>3, <1>6, <1>8, <1>9 DEF AccessInv

LEMMA AccessStep ==
  ASSUME RevisionInv, PackInv, AccessInv, [DeploymentNext]_deploymentVars
  PROVE  AccessInv'
<1>1. CASE Administer
  <2>1. UNCHANGED revision
    BY <1>1 DEF Administer
  <2> QED
    BY <1>1, <2>1, AccessSwitchBegins, AccessUpdateBegins, AccessWrites, AccessCommits,
       AccessIsLost DEF Administer, BeginAccess, PursueAccess
<1>2. CASE UNCHANGED deploymentVars
  BY <1>2 DEF deploymentVars, seedVars, accessVars, AccessInv, Sound, Accessible,
     ActiveKitchenIsOpen
<1> QED
  BY <1>1, <1>2, AccessUpgrade, AccessDowngrade, AccessSeed, AccessDisturb DEF DeploymentNext

LEMMA AccessAtFirst == DeploymentInit => AccessInv
  BY DEF DeploymentInit, SeedInit, AccessInit, AccessInv, ActiveKitchenIsOpen

-----------------------------------------------------------------------------
(***************************************************************************)
(* The account of the demo budget.                                         *)
(***************************************************************************)
\* The stages between the one that makes the accounts and the one that makes the budget.
Between(n) == 34 < n /\ n <= 43

Excused ==
  \/ \E n \in cutShort : Between(n)
  \/ Own("accounts") \in rows

\* The accounts are there without the budget only after a run that was killed between the
\* two stages, and only then does a run that finds them still make the budget.
BudgetInv ==
  /\ Row(Accounts, 1) \in rows /\ Vacant("budgets") /\ ~Between(stage) => Excused
  /\ Between(stage) /\ expense = "second" /\ Vacant("budgets") => Excused
  /\ budgetAccount = "second" => Excused

LEMMA AccountsFields ==
  /\ Accounts.table = "accounts" /\ Accounts.how = "fill" /\ Accounts.count = 1
  /\ DemoBudget.table = "budgets" /\ DemoBudget.how = "fill" /\ DemoBudget.count = 1
  BY DEF Accounts, DemoBudget, FillEmpty, Stage

\* Whatever leaves the accounts and the budgets alone.
LEMMA BudgetKept ==
  ASSUME BudgetInv, ~Between(stage), ~Between(stage'), cutShort' = cutShort,
         budgetAccount' = budgetAccount,
         Own("accounts") \in rows => Own("accounts") \in rows',
         Row(Accounts, 1) \in rows' => Row(Accounts, 1) \in rows,
         Vacant("budgets")' => Vacant("budgets")
  PROVE  BudgetInv'
<1>1. Excused => Excused'
  BY DEF Excused
<1> QED
  BY <1>1 DEF BudgetInv

LEMMA BudgetBetweenRuns ==
  ASSUME RevisionInv, PackInv, BudgetInv, DeploymentNext, ~Seed, ~Disturb
  PROVE  BudgetInv'
<1>1. ~Between(0)
  BY DEF Between
<1>2. ASSUME NEW to \in 1 .. Latest, Upgrade(to)
      PROVE  BudgetInv'
  <2>1. \A r \in rows' \ rows : r.table = "user_sppg_access"
    BY <1>2, AccessRows DEF Upgrade, Refilled
  <2>2. Row(Accounts, 1) \in rows' => Row(Accounts, 1) \in rows
    BY <2>1, RowsOfTables, AccountsFields
  <2>3. rows \subseteq rows'
    BY <1>2 DEF Upgrade
  <2>4. Vacant("budgets")' => Vacant("budgets")
    BY <2>3 DEF Vacant, RowsIn
  <2> QED
    BY <1>1, <1>2, <2>2, <2>3, <2>4, BudgetKept DEF Upgrade
<1>3. ASSUME NEW to \in 0 .. Latest - 1, Downgrade(to)
      PROVE  BudgetInv'
  <2> DEFINE T == TablesOf(schema')
  <2>1. /\ stage = 0 /\ stage' = 0 /\ cutShort' = cutShort
        /\ rows' = {r \in rows : r.table \in T}
        /\ budgetAccount' = IF "budgets" \in T THEN budgetAccount ELSE None
    BY <1>3 DEF Downgrade, Kept
  <2>2. "budgets" \in T <=> "accounts" \in T
    <3>1. to \in 0 .. Latest
      BY LatestIsNat
    <3>2. schema' = Designed[to]
      BY <1>3, <3>1, DowngradeArrives DEF Downgrade, RevisionInv
    <3> QED
      BY <3>1, <3>2, TablesStay
  <2> HIDE DEF T
  <2>3. CASE "budgets" \in T
    <3>1. Vacant("budgets")' => Vacant("budgets")
      BY <2>1, <2>3 DEF Vacant, RowsIn
    <3>2. Own("accounts") \in rows => Own("accounts") \in rows'
      BY <2>1, <2>2, <2>3, RowsOfTables
    <3> QED
      BY <1>1, <2>1, <2>3, <3>1, <3>2, BudgetKept
  <2>4. CASE "budgets" \notin T
    <3>1. Row(Accounts, 1) \notin rows'
      BY <2>1, <2>2, <2>4, RowsOfTables, AccountsFields
    <3> QED
      BY <1>1, <2>1, <2>4, <3>1, NoneIsNoAccount DEF BudgetInv
  <2> QED
    BY <2>3, <2>4
<1>4. CASE Administer
  <2>1. \A r : r.table # "user_sppg_access" => (r \in rows' <=> r \in rows)
    BY <1>4, AccessesAlone
  <2>2. Row(Accounts, 1).table # "user_sppg_access" /\ Own("accounts").table # "user_sppg_access"
    BY RowsOfTables, AccountsFields
  <2>3. Vacant("budgets")' => Vacant("budgets")
    BY <2>1 DEF Vacant, RowsIn
  <2>4. stage = 0 /\ stage' = 0 /\ cutShort' = cutShort /\ budgetAccount' = budgetAccount
    BY <1>4 DEF Administer
  <2> QED
    BY <1>1, <2>1, <2>2, <2>3, <2>4, BudgetKept
<1> QED
  BY <1>2, <1>3, <1>4 DEF DeploymentNext

\* A run that is killed or fails.
LEMMA BudgetIsCut ==
  ASSUME BudgetInv, stage' = 0, rows' = rows, cutShort' = cutShort \cup {stage},
         budgetAccount' = budgetAccount
  PROVE  BudgetInv'
<1>1. ~Between(stage') /\ (Excused => Excused') /\ (Between(stage) => Excused')
  BY DEF Between, Excused
<1>2. Vacant("budgets")' => Vacant("budgets")
  BY DEF Vacant, RowsIn
<1> QED
  BY <1>1, <1>2 DEF BudgetInv

LEMMA BudgetDisturb ==
  ASSUME PackInv, BudgetInv, Disturb
  PROVE  BudgetInv'
<1>1. CASE Kill
  <2>1. /\ stage' = 0 /\ rows' = rows /\ cutShort' = cutShort \cup {stage}
        /\ budgetAccount' = budgetAccount
    BY <1>1 DEF Kill
  <2> QED
    BY <2>1, BudgetIsCut
<1>2. ASSUME NEW r \in OwnRows, AddOwnRow(r)
      PROVE  BudgetInv'
  <2>1. /\ stage = 0 /\ stage' = 0 /\ rows' = rows \cup {r} /\ cutShort' = cutShort
        /\ budgetAccount' = budgetAccount
    BY <1>2 DEF AddOwnRow
  <2>2. Row(Accounts, 1) # r
    <3>1. Row(Accounts, 1).name = "base"
      BY RowsOfTables DEF Accounts, FillEmpty, Stage
    <3> QED
      BY <3>1, OwnRowsAre
  <2>3. Vacant("budgets")' => Vacant("budgets")
    BY <2>1 DEF Vacant, RowsIn
  <2>4. ~Between(0)
    BY DEF Between
  <2> QED
    BY <2>1, <2>2, <2>3, <2>4, BudgetKept
<1> QED
  BY <1>1, <1>2 DEF Disturb

\* A step of the script in a stage that makes neither.
LEMMA BudgetElsewhere ==
  ASSUME BudgetInv, NEW n \in 1 .. 51, stage = n, n # 34, n # 43,
         stage' = n \/ (n < 51 /\ stage' = n + 1) \/ (n = 51 /\ stage' = 0),
         cutShort' = cutShort, budgetAccount' = budgetAccount, expense' = expense,
         Own("accounts") \in rows => Own("accounts") \in rows',
         Row(Accounts, 1) \in rows' => Row(Accounts, 1) \in rows \/ n = 35 \/ n = 36,
         Vacant("budgets")' => Vacant("budgets")
  PROVE  BudgetInv'
<1>1. Excused => Excused'
  BY DEF Excused
<1>2. Between(stage') <=> Between(stage)
  BY DEF Between
<1>3. n = 35 \/ n = 36 => Between(stage)
  BY DEF Between
<1> QED
  BY <1>1, <1>2, <1>3 DEF BudgetInv

LEMMA StageMoves ==
  ASSUME NextStage, NEW n \in 1 .. 51, stage = n
  PROVE  (n < 51 /\ stage' = n + 1) \/ (n = 51 /\ stage' = 0)
  BY ScriptLength DEF NextStage

\* The steps of the script, in the stages that fill, write and delete.
LEMMA BudgetLeavesFilled ==
  ASSUME PackInv, BudgetInv, LeaveFilled
  PROVE  BudgetInv'
<1>1. /\ stage # 0 /\ NextStage /\ rows' = rows /\ Current.how = "fill"
      /\ RowsIn({Current.table}) # {} /\ cutShort' = cutShort /\ budgetAccount' = budgetAccount
      /\ expense' = IF Current = Accounts THEN "second" ELSE expense
  BY DEF LeaveFilled, FindsRows, ExpenseAccount
<1>2. PICK n \in 1 .. 51 : stage = n
  BY <1>1 DEF PackInv, RunTyped
<1>3. (n < 51 /\ stage' = n + 1) \/ (n = 51 /\ stage' = 0)
  BY <1>1, <1>2, StageMoves
<1>4. Vacant("budgets")' => Vacant("budgets")
  BY <1>1 DEF Vacant, RowsIn
<1>5. Excused => Excused'
  BY <1>1 DEF Excused
<1>6. CASE n = 34
  <2>1. Current = Accounts /\ Between(stage') /\ ~Between(stage)
    BY <1>2, <1>3, <1>6, StagesByName DEF Current, Between
  <2>2. Complete(Accounts)
    <3>1. 34 \in 1 .. 51 /\ Script[34] = Accounts
      BY StagesByName
    <3>2. Script[34].how = "fill" /\ ~Vacant(Script[34].table)
      BY <1>1, <2>1, <3>1 DEF Vacant
    <3>3. Complete(Script[34])
      BY <3>1, <3>2 DEF PackInv, FilledByItsStage
    <3> QED
      BY <3>1, <3>3
  <2>3. Row(Accounts, 1) \in rows \/ Own("accounts") \in rows
    <3>1. 1 \in 1 .. 1 /\ Accounts \notin Servings
      BY StagesByName, ServingsAre
    <3> QED
      BY <2>2, <3>1, AccountsFields DEF Complete, Written, Missing
  <2>4. Vacant("budgets") => Excused
    BY <2>1, <2>3 DEF BudgetInv, Excused
  <2> QED
    BY <1>1, <1>4, <1>5, <2>1, <2>4 DEF BudgetInv
<1>7. CASE n = 43
  <2>1. Current = DemoBudget /\ ~Between(stage')
    BY <1>2, <1>3, <1>7, StagesByName DEF Current, Between
  <2>2. ~Vacant("budgets")
    BY <1>1, <2>1, AccountsFields DEF Vacant
  <2> QED
    BY <1>1, <1>4, <1>5, <2>1, <2>2 DEF BudgetInv
<1>8. CASE n # 34 /\ n # 43
  <2>1. Current # Accounts
    BY <1>2, <1>8, StagesByName DEF Current
  <2> QED
    BY <1>1, <1>2, <1>3, <1>4, <1>8, <2>1, BudgetElsewhere
<1> QED
  BY <1>6, <1>7, <1>8

LEMMA BudgetWrites ==
  ASSUME PackInv, BudgetInv, WriteRow
  PROVE  BudgetInv'
<1>1. /\ stage # 0 /\ cutShort' = cutShort
      /\ rows' = rows \cup {r \in {Row(Current, item)} : Parents(Current, item) \subseteq rows}
      /\ Current.how = "fill" => ~FindsRows
      /\ expense' = IF Current = Accounts THEN "materials" ELSE expense
      /\ budgetAccount' = IF Current = DemoBudget THEN expense ELSE budgetAccount
  BY DEF WriteRow, ExpenseAccount
<1>2. PICK n \in 1 .. 51 : stage = n
  BY <1>1 DEF PackInv, RunTyped
<1>3. item \in 1 .. Script[n].count /\ Script[n].count \in Nat
  BY <1>1, <1>2, Counts DEF PackInv, RunTyped, Current
<1>4. stage' = n \/ (n < 51 /\ stage' = n + 1) \/ (n = 51 /\ stage' = 0)
  <2>1. CASE item < Current.count
    BY <1>2, <2>1 DEF WriteRow
  <2>2. CASE ~(item < Current.count)
    BY <1>2, <2>2, StageMoves DEF WriteRow
  <2> QED
    BY <2>1, <2>2
<1>5. Vacant("budgets")' => Vacant("budgets")
  BY <1>1 DEF Vacant, RowsIn
<1>6. Excused => Excused'
  BY <1>1 DEF Excused
<1>7. CASE n = 34
  <2>1. Current = Accounts /\ Current # DemoBudget
    BY <1>2, <1>7, StagesByName DEF Current
  <2>2. ~(item < Current.count)
    BY <1>2, <1>3, <1>7, <2>1, AccountsFields DEF Current
  <2>3. stage' = 35
    BY <1>2, <1>7, <2>2, StageMoves DEF WriteRow
  <2>4. Between(stage')
    BY <2>3 DEF Between
  <2> QED
    BY <1>1, <1>6, <2>1, <2>4 DEF BudgetInv
<1>8. CASE n = 43
  <2>1. Current = DemoBudget /\ Between(stage)
    BY <1>2, <1>8, StagesByName DEF Current, Between
  <2>2. item = 1
    BY <1>2, <1>3, <2>1, AccountsFields DEF Current
  <2>3. Vacant("budgets")
    BY <1>1, <2>1, <2>2, AccountsFields DEF FindsRows, Vacant
  <2>4. ~Vacant("budgets")'
    <3>1. Parents(Current, item) = {}
      BY <1>2, <1>8, <2>2, ParentsAt DEF Current
    <3> QED
      BY <1>1, <2>1, <3>1, RowsOfTables, AccountsFields DEF Vacant, RowsIn
  <2> QED
    BY <1>1, <1>6, <2>1, <2>3, <2>4 DEF BudgetInv
<1>9. CASE n # 34 /\ n # 43
  <2>1. Current # Accounts /\ Current # DemoBudget
    BY <1>2, <1>9, StagesByName DEF Current
  <2>2. Row(Accounts, 1) \in rows' => Row(Accounts, 1) \in rows \/ n = 35 \/ n = 36
    <3>1. Row(Accounts, 1) = Row(Current, item) => Script[n].table = "accounts"
      BY <1>2, RowsOfTables, AccountsFields DEF Current
    <3> QED
      BY <1>1, <1>9, <3>1, FillersOf
  <2> QED
    BY <1>1, <1>2, <1>4, <1>5, <1>9, <2>1, <2>2, BudgetElsewhere
<1> QED
  BY <1>7, <1>8, <1>9

LEMMA BudgetDeletes ==
  ASSUME PackInv, BudgetInv, DeleteRows
  PROVE  BudgetInv'
<1>1. /\ stage # 0 /\ Current.how \in {"purge", "clear"} /\ NextStage /\ rows' \subseteq rows
      /\ \A r : r \in rows /\ r.table \notin Current.tables => r \in rows'
      /\ UNCHANGED <<expense, budgetAccount, cutShort>>
  BY DEF DeleteRows, Deleted, RowsIn
<1>2. PICK n \in 1 .. 51 : stage = n
  BY <1>1 DEF PackInv, RunTyped
<1>3. (n < 51 /\ stage' = n + 1) \/ (n = 51 /\ stage' = 0)
  BY <1>1, <1>2, StageMoves
<1>4. n # 34 /\ n # 43
  BY <1>1, <1>2, StagesByName, AccountsFields DEF Current
<1>5. "accounts" \notin Current.tables /\ "budgets" \notin Current.tables
  <2>1. Script[34].how = "fill" /\ Script[43].how = "fill"
    BY StagesByName, AccountsFields
  <2>2. /\ 34 \in 1 .. 51 /\ Script[34].how \in {"fill", "grant"}
        /\ 43 \in 1 .. 51 /\ Script[43].how \in {"fill", "grant"}
    BY <2>1
  <2>3. Script[n].how \in {"purge", "clear"}
    BY <1>1, <1>2 DEF Current
  <2>4. Script[34].table \notin Script[n].tables
    BY <2>2, <2>3, FillsStay
  <2>5. Script[43].table \notin Script[n].tables
    BY <2>2, <2>3, FillsStay
  <2> QED
    BY <1>2, <2>4, <2>5, FilledTables DEF Current
<1>6. Own("accounts") \in rows => Own("accounts") \in rows'
  BY <1>1, <1>5, RowsOfTables
<1>7. Vacant("budgets")' => Vacant("budgets")
  BY <1>1, <1>5 DEF Vacant, RowsIn
<1> QED
  BY <1>1, <1>2, <1>3, <1>4, <1>6, <1>7, BudgetElsewhere

LEMMA BudgetSeed ==
  ASSUME PackInv, BudgetInv, SeedStep
  PROVE  BudgetInv'
<1>1. CASE BeginRun
  <2>1. stage = 0 /\ stage' = 1 /\ UNCHANGED <<rows, budgetAccount, cutShort>>
    BY <1>1 DEF BeginRun
  <2>2. ~Between(0) /\ ~Between(1)
    BY DEF Between
  <2>3. Vacant("budgets")' => Vacant("budgets")
    BY <2>1 DEF Vacant, RowsIn
  <2> QED
    BY <2>1, <2>2, <2>3, BudgetKept
<1>2. CASE RaiseError
  <2>1. /\ stage' = 0 /\ rows' = rows /\ cutShort' = cutShort \cup {stage}
        /\ budgetAccount' = budgetAccount
    BY <1>2 DEF RaiseError
  <2> QED
    BY <2>1, BudgetIsCut
<1>3. CASE GrantAccesses
  <2>1. /\ stage # 0 /\ Current = AccessGrants /\ NextStage
        /\ rows' = rows \cup {Access(k) : k \in Kitchen}
        /\ UNCHANGED <<expense, budgetAccount, cutShort>>
    BY <1>3 DEF GrantAccesses
  <2>2. stage = 12
    BY <2>1, StagesByName DEF PackInv, RunTyped, Current
  <2>3. stage' = 13
    BY <2>1, <2>2, ScriptLength DEF NextStage
  <2>4. ~Between(stage) /\ ~Between(stage')
    BY <2>2, <2>3 DEF Between
  <2>5. Row(Accounts, 1) \in rows' => Row(Accounts, 1) \in rows
    BY <2>1, AccessRows, RowsOfTables, AccountsFields
  <2>6. Vacant("budgets")' => Vacant("budgets")
    BY <2>1 DEF Vacant, RowsIn
  <2> QED
    BY <2>1, <2>4, <2>5, <2>6, BudgetKept
<1> QED
  BY <1>1, <1>2, <1>3, BudgetLeavesFilled, BudgetWrites, BudgetDeletes DEF SeedStep

LEMMA BudgetStep ==
  ASSUME RevisionInv, PackInv, BudgetInv, [DeploymentNext]_deploymentVars
  PROVE  BudgetInv'
<1>1. CASE UNCHANGED deploymentVars
  BY <1>1 DEF deploymentVars, seedVars, BudgetInv, Excused, Vacant, RowsIn
<1> QED
  BY <1>1, BudgetSeed, BudgetDisturb, BudgetBetweenRuns DEF Seed

LEMMA BudgetAtFirst == DeploymentInit => BudgetInv
  BY NoneIsNoAccount DEF DeploymentInit, SeedInit, BudgetInv, Between
-----------------------------------------------------------------------------
(***************************************************************************)
(* The theorems.                                                           *)
(***************************************************************************)

DeploymentInv == RevisionInv /\ PackInv /\ AccessInv /\ BudgetInv

LEMMA DeploymentInvAlways == DeploymentSpec => []DeploymentInv
<1>1. DeploymentInit => DeploymentInv
  BY RevisionAtFirst, PackAtFirst, AccessAtFirst, BudgetAtFirst DEF DeploymentInv
<1>2. DeploymentInv /\ [DeploymentNext]_deploymentVars => DeploymentInv'
  BY RevisionStep, PackStep, AccessStep, BudgetStep DEF DeploymentInv
<1> QED
  BY <1>1, <1>2, PTL DEF DeploymentSpec

(***************************************************************************)
(* Whatever commands of Alembic led to a revision, and in whatever order,  *)
(* the schema is the one the upgrades alone make (alembic/versions).  That *)
(* each revision takes back what it did is ChainIsReversible, which TLC    *)
(* evaluates on the chain; from it, this follows for every path.           *)
(***************************************************************************)
THEOREM SchemaStaysDesigned == DeploymentSpec => []SchemaFollowsRevision
<1>1. RevisionInv => SchemaFollowsRevision
  <2> SUFFICES ASSUME RevisionInv
               PROVE  schema # {None} /\ schema = Designed[revision]
    BY DEF SchemaFollowsRevision
  <2>1. CASE revision = 0
    BY <2>1, DesignStarts DEF RevisionInv
  <2>2. CASE revision # 0
    <3>1. revision \in 1 .. Latest
      BY <2>2, LatestIsNat DEF RevisionInv
    <3> QED
      BY <3>1, ChainIsReversible DEF RevisionInv
  <2> QED
    BY <2>1, <2>2
<1> QED
  BY <1>1, DeploymentInvAlways, PTL DEF DeploymentInv

(***************************************************************************)
(* A run of seed_demo_data.py that finishes leaves the whole pack, however *)
(* many runs were killed before it and wherever, whatever rows the         *)
(* operators added and whatever migrations and administration came         *)
(* between, and for any number of rows a stage makes; only the serving of  *)
(* a first meal plan that the operators' own kept out is missing.          *)
(***************************************************************************)
THEOREM PackIsWhole == DeploymentSpec => []WholePack
<1>1. PackInv => WholePack
  BY ScriptLength DEF PackInv, FinishedComplete, Complete, Written, Missing, WholePack
<1> QED
  BY <1>1, DeploymentInvAlways, PTL DEF DeploymentInv

(***************************************************************************)
(* No run of seed_demo_data.py fails for what an earlier run, a kill or a  *)
(* migration left: only operators' accounts make it fail, or a driver, a   *)
(* vehicle type or an asset category of theirs that looks like the earlier *)
(* pack's and is in use.                                                   *)
(***************************************************************************)
THEOREM FailuresAreOwn == DeploymentSpec => []FailureNeedsOwnRows
<1>1. PackInv => FailureNeedsOwnRows
  BY DEF PackInv
<1> QED
  BY <1>1, DeploymentInvAlways, PTL DEF DeploymentInv

(***************************************************************************)
(* seed_demo_data.py puts the demo budget on an account that is not the    *)
(* one of the material costs only after a run was killed or failed between *)
(* the two stages, or where the operators had accounts of their own.       *)
(***************************************************************************)
THEOREM BudgetSlipsOnlyByCut == DeploymentSpec => []BudgetSlipsNeedsCut
<1>1. BudgetInv => BudgetSlipsNeedsCut
  BY PositionsByName DEF BudgetInv, Excused, Between, BudgetSlipsNeedsCut
<1> QED
  BY <1>1, DeploymentInvAlways, PTL DEF DeploymentInv

(***************************************************************************)
(* For any number of kitchens and of requests to IdentityService that      *)
(* overlap, a user's active kitchen is one the user has access to, unless  *)
(* what counts was written by a request that another had overtaken.        *)
(***************************************************************************)
THEOREM ActiveKitchenStaysOpen == DeploymentSpec => []ActiveKitchenIsOpen
<1>1. AccessInv => ActiveKitchenIsOpen
  BY DEF AccessInv
<1> QED
  BY <1>1, DeploymentInvAlways, PTL DEF DeploymentInv
-----------------------------------------------------------------------------
(***************************************************************************)
(* The channel: what holds of its rows and of what its sessions hold.      *)
(***************************************************************************)
\* Rows are numbered from one, without a gap.
Numbered(row) == \E k \in Nat : Existing(row) = 1 .. k

\* Every accepted key has its sync log.
Logged == \A n \in Existing(message) : log[message[n].key] # None

Done == Existing(event) \ PendingEvents

\* What was answered is done, and was answered after what came before.
Answered ==
    \A a \in Existing(answer) :
        answer[a].events \subseteq Done /\ answer[a].before \subseteq Existing(answer)

\* A dispatcher holds nothing that was answered before it looked.
Fresh(row) ==
    /\ row.events \subseteq Existing(event)
    /\ row.before \subseteq Existing(answer)
    /\ \A a \in row.before : row.events \cap answer[a].events = {}

ChannelInv ==
    /\ ChannelTypeOK
    /\ Numbered(message) /\ Numbered(answer)
    /\ Existing(event) = Existing(message)
    /\ Logged
    /\ Answered
    /\ \A s \in Session : Kind(s) = "dispatch" => Fresh(session[s].row)
    /\ DispatchedTwiceNeedsOverlap
-----------------------------------------------------------------------------
\* The number of a new row is not in use.
LEMMA NextNumber ==
    ASSUME NEW row, Numbered(row)
    PROVE  LET n == Cardinality(Existing(row)) + 1 IN
           /\ n \in Nat /\ n \notin Existing(row)
           /\ Existing(row) \cup {n} = 1 .. n
<1>1. PICK k \in Nat : Existing(row) = 1 .. k
  BY DEF Numbered
<1>2. Cardinality(1 .. k) = k
  BY <1>1, FS_Interval
<1>3. 1 .. k \cup {k + 1} = 1 .. k + 1
  BY <1>1
<1> QED
  BY <1>1, <1>2, <1>3

LEMMA InitEstablishes == Init => ChannelInv
<1> SUFFICES ASSUME Init PROVE ChannelInv
  OBVIOUS
<1>1. ChannelTypeOK
  BY DEF Init, ChannelTypeOK
<1>2. /\ Existing(message) = {} /\ Existing(event) = {} /\ Existing(answer) = {}
      /\ \A s \in Session : Kind(s) = None
  BY DEF Init, Existing, Kind
<1>3. {} = 1 .. 0 /\ 0 \in Nat
  OBVIOUS
<1>4. Numbered(message) /\ Numbered(answer)
  BY <1>2, <1>3 DEF Numbered
<1>5. \A s \in Session : Kind(s) # "dispatch"
  BY NoneIsNoRow DEF Init, Kind
<1> QED
  BY <1>1, <1>2, <1>4, <1>5 DEF ChannelInv, Logged, Answered, DispatchedTwiceNeedsOverlap

\* What a session holds is a request, or nothing.
LEMMA Held ==
    ASSUME ChannelTypeOK, NEW s \in Session, session[s] # None
    PROVE  /\ session[s] \in Pending /\ Kind(s) = session[s].kind
           /\ Kind(s) = "message" => session[s].row \in MessageRow
           /\ Kind(s) = "log" => session[s].direction \in Direction /\ session[s].key \in Key
           /\ Kind(s) = "dispatch" => session[s].row \in AnswerRow
<1>1. session[s] \in Pending /\ Kind(s) = session[s].kind
  BY DEF ChannelTypeOK, Kind
<1> QED
  BY <1>1 DEF Pending

\* A session whose kind is known holds something.
LEMMA Known ==
    ASSUME NEW s \in Session, Kind(s) \in {"message", "log", "dispatch"}
    PROVE  session[s] # None
  BY NoneIsNoRow DEF Kind

LEMMA TypesStep == ChannelTypeOK /\ [Next]_vars => ChannelTypeOK'
<1> SUFFICES ASSUME ChannelTypeOK, [Next]_vars PROVE ChannelTypeOK'
  OBVIOUS
<1>1. ASSUME NEW s \in Session, NEW direction \in Direction, NEW key \in Key, NEW by \in BOOLEAN,
             BeginMessage(s, direction, key, by)
      PROVE  ChannelTypeOK'
  <2>1. [kind |-> "message", row |-> [direction |-> direction, key |-> key, by |-> by]] \in Pending
    BY DEF Pending, MessageRow
  <2> QED
    BY <1>1, <2>1 DEF ChannelTypeOK, BeginMessage, Holds
<1>2. ASSUME NEW s \in Session, NEW direction \in Direction, NEW key \in Key,
             BeginLog(s, direction, key)
      PROVE  ChannelTypeOK'
  <2>1. [kind |-> "log", direction |-> direction, key |-> key] \in Pending
    BY DEF Pending
  <2> QED
    BY <1>2, <2>1 DEF ChannelTypeOK, BeginLog, Holds
<1>3. ASSUME NEW s \in Session, NEW limit \in Limits, NEW by \in BOOLEAN, BeginDispatch(s, limit, by)
      PROVE  ChannelTypeOK'
  <2> DEFINE row == [events |-> Newest(Listed, limit), before |-> Existing(answer)]
  <2>1. Newest(Listed, limit) \subseteq MessageId /\ Existing(answer) \subseteq AnswerId
    BY DEF Newest, Listed, PendingEvents, Existing, ChannelTypeOK
  <2>2. row \in AnswerRow
    BY <2>1 DEF AnswerRow
  <2>3. [kind |-> "dispatch", by |-> by, row |-> row] \in Pending
    BY <2>2 DEF Pending
  <2> QED
    BY <1>3, <2>3 DEF ChannelTypeOK, BeginDispatch, Holds
<1>4. ASSUME NEW s \in Session, CommitMessage(s) PROVE ChannelTypeOK'
  <2> DEFINE row == session[s].row
             n == Cardinality(Existing(message)) + 1
  <2>1. row \in MessageRow /\ row.key \in Key /\ row.direction \in Direction
    BY <1>4, Known, Held DEF CommitMessage, MessageRow
  <2>2. message' \in [MessageId -> MessageRow \cup {None}]
    BY <1>4, <2>1 DEF CommitMessage, ChannelTypeOK
  <2>3. log' \in [Key -> Direction \cup {None}]
    BY <1>4, <2>1 DEF CommitMessage, ChannelTypeOK
  <2>4. [status |-> "PENDING", retry_count |-> 0] \in EventRow
    BY DEF EventRow
  <2>5. event' \in [MessageId -> EventRow \cup {None}]
    BY <1>4, <2>4 DEF CommitMessage, ChannelTypeOK
  <2>6. job' \in {"READY", "SUCCESS"}
    BY <1>4 DEF CommitMessage, JobAfter, ChannelTypeOK
  <2>7. session' \in [Session -> Pending \cup {None}]
    BY <1>4 DEF CommitMessage, Ends, ChannelTypeOK
  <2> QED
    BY <1>4, <2>2, <2>3, <2>5, <2>6, <2>7 DEF CommitMessage, ChannelTypeOK
<1>5. ASSUME NEW s \in Session, CommitLog(s) PROVE ChannelTypeOK'
  <2>1. session[s].direction \in Direction
    BY <1>5, Known, Held DEF CommitLog
  <2> QED
    BY <1>5, <2>1 DEF CommitLog, Ends, ChannelTypeOK
<1>6. ASSUME NEW s \in Session, CommitDispatch(s) PROVE ChannelTypeOK'
  <2>1. session[s].row \in AnswerRow
    BY <1>6, Known, Held DEF CommitDispatch
  <2>2. answer' \in [AnswerId -> AnswerRow \cup {None}]
    BY <1>6, <2>1 DEF CommitDispatch, ChannelTypeOK
  <2>3. [status |-> "DISPATCHED", retry_count |-> 1] \in EventRow
    BY DEF EventRow
  <2>4. event' \in [MessageId -> EventRow \cup {None}]
    BY <1>6, <2>3 DEF CommitDispatch, ChannelTypeOK
  <2> QED
    BY <1>6, <2>2, <2>4 DEF CommitDispatch, Ends, ChannelTypeOK
<1>7. ASSUME NEW s \in Session, Disconnect(s) PROVE ChannelTypeOK'
  BY <1>7 DEF Disconnect, Ends, ChannelTypeOK
<1>8. CASE UNCHANGED vars
  BY <1>8 DEF vars, ChannelTypeOK
<1> QED
  BY <1>1, <1>2, <1>3, <1>4, <1>5, <1>6, <1>7, <1>8 DEF Next

-----------------------------------------------------------------------------
\* A session takes up or lays down a request; nothing is committed.
LEMMA SessionsOnly ==
    ASSUME ChannelInv, [Next]_vars, UNCHANGED <<message, log, event, answer>>,
           NEW s \in Session, NEW held, session' = [session EXCEPT ![s] = held],
           held = None \/ held.kind # "dispatch" \/ Fresh(held.row)
    PROVE  ChannelInv'
<1>1. ChannelTypeOK /\ ChannelTypeOK'
  BY TypesStep DEF ChannelInv
<1>2. /\ Existing(message)' = Existing(message) /\ Existing(event)' = Existing(event)
      /\ Existing(answer)' = Existing(answer) /\ PendingEvents' = PendingEvents
  BY DEF Existing, PendingEvents
<1>3. ASSUME NEW t \in Session, Kind(t)' = "dispatch" PROVE Fresh(session[t].row)'
  <2>1. session'[t] = IF t = s THEN held ELSE session[t]
    BY <1>1 DEF ChannelTypeOK
  <2>2. session'[t] # None /\ session'[t].kind = "dispatch"
    BY <1>3, NoneIsNoRow DEF Kind
  <2>3. Fresh(session'[t].row)
    BY <2>1, <2>2 DEF ChannelInv, Kind
  <2> QED
    BY <2>3, <1>2 DEF Fresh
<1> QED
  BY <1>1, <1>2, <1>3 DEF ChannelInv, Numbered, Logged, Answered, Done, DispatchedTwiceNeedsOverlap

LEMMA BeginDispatchKeeps ==
    ASSUME ChannelInv, [Next]_vars, NEW s \in Session, NEW limit \in Limits, NEW by \in BOOLEAN,
           BeginDispatch(s, limit, by)
    PROVE  ChannelInv'
<1> DEFINE row == [events |-> Newest(Listed, limit), before |-> Existing(answer)]
<1>1. row.events \subseteq PendingEvents /\ PendingEvents \subseteq Existing(event)
  BY DEF Newest, Listed, PendingEvents
<1>2. \A a \in Existing(answer) : row.events \cap answer[a].events = {}
  BY <1>1 DEF ChannelInv, Answered, Done
<1>3. Fresh(row)
  BY <1>1, <1>2 DEF Fresh
<1> QED
  BY <1>3, SessionsOnly DEF BeginDispatch, Holds

LEMMA CommitMessageKeeps ==
    ASSUME ChannelInv, [Next]_vars, NEW s \in Session, CommitMessage(s)
    PROVE  ChannelInv'
<1> DEFINE row == session[s].row
           n == Cardinality(Existing(message)) + 1
<1>1. ChannelTypeOK /\ ChannelTypeOK'
  BY TypesStep DEF ChannelInv
<1>2. CASE KeyTaken(row)
  BY <1>2, SessionsOnly DEF CommitMessage, Ends
<1>3. CASE ~KeyTaken(row)
  <2>1. /\ message' = [message EXCEPT ![n] = row]
        /\ log' = [log EXCEPT ![row.key] = row.direction]
        /\ event' = [event EXCEPT ![n] = [status |-> "PENDING", retry_count |-> 0]]
        /\ session' = [session EXCEPT ![s] = None]
        /\ answer' = answer
    BY <1>3 DEF CommitMessage, Ends
  <2>2. row \in MessageRow /\ row.key \in Key /\ row.direction \in Direction
    BY <1>1, Known, Held DEF CommitMessage, MessageRow
  <2>3. /\ n \in Nat /\ n \notin Existing(message)
        /\ Existing(message) \cup {n} = 1 .. n
    BY NextNumber DEF ChannelInv
  <2>4. row # None /\ [status |-> "PENDING", retry_count |-> 0] # None /\ row.direction # None
    BY <2>2, NoneIsNoRow DEF EventRow
  <2>5. /\ Existing(message)' = Existing(message) \cup ({n} \cap MessageId)
        /\ Existing(event)' = Existing(message)'
        /\ \A m \in Existing(event) : event'[m] = event[m]
    BY <1>1, <2>1, <2>3, <2>4 DEF Existing, ChannelTypeOK, ChannelInv
  <2>6. Existing(answer)' = Existing(answer)
    BY <2>1 DEF Existing
  <2>7. Numbered(message)'
    <3>1. CASE n \in MessageId
      BY <3>1, <2>3, <2>5 DEF Numbered
    <3>2. CASE n \notin MessageId
      BY <3>2, <2>5 DEF Numbered, ChannelInv
    <3> QED
      BY <3>1, <3>2
  <2>8. Logged'
    <3> SUFFICES ASSUME NEW m \in Existing(message)' PROVE log'[message'[m].key] # None
      BY DEF Logged
    <3>1. message'[m] = IF m = n THEN row ELSE message[m]
      BY <1>1, <2>1, <2>5 DEF ChannelTypeOK, Existing
    <3>2. \A k \in Key : log'[k] = IF k = row.key THEN row.direction ELSE log[k]
      BY <1>1, <2>1 DEF ChannelTypeOK
    <3>3. CASE m = n
      BY <3>1, <3>2, <3>3, <2>2, <2>4
    <3>4. CASE m # n
      <4>1. m \in Existing(message) /\ message'[m] = message[m] /\ message[m] \in MessageRow
        BY <3>1, <3>4, <2>5, <1>1 DEF ChannelTypeOK, Existing
      <4>2. message[m].key \in Key /\ log[message[m].key] # None
        BY <4>1 DEF ChannelInv, Logged, MessageRow
      <4> QED
        BY <4>1, <4>2, <3>2, <2>4
    <3> QED
      BY <3>3, <3>4
  <2>9. Done \subseteq Done' /\ Existing(event) \subseteq Existing(event)'
    BY <2>5 DEF Done, PendingEvents, ChannelInv
  <2>10. Answered'
    BY <2>1, <2>6, <2>9 DEF Answered, ChannelInv
  <2>11. ASSUME NEW t \in Session, Kind(t)' = "dispatch" PROVE Fresh(session[t].row)'
    <3>1. session'[t] # None /\ session'[t] = session[t] /\ Kind(t) = "dispatch"
      BY <1>1, <2>1, <2>11, NoneIsNoRow DEF Kind, ChannelTypeOK
    <3> QED
      BY <3>1, <2>1, <2>6, <2>9 DEF Fresh, ChannelInv
  <2>12. Numbered(answer)' /\ DispatchedTwiceNeedsOverlap'
    BY <2>1, <2>6 DEF ChannelInv, Numbered, DispatchedTwiceNeedsOverlap
  <2> QED
    BY <1>1, <2>5, <2>7, <2>8, <2>10, <2>11, <2>12 DEF ChannelInv
<1> QED
  BY <1>2, <1>3

LEMMA CommitLogKeeps ==
    ASSUME ChannelInv, [Next]_vars, NEW s \in Session, CommitLog(s)
    PROVE  ChannelInv'
<1>1. ChannelTypeOK /\ ChannelTypeOK'
  BY TypesStep DEF ChannelInv
<1>2. /\ Existing(message)' = Existing(message) /\ Existing(event)' = Existing(event)
      /\ Existing(answer)' = Existing(answer) /\ PendingEvents' = PendingEvents
      /\ UNCHANGED <<message, event, answer>>
  BY DEF Existing, PendingEvents, CommitLog
<1>3. \A k \in Key : log[k] # None => log'[k] # None
  BY <1>1 DEF CommitLog, ChannelTypeOK
<1>4. \A m \in Existing(message) : message[m].key \in Key
  BY <1>1 DEF ChannelTypeOK, Existing, MessageRow
<1>5. Logged'
  BY <1>2, <1>3, <1>4 DEF Logged, ChannelInv
<1>6. ASSUME NEW t \in Session, Kind(t)' = "dispatch" PROVE Fresh(session[t].row)'
  <2>1. session'[t] = session[t] /\ Kind(t) = "dispatch"
    BY <1>1, <1>6, NoneIsNoRow DEF Kind, ChannelTypeOK, CommitLog, Ends
  <2> QED
    BY <2>1, <1>2 DEF Fresh, ChannelInv
<1> QED
  BY <1>1, <1>2, <1>5, <1>6 DEF ChannelInv, Numbered, Answered, Done, DispatchedTwiceNeedsOverlap

\* The answer is new: nothing that was read before can have come after it, and
\* what was answered before it was read is not in it.
LEMMA CommitDispatchKeeps ==
    ASSUME ChannelInv, [Next]_vars, NEW s \in Session, CommitDispatch(s)
    PROVE  ChannelInv'
<1> DEFINE row == session[s].row
           a == Cardinality(Existing(answer)) + 1
<1>1. ChannelTypeOK /\ ChannelTypeOK'
  BY TypesStep DEF ChannelInv
<1>2. row \in AnswerRow /\ row # None /\ Fresh(row)
  <2>1. row \in AnswerRow /\ Kind(s) = "dispatch"
    BY <1>1, Known, Held DEF CommitDispatch
  <2> QED
    BY <2>1, NoneIsNoRow DEF ChannelInv
<1>3. /\ \A n \in MessageId : event'[n] = IF n \in row.events
                                        THEN [status |-> "DISPATCHED", retry_count |-> 1] ELSE event[n]
      /\ session' = [session EXCEPT ![s] = None]
      /\ UNCHANGED <<message, log>>
  BY DEF CommitDispatch, Ends
<1>4. [status |-> "DISPATCHED", retry_count |-> 1] # None
  BY NoneIsNoRow DEF EventRow
<1>5. /\ Existing(event)' = Existing(event) /\ Existing(message)' = Existing(message)
      /\ Done \cup row.events \subseteq Done'
  BY <1>1, <1>2, <1>3, <1>4 DEF Existing, ChannelTypeOK, Done, PendingEvents, Fresh
<1>6. Logged' /\ Numbered(message)'
  BY <1>3, <1>5 DEF Logged, Numbered, ChannelInv
<1>7. /\ Existing(answer) \subseteq Existing(answer)'
      /\ \A b \in Existing(answer) : answer'[b] = answer[b]
      /\ Numbered(answer)' /\ Answered' /\ DispatchedTwiceNeedsOverlap'
  <2>1. CASE row.events = {}
    <3>1. answer' = answer /\ Existing(answer)' = Existing(answer)
      BY <2>1 DEF CommitDispatch, Existing
    <3> QED
      BY <3>1, <1>5 DEF ChannelInv, Numbered, Answered, DispatchedTwiceNeedsOverlap
  <2>2. CASE row.events # {}
    <3>1. a <= MaxAnswers /\ answer' = [answer EXCEPT ![a] = row]
      BY <2>2 DEF CommitDispatch
    <3>2. a \in Nat /\ a \notin Existing(answer) /\ Existing(answer) \cup {a} = 1 .. a
      BY NextNumber DEF ChannelInv
    <3>3. a \in AnswerId
      BY <3>1, <3>2, ChannelBounds DEF AnswerId
    <3>4. /\ Existing(answer)' = Existing(answer) \cup {a}
          /\ answer'[a] = row
          /\ \A b \in Existing(answer) : answer'[b] = answer[b]
      BY <1>1, <1>2, <3>1, <3>2, <3>3 DEF Existing, ChannelTypeOK
    <3>5. Numbered(answer)'
      BY <3>2, <3>4 DEF Numbered
    <3>6. Answered'
      BY <3>4, <1>2, <1>5 DEF Answered, ChannelInv, Fresh
    <3>7. ASSUME NEW b \in Existing(answer), row.events \cap answer[b].events # {}
          PROVE  b \notin row.before /\ a \notin answer[b].before
      BY <3>7, <3>2, <1>2 DEF Fresh, ChannelInv, Answered
    <3>8. DispatchedTwiceNeedsOverlap'
      <4> SUFFICES ASSUME NEW b \in Existing(answer)', NEW c \in Existing(answer)',
                          b # c, answer'[b].events \cap answer'[c].events # {}
                   PROVE  b \notin answer'[c].before /\ c \notin answer'[b].before
        BY DEF DispatchedTwiceNeedsOverlap
      <4>1. CASE b = a
        <5>1. c \in Existing(answer) /\ row.events \cap answer[c].events # {}
          BY <4>1, <3>4
        <5> QED
          BY <5>1, <4>1, <3>4, <3>7
      <4>2. CASE c = a
        <5>1. b \in Existing(answer) /\ row.events \cap answer[b].events # {}
          BY <4>2, <3>4
        <5> QED
          BY <5>1, <4>2, <3>4, <3>7
      <4>3. CASE b # a /\ c # a
        BY <4>3, <3>4 DEF ChannelInv, DispatchedTwiceNeedsOverlap
      <4> QED
        BY <4>1, <4>2, <4>3
    <3> QED
      BY <3>4, <3>5, <3>6, <3>8
  <2> QED
    BY <2>1, <2>2
<1>8. ASSUME NEW t \in Session, Kind(t)' = "dispatch" PROVE Fresh(session[t].row)'
  <2>1. session'[t] = session[t] /\ Kind(t) = "dispatch"
    BY <1>1, <1>3, <1>8, NoneIsNoRow DEF Kind, ChannelTypeOK
  <2>2. Fresh(session[t].row)
    BY <2>1 DEF ChannelInv
  <2> QED
    BY <2>1, <2>2, <1>5, <1>7 DEF Fresh
<1>9. Existing(event)' = Existing(message)'
  BY <1>5 DEF ChannelInv
<1> QED
  BY <1>1, <1>6, <1>7, <1>8, <1>9 DEF ChannelInv

LEMMA InvStep == ChannelInv /\ [Next]_vars => ChannelInv'
<1> SUFFICES ASSUME ChannelInv, [Next]_vars PROVE ChannelInv'
  OBVIOUS
<1>1. ASSUME NEW s \in Session, NEW direction \in Direction, NEW key \in Key, NEW by \in BOOLEAN,
             BeginMessage(s, direction, key, by)
      PROVE  ChannelInv'
  <2> DEFINE held == [kind |-> "message", row |-> [direction |-> direction, key |-> key, by |-> by]]
  <2>1. session' = [session EXCEPT ![s] = held] /\ held.kind # "dispatch"
    BY <1>1 DEF BeginMessage, Holds
  <2> QED
    BY <1>1, <2>1, SessionsOnly DEF BeginMessage
<1>2. ASSUME NEW s \in Session, NEW direction \in Direction, NEW key \in Key,
             BeginLog(s, direction, key)
      PROVE  ChannelInv'
  <2> DEFINE held == [kind |-> "log", direction |-> direction, key |-> key]
  <2>1. session' = [session EXCEPT ![s] = held] /\ held.kind # "dispatch"
    BY <1>2 DEF BeginLog, Holds
  <2> QED
    BY <1>2, <2>1, SessionsOnly DEF BeginLog
<1>3. ASSUME NEW s \in Session, Disconnect(s) PROVE ChannelInv'
  BY <1>3, SessionsOnly DEF Disconnect, Ends
<1>4. CASE UNCHANGED vars
  BY <1>4 DEF vars, ChannelInv, ChannelTypeOK, Numbered, Logged, Answered, Done, Fresh, Kind,
              Existing, PendingEvents, DispatchedTwiceNeedsOverlap
<1> QED
  BY <1>1, <1>2, <1>3, <1>4, BeginDispatchKeeps, CommitMessageKeeps, CommitLogKeeps,
     CommitDispatchKeeps DEF Next

LEMMA InvAlways == Spec => []ChannelInv
<1> QED
  BY InitEstablishes, InvStep, PTL DEF Spec
-----------------------------------------------------------------------------
(***************************************************************************)
(* Messages, sync logs, events, answers and what the sessions hold keep    *)
(* their types, whichever requests overlap or are lost.                    *)
(***************************************************************************)
THEOREM ChannelTypes == Spec => []ChannelTypeOK
<1>1. ChannelInv => ChannelTypeOK
  BY DEF ChannelInv
<1> QED
  BY <1>1, InvAlways, PTL

(***************************************************************************)
(* Two dispatches that answered the same event overlapped, for any number  *)
(* of dispatchers: dispatch_pending reads PENDING events only, and marks   *)
(* them in the transaction that answers.                                   *)
(***************************************************************************)
THEOREM TwiceNeedsOverlap == Spec => []DispatchedTwiceNeedsOverlap
<1>1. ChannelInv => DispatchedTwiceNeedsOverlap
  BY DEF ChannelInv
<1> QED
  BY <1>1, InvAlways, PTL

-----------------------------------------------------------------------------
Carrying(k) == {n \in Existing(message) : message[n].key = k}

\* What MessageOnce sees of the channel.
promised ==
    <<[k \in Key |-> Cardinality(Carrying(k))], KeysOf(Existing(event)),
      KeysOf(Existing(event) \ PendingEvents)>>

\* A committed message is an acceptance of its key.
LEMMA CommitMessageMaps ==
    ASSUME ChannelInv, [Next]_vars, NEW s \in Session, CommitMessage(s)
    PROVE  [Once!Next]_promised
<1> DEFINE row == session[s].row
           n == Cardinality(Existing(message)) + 1
           accepted == [k \in Key |-> Cardinality(Carrying(k))]
<1>1. ChannelTypeOK /\ ChannelTypeOK'
  BY TypesStep DEF ChannelInv
<1>2. CASE KeyTaken(row)
  <2>1. UNCHANGED <<message, event>>
    BY <1>2 DEF CommitMessage
  <2> QED
    BY <2>1 DEF promised, Carrying, KeysOf, Existing, PendingEvents
<1>3. CASE ~KeyTaken(row)
  <2>1. /\ message' = [message EXCEPT ![n] = row]
        /\ event' = [event EXCEPT ![n] = [status |-> "PENDING", retry_count |-> 0]]
    BY <1>3 DEF CommitMessage
  <2>2. row \in MessageRow /\ row.key \in Key
    BY <1>1, Known, Held DEF CommitMessage, MessageRow
  <2>3. n \in Nat /\ n \notin Existing(message) /\ n \notin Existing(event)
    BY NextNumber DEF ChannelInv
  <2>4. row # None /\ [status |-> "PENDING", retry_count |-> 0] # None
    BY <2>2, NoneIsNoRow DEF EventRow
  <2>5. \A m \in Existing(message) : message[m].key # row.key
    BY <1>3 DEF KeyTaken, ChannelInv, Logged
  <2>6. CASE n \in MessageId
    <3>1. /\ Existing(message)' = Existing(message) \cup {n}
          /\ Existing(event)' = Existing(event) \cup {n}
          /\ PendingEvents' = PendingEvents \cup {n}
          /\ message'[n] = row
          /\ \A m \in Existing(message) : message'[m] = message[m]
      BY <1>1, <2>1, <2>3, <2>4, <2>6 DEF Existing, PendingEvents, ChannelTypeOK
    <3>2. \A k \in Key : Carrying(k)' = IF k = row.key THEN {n} ELSE Carrying(k)
      BY <3>1, <2>3, <2>5 DEF Carrying
    <3>3. Carrying(row.key) = {}
      BY <2>5 DEF Carrying
    <3>4. Cardinality({}) = 0 /\ Cardinality({n}) = 1
      BY FS_EmptySet, FS_Singleton
    <3>5. accepted[row.key] = 0 /\ accepted' = [accepted EXCEPT ![row.key] = 1]
      BY <2>2, <3>2, <3>3, <3>4
    <3>6. KeysOf(Existing(event))' = KeysOf(Existing(event)) \cup {row.key}
      BY <3>1, <2>3 DEF KeysOf, ChannelInv
    <3>7. KeysOf(Existing(event) \ PendingEvents)' = KeysOf(Existing(event) \ PendingEvents)
      BY <3>1, <2>3 DEF KeysOf, ChannelInv
    <3>8. Once!Accept(row.key)
      BY <3>5, <3>6, <3>7 DEF Once!Accept, Carrying
    <3> QED
      BY <3>8, <2>2 DEF Once!Next
  <2>7. CASE n \notin MessageId
    <3>1. UNCHANGED <<message, event>>
      BY <1>1, <2>1, <2>7 DEF ChannelTypeOK
    <3> QED
      BY <3>1 DEF promised, Carrying, KeysOf, Existing, PendingEvents
  <2> QED
    BY <2>6, <2>7
<1> QED
  BY <1>2, <1>3

\* A committed dispatch is a dispatch of its keys, some of them perhaps again.
LEMMA CommitDispatchMaps ==
    ASSUME ChannelInv, [Next]_vars, NEW s \in Session, CommitDispatch(s)
    PROVE  [Once!Next]_promised
<1> DEFINE row == session[s].row
           keys == KeysOf(row.events)
<1>1. ChannelTypeOK
  BY DEF ChannelInv
<1>2. row \in AnswerRow /\ Fresh(row)
  BY <1>1, Known, Held DEF CommitDispatch, ChannelInv
<1>3. /\ event' = [n \in MessageId |->
            IF n \in row.events THEN [status |-> "DISPATCHED", retry_count |-> 1] ELSE event[n]]
      /\ message' = message
  BY DEF CommitDispatch
<1>4. [status |-> "DISPATCHED", retry_count |-> 1] # None
  BY NoneIsNoRow DEF EventRow
<1>5. Existing(event)' = Existing(event) /\ Existing(message)' = Existing(message)
  BY <1>1, <1>2, <1>3, <1>4 DEF Existing, ChannelTypeOK, Fresh
<1>6. PendingEvents' = PendingEvents \ row.events
  BY <1>1, <1>2, <1>3, <1>5 DEF PendingEvents, Existing, ChannelTypeOK, Fresh
<1>7. UNCHANGED <<[k \in Key |-> Cardinality(Carrying(k))], KeysOf(Existing(event))>>
  BY <1>3, <1>5 DEF Carrying, KeysOf
<1>8. CASE row.events = {}
  BY <1>3, <1>5, <1>6, <1>7, <1>8 DEF promised, KeysOf
<1>9. CASE row.events # {}
  <2>1. keys # {} /\ keys \subseteq KeysOf(Existing(event))
    BY <1>2, <1>9 DEF KeysOf, Fresh
  <2>2. KeysOf(Existing(event) \ PendingEvents)' = KeysOf(Existing(event) \ PendingEvents) \cup keys
    BY <1>2, <1>3, <1>5, <1>6 DEF KeysOf, Fresh
  <2>3. keys \in SUBSET Key
    <3>1. \A n \in row.events : message[n] \in MessageRow
      BY <1>1, <1>2 DEF Fresh, ChannelInv, ChannelTypeOK, Existing
    <3> QED
      BY <3>1 DEF KeysOf, MessageRow
  <2>4. Once!Dispatch(keys)
    BY <2>1, <2>2, <1>7 DEF Once!Dispatch, Carrying
  <2> QED
    BY <2>3, <2>4 DEF Once!Next
<1> QED
  BY <1>8, <1>9

LEMMA StepMaps == ChannelInv /\ [Next]_vars => [Once!Next]_promised
<1> SUFFICES ASSUME ChannelInv, [Next]_vars PROVE [Once!Next]_promised
  OBVIOUS
<1>1. ASSUME UNCHANGED <<message, event>> PROVE UNCHANGED promised
  BY <1>1 DEF promised, Carrying, KeysOf, Existing, PendingEvents
<1>2. CASE \E s \in Session : CommitMessage(s)
  BY <1>2, CommitMessageMaps
<1>3. CASE \E s \in Session : CommitDispatch(s)
  BY <1>3, CommitDispatchMaps
<1>4. CASE UNCHANGED vars
  BY <1>1, <1>4 DEF vars
<1>5. CASE \E s \in Session :
              \/ \E direction \in Direction, key \in Key, by \in BOOLEAN :
                    BeginMessage(s, direction, key, by)
              \/ \E direction \in Direction, key \in Key : BeginLog(s, direction, key)
              \/ \E limit \in Limits, by \in BOOLEAN : BeginDispatch(s, limit, by)
              \/ CommitLog(s)
              \/ Disconnect(s)
  BY <1>1, <1>5 DEF BeginMessage, BeginLog, BeginDispatch, CommitLog, Disconnect
<1> QED
  BY <1>2, <1>3, <1>4, <1>5 DEF Next

(***************************************************************************)
(* The channel implements MessageOnce: however requests with one key       *)
(* overlap, the unique constraints let one message of it through, and the  *)
(* message is announced in the same transaction.                           *)
(***************************************************************************)
THEOREM KeysAreAcceptedOnce == Spec => AcceptsOnce
<1>1. Init => Once!Init
  <2> SUFFICES ASSUME Init PROVE Once!Init
    OBVIOUS
  <2>1. Existing(message) = {} /\ Existing(event) = {}
    BY DEF Init, Existing
  <2> QED
    BY <2>1, FS_EmptySet DEF Once!Init, KeysOf
<1>2. ChannelInv /\ [Next]_vars =>
        [Once!Next]_<<[k \in Key |-> Cardinality({n \in Existing(message) : message[n].key = k})],
                      KeysOf(Existing(event)), KeysOf(Existing(event) \ PendingEvents)>>
  BY StepMaps DEF promised, Carrying
<1> QED
  BY <1>1, <1>2, InvAlways, PTL DEF Spec, AcceptsOnce, Once!Spec
=============================================================================
