-------------------------- MODULE SchemaMigrations --------------------------
(***************************************************************************)
(* The schema of the database as the 40 Alembic revisions of               *)
(* alembic/versions make and unmake it. A revision names itself and the    *)
(* one it revises, and is a pair of scripts: the statements of its         *)
(* upgrade() and those of its downgrade(), in the order of the file. A     *)
(* statement makes or drops a table or columns of a table; foreign keys    *)
(* are kept with what declares them, because PostgreSQL refuses to drop a  *)
(* table another one still refers to, and to make a reference to a table   *)
(* that is not there. Plain columns of a new table, indexes and the names  *)
(* of constraints are left out, and dropping a key's constraint and its    *)
(* column is one statement.                                                *)
(***************************************************************************)
EXTENDS Tables, Sequences

\* The column that stands for the table itself.
Whole == "*"

(***************************************************************************)
(* The statements.  All but a few tables refer to tenants.                 *)
(***************************************************************************)
CreateFree(t, refs) ==
  [make |-> TRUE, table |-> t, columns |-> {Whole}, targets |-> refs]

Create(t, refs) == CreateFree(t, refs \cup {"tenants"})

AddColumns(t, cs) ==
  [make |-> TRUE, table |-> t, columns |-> cs, targets |-> {}]

AddKey(t, c, target) ==
  [make |-> TRUE, table |-> t, columns |-> {c}, targets |-> {target}]

DropColumns(t, cs) ==
  [make |-> FALSE, table |-> t, columns |-> cs, targets |-> {}]

Drop(t) == DropColumns(t, {Whole})

(***************************************************************************)
(* A schema is the set of its parts: tables, later columns, and the tables *)
(* each of them refers to.  None is the schema of a refused script.        *)
(***************************************************************************)
TablesOf(schema) == {p.table : p \in {q \in schema \ {None} : q.column = Whole}}

PartsOf(s) ==
  {[table |-> s.table, column |-> c, targets |-> s.targets] : c \in s.columns}

Named(schema, s) ==
  {p \in schema : p.table = s.table /\ p.column \in s.columns}

Applies(schema, s) ==
  IF s.make
  THEN /\ Named(schema, s) = {}
       /\ s.targets \subseteq TablesOf(schema) \cup {s.table}
       /\ Whole \in s.columns \/ s.table \in TablesOf(schema)
  ELSE /\ {p.column : p \in Named(schema, s)} = s.columns
       /\ Whole \in s.columns
            => \A p \in schema : s.table \in p.targets => p.table = s.table

Dropped(schema, s) ==
  IF Whole \in s.columns THEN {p \in schema : p.table = s.table} ELSE Named(schema, s)

\* What the statements before position i of a script have made and dropped.
Before(schema, script, i) ==
  (schema \cup UNION {PartsOf(script[j]) : j \in {k \in 1 .. i - 1 : script[k].make}})
    \ UNION {Dropped(schema, script[j]) : j \in {k \in 1 .. i - 1 : ~script[k].make}}

\* A script is run as a whole, or refused at the first statement that does not apply.
Run(schema, script) ==
  IF /\ schema # {None}
     /\ \A i \in 1 .. Len(script) : Applies(Before(schema, script, i), script[i])
  THEN Before(schema, script, Len(script) + 1)
  ELSE {None}

(***************************************************************************)
(* The revisions.                                                          *)
(***************************************************************************)
\* Revision 20260719_1900, initial foundation.
InitialFoundation ==
  [id   |-> "20260719_1900", revises |-> None,
   up   |-> <<CreateFree("tenants", {}), Create("sppg", {})>>,
   down |-> <<Drop("sppg"), Drop("tenants")>>]

\* Revision 20260719_1925, add users table.
AddUsersTable ==
  [id   |-> "20260719_1925", revises |-> "20260719_1900",
   up   |-> <<Create("users", {})>>,
   down |-> <<Drop("users")>>]

\* Revision 20260719_2005, add schools and beneficiaries.
AddSchoolsAndBeneficiaries ==
  [id   |-> "20260719_2005", revises |-> "20260719_1925",
   up   |-> <<Create("schools", {}), Create("beneficiaries", {"schools"})>>,
   down |-> <<Drop("beneficiaries"), Drop("schools")>>]

\* Revision 20260719_2045, add uom product recipe meal plan.
AddUomProductRecipeMealPlan ==
  [id   |-> "20260719_2045", revises |-> "20260719_2005",
   up   |-> <<Create("uoms", {}), Create("products", {"uoms"}),
              Create("recipes", {"products", "uoms"}), Create("meal_plans", {"recipes", "sppg"})>>,
   down |-> <<Drop("meal_plans"), Drop("recipes"), Drop("products"), Drop("uoms")>>]

\* Revision 20260719_2115, add recipe lines.
AddRecipeLines ==
  [id   |-> "20260719_2115", revises |-> "20260719_2045",
   up   |-> <<Create("recipe_lines", {"products", "recipes", "uoms"})>>,
   down |-> <<Drop("recipe_lines")>>]

\* Revision 20260719_2230, add inventory foundation.
AddInventoryFoundation ==
  [id   |-> "20260719_2230", revises |-> "20260719_2115",
   up   |-> <<Create("warehouses", {"sppg"}),
              Create("inventory_transactions", {"products", "sppg", "uoms", "users", "warehouses"}),
              Create("inventory_balances", {"products", "sppg", "warehouses"})>>,
   down |-> <<Drop("inventory_balances"), Drop("inventory_transactions"), Drop("warehouses")>>]

\* Revision 20260719_2345, add procurement purchase requests.
AddProcurementPurchaseRequests ==
  [id   |-> "20260719_2345", revises |-> "20260719_2230",
   up   |-> <<Create("purchase_requests", {"meal_plans", "sppg"}),
              Create("purchase_request_lines", {"products", "purchase_requests", "uoms"})>>,
   down |-> <<Drop("purchase_request_lines"), Drop("purchase_requests")>>]

\* Revision 20260720_0015, add goods receipts.
AddGoodsReceipts ==
  [id   |-> "20260720_0015", revises |-> "20260719_2345",
   up   |-> <<Create("goods_receipts", {"purchase_requests", "sppg", "warehouses"}),
              Create("goods_receipt_lines", {"goods_receipts", "products",
                  "purchase_request_lines", "uoms"})>>,
   down |-> <<Drop("goods_receipt_lines"), Drop("goods_receipts")>>]

\* Revision 20260720_0115, add production orders.
AddProductionOrders ==
  [id   |-> "20260720_0115", revises |-> "20260720_0015",
   up   |-> <<Create("production_orders", {"meal_plans", "sppg"}),
              Create("production_material_consumptions", {"production_orders", "products",
                  "uoms", "warehouses"})>>,
   down |-> <<Drop("production_material_consumptions"), Drop("production_orders")>>]

\* Revision 20260720_0215, add delivery orders.
AddDeliveryOrders ==
  [id   |-> "20260720_0215", revises |-> "20260720_0115",
   up   |-> <<Create("delivery_orders", {"production_orders", "schools", "sppg"}),
              Create("delivery_proofs", {"delivery_orders"})>>,
   down |-> <<Drop("delivery_proofs"), Drop("delivery_orders")>>]

\* Revision 20260720_0330, add budget and accounting foundation.
AddBudgetAndAccountingFoundation ==
  [id   |-> "20260720_0330", revises |-> "20260720_0215",
   up   |-> <<Create("accounts", {}), Create("journal_entries", {"users"}),
              Create("journal_lines", {"accounts", "journal_entries"}),
              Create("budgets", {"users"}), Create("budget_lines", {"accounts", "budgets"})>>,
   down |-> <<Drop("budget_lines"), Drop("budgets"), Drop("journal_lines"),
              Drop("journal_entries"), Drop("accounts")>>]

\* Revision 20260720_0415, add supplier invoices.
AddSupplierInvoices ==
  [id   |-> "20260720_0415", revises |-> "20260720_0330",
   up   |-> <<Create("supplier_invoices", {"accounts", "goods_receipts", "sppg"}),
              Create("supplier_invoice_lines", {"goods_receipt_lines", "products",
                  "supplier_invoices", "uoms"})>>,
   down |-> <<Drop("supplier_invoice_lines"), Drop("supplier_invoices")>>]

\* The defaults the invoice tables were created without; a changed column counts as one more column.
FixSupplierInvoiceDefaults ==
  [id   |-> "20260720_0420", revises |-> "20260720_0415",
   up   |-> <<AddColumns("supplier_invoices", {"default_key", "default_times"}),
              AddColumns("supplier_invoice_lines", {"default_key", "default_times"})>>,
   down |-> <<DropColumns("supplier_invoice_lines", {"default_key", "default_times"}),
              DropColumns("supplier_invoices", {"default_key", "default_times"})>>]

\* Revision 20260720_0430, add supplier payments.
AddSupplierPayments ==
  [id   |-> "20260720_0430", revises |-> "20260720_0420",
   up   |-> <<Create("supplier_payments", {"accounts", "sppg", "supplier_invoices"})>>,
   down |-> <<Drop("supplier_payments")>>]

\* Revision 20260720_0445, expand sppg location fields.
ExpandSppgLocationFields ==
  [id   |-> "20260720_0445", revises |-> "20260720_0430",
   up   |-> <<AddColumns("sppg", {"address", "province", "district", "village",
                  "service_radius_meter", "timezone", "is_active"})>>,
   down |-> <<DropColumns("sppg", {"is_active", "timezone", "service_radius_meter", "village",
                  "district", "province", "address"})>>]

\* Revision 20260720_0455, add active sppg id to users.
AddActiveSppgIdToUsers ==
  [id   |-> "20260720_0455", revises |-> "20260720_0445",
   up   |-> <<AddKey("users", "active_sppg_id", "sppg")>>,
   down |-> <<DropColumns("users", {"active_sppg_id"})>>]

\* Revision 20260720_0505, add user sppg access.
AddUserSppgAccess ==
  [id   |-> "20260720_0505", revises |-> "20260720_0455",
   up   |-> <<Create("user_sppg_access", {"sppg", "users"})>>,
   down |-> <<Drop("user_sppg_access")>>]

\* Revision 20260720_0515, add program management foundation.
AddProgramManagementFoundation ==
  [id   |-> "20260720_0515", revises |-> "20260720_0505",
   up   |-> <<CreateFree("programs", {}), CreateFree("program_periods", {"programs"}),
              Create("program_tenants", {"programs"}),
              Create("program_sppg", {"programs", "sppg"})>>,
   down |-> <<Drop("program_sppg"), Drop("program_tenants"), Drop("program_periods"),
              Drop("programs")>>]

\* Revision 20260720_0525, add quality control foundation.
AddQualityControlFoundation ==
  [id   |-> "20260720_0525", revises |-> "20260720_0515",
   up   |-> <<Create("qc_inspections", {"sppg"}),
              Create("qc_inspection_lines", {"qc_inspections"})>>,
   down |-> <<Drop("qc_inspection_lines"), Drop("qc_inspections")>>]

\* Revision 20260720_0535, add workflow foundation.
AddWorkflowFoundation ==
  [id   |-> "20260720_0535", revises |-> "20260720_0525",
   up   |-> <<Create("workflow_definitions", {}),
              Create("workflow_transitions", {"workflow_definitions"}),
              Create("workflow_instances", {"workflow_definitions"}),
              Create("workflow_history", {"users", "workflow_instances"})>>,
   down |-> <<Drop("workflow_history"), Drop("workflow_instances"),
              Drop("workflow_transitions"), Drop("workflow_definitions")>>]

\* Revision 20260720_0545, add audit foundation.
AddAuditFoundation ==
  [id   |-> "20260720_0545", revises |-> "20260720_0535",
   up   |-> <<Create("audit_events", {"sppg", "users"})>>,
   down |-> <<Drop("audit_events")>>]

\* Revision 20260720_0555, add document management foundation.
AddDocumentManagementFoundation ==
  [id   |-> "20260720_0555", revises |-> "20260720_0545",
   up   |-> <<Create("documents", {}), Create("document_versions", {"documents"}),
              Create("document_links", {"documents"})>>,
   down |-> <<Drop("document_links"), Drop("document_versions"), Drop("documents")>>]

\* Revision 20260720_0605, add integration foundation.
AddIntegrationFoundation ==
  [id   |-> "20260720_0605", revises |-> "20260720_0555",
   up   |-> <<Create("external_systems", {}),
              Create("integration_credentials", {"external_systems"}),
              Create("sync_logs", {"external_systems"})>>,
   down |-> <<Drop("sync_logs"), Drop("integration_credentials"), Drop("external_systems")>>]

\* Revision 20260720_0615, add costing foundation.
AddCostingFoundation ==
  [id   |-> "20260720_0615", revises |-> "20260720_0605",
   up   |-> <<Create("cost_policies", {"sppg"})>>,
   down |-> <<Drop("cost_policies")>>]

\* Revision 20260720_0625, add notification foundation.
AddNotificationFoundation ==
  [id   |-> "20260720_0625", revises |-> "20260720_0615",
   up   |-> <<Create("notification_templates", {}),
              Create("notifications", {"notification_templates", "sppg"}),
              Create("notification_recipients", {"notifications", "users"}),
              Create("notification_deliveries", {"notification_recipients", "notifications"}),
              Create("notification_preferences", {"users"})>>,
   down |-> <<Drop("notification_preferences"), Drop("notification_deliveries"),
              Drop("notification_recipients"), Drop("notifications"),
              Drop("notification_templates")>>]

\* Revision 20260720_0635, add government claim foundation.
AddGovernmentClaimFoundation ==
  [id   |-> "20260720_0635", revises |-> "20260720_0625",
   up   |-> <<Create("government_claims", {"programs", "sppg"}),
              Create("government_claim_lines", {"delivery_orders", "government_claims",
                  "production_orders"}),
              Create("claim_evidences", {"documents", "government_claims"}),
              Create("claim_verifications", {"government_claims"}),
              Create("claim_adjustments", {"government_claims"}),
              Create("claim_payments", {"government_claims", "journal_entries"})>>,
   down |-> <<Drop("claim_payments"), Drop("claim_adjustments"), Drop("claim_verifications"),
              Drop("claim_evidences"), Drop("government_claim_lines"), Drop("government_claims")>>]

\* Revision 20260720_0645, add workforce foundation: first who works where.
EmployeeTables ==
  <<Create("positions", {}), Create("employees", {"positions"}),
    Create("employee_assignments", {"employees", "sppg"}),
    Create("work_shifts", {"employee_assignments", "employees", "sppg"})>>

AddWorkforceFoundation ==
  [id   |-> "20260720_0645", revises |-> "20260720_0635",
   up   |-> EmployeeTables \o
            <<Create("attendances", {"employees", "sppg", "work_shifts"}),
              Create("timesheets", {"employees", "sppg"}),
              Create("labor_costs", {"employees", "sppg", "timesheets"})>>,
   down |-> <<Drop("labor_costs"), Drop("timesheets"), Drop("attendances"), Drop("work_shifts"),
              Drop("employee_assignments"), Drop("employees"), Drop("positions")>>]

\* Revision 20260720_0655, add funding foundation.
AddFundingFoundation ==
  [id   |-> "20260720_0655", revises |-> "20260720_0645",
   up   |-> <<Create("funding_sources", {}), Create("funding_agreements", {"funding_sources"}),
              Create("funding_disbursements", {"accounts", "funding_agreements",
                  "journal_entries", "sppg"}),
              Create("funding_repayments", {"funding_agreements", "journal_entries"})>>,
   down |-> <<Drop("funding_repayments"), Drop("funding_disbursements"),
              Drop("funding_agreements"), Drop("funding_sources")>>]

\* Revision 20260720_0705, add fleet foundation.
AddFleetFoundation ==
  [id   |-> "20260720_0705", revises |-> "20260720_0655",
   up   |-> <<Create("vehicle_types", {}), Create("drivers", {}),
              Create("vehicles", {"sppg", "vehicle_types"}),
              Create("vehicle_assignments", {"drivers", "sppg", "vehicles"}),
              Create("vehicle_maintenances", {"sppg", "vehicles"})>>,
   down |-> <<Drop("vehicle_maintenances"), Drop("vehicle_assignments"), Drop("vehicles"),
              Drop("drivers"), Drop("vehicle_types")>>]

\* Revision 20260720_0715, add feedback foundation.
AddFeedbackFoundation ==
  [id   |-> "20260720_0715", revises |-> "20260720_0705",
   up   |-> <<Create("feedback_submissions", {"delivery_orders", "meal_plans", "schools", "sppg"}),
              Create("feedback_items", {"feedback_submissions"}),
              Create("complaints", {"feedback_submissions", "sppg"}),
              Create("service_quality_scores", {"sppg"})>>,
   down |-> <<Drop("service_quality_scores"), Drop("complaints"), Drop("feedback_items"),
              Drop("feedback_submissions")>>]

\* Revision 20260720_0725, add asset foundation.
AddAssetFoundation ==
  [id   |-> "20260720_0725", revises |-> "20260720_0715",
   up   |-> <<Create("asset_categories", {"accounts"}),
              Create("assets", {"asset_categories", "sppg"}),
              Create("asset_assignments", {"assets", "sppg"}),
              Create("asset_depreciations", {"assets", "journal_entries", "sppg"})>>,
   down |-> <<Drop("asset_depreciations"), Drop("asset_assignments"), Drop("assets"),
              Drop("asset_categories")>>]

\* Revision 20260720_0735, add ai foundation.
AddAiFoundation ==
  [id   |-> "20260720_0735", revises |-> "20260720_0725",
   up   |-> <<Create("ai_forecasts", {"sppg"}), Create("ai_recommendations", {"sppg"}),
              Create("ai_daily_summaries", {"sppg"})>>,
   down |-> <<Drop("ai_daily_summaries"), Drop("ai_recommendations"), Drop("ai_forecasts")>>]

\* Revision 20260720_0745, add postgis foundation.
AddPostgisFoundation ==
  [id   |-> "20260720_0745", revises |-> "20260720_0735",
   up   |-> <<AddColumns("sppg", {"location"}), AddColumns("schools", {"location"}),
              Create("service_areas", {"sppg"})>>,
   down |-> <<Drop("service_areas"), DropColumns("schools", {"location"}),
              DropColumns("sppg", {"location"})>>]

\* Positions become geometries and a service area may have several parts.
AlignPostgisGeometryModel ==
  [id   |-> "20260720_0815", revises |-> "20260720_0745",
   up   |-> <<AddColumns("sppg", {"location_as_geometry"}),
              AddColumns("schools", {"location_as_geometry"}),
              AddColumns("service_areas", {"boundary_as_multipolygon"})>>,
   down |-> <<DropColumns("service_areas", {"boundary_as_multipolygon"}),
              DropColumns("schools", {"location_as_geometry"}),
              DropColumns("sppg", {"location_as_geometry"})>>]

\* Revision 20260720_0905, expand procurement inventory foundation: first the purchasing.
PurchasingTables ==
  <<AddColumns("products", {"track_batch", "track_expiry", "minimum_stock",
        "maximum_stock", "reorder_point", "valuation_method"}),
    Create("suppliers", {}),
    Create("supplier_products", {"products", "suppliers", "uoms"}),
    Create("supplier_price_histories", {"supplier_products"}),
    Create("purchase_orders", {"purchase_requests", "sppg", "suppliers"}),
    Create("purchase_order_lines", {"products", "purchase_orders",
        "purchase_request_lines", "uoms"})>>

ExpandProcurementInventoryFoundation ==
  [id   |-> "20260720_0905", revises |-> "20260720_0815",
   up   |-> PurchasingTables \o
            <<Create("stock_locations", {"sppg", "stock_locations", "warehouses"}),
              Create("inventory_batches", {"products", "stock_locations", "suppliers",
                  "warehouses"}),
              AddKey("goods_receipts", "purchase_order_id", "purchase_orders"),
              AddKey("goods_receipt_lines", "purchase_order_line_id", "purchase_order_lines"),
              AddKey("inventory_transactions", "batch_id", "inventory_batches"),
              AddKey("inventory_transactions", "source_location_id", "stock_locations"),
              AddKey("inventory_transactions", "destination_location_id", "stock_locations"),
              AddKey("inventory_balances", "location_id", "stock_locations")>>,
   down |-> <<DropColumns("inventory_balances", {"location_id"}),
              DropColumns("inventory_transactions", {"destination_location_id",
                  "source_location_id", "batch_id"}),
              DropColumns("goods_receipt_lines", {"purchase_order_line_id"}),
              DropColumns("goods_receipts", {"purchase_order_id"}), Drop("inventory_batches"),
              Drop("stock_locations"), Drop("purchase_order_lines"), Drop("purchase_orders"),
              Drop("supplier_price_histories"), Drop("supplier_products"), Drop("suppliers"),
              DropColumns("products", {"valuation_method", "reorder_point", "maximum_stock",
                  "minimum_stock", "track_expiry", "track_batch"})>>]

\* Revision 20260720_1015, expand delivery distribution routes.
ExpandDeliveryDistributionRoutes ==
  [id   |-> "20260720_1015", revises |-> "20260720_0905",
   up   |-> <<Create("delivery_routes", {"sppg"}),
              AddKey("delivery_orders", "route_id", "delivery_routes"),
              Create("delivery_route_stops", {"delivery_orders", "delivery_routes", "schools"}),
              Create("delivery_incidents", {"delivery_orders", "delivery_route_stops",
                  "delivery_routes"}),
              AddKey("delivery_proofs", "route_id", "delivery_routes"),
              AddKey("delivery_proofs", "route_stop_id", "delivery_route_stops"),
              AddColumns("delivery_proofs", {"condition_status", "photo_urls", "signature_name",
                  "signature_url", "signature_signed_at", "incident_notes",
                  "linked_incident_ids"})>>,
   down |-> <<DropColumns("delivery_proofs", {"linked_incident_ids", "incident_notes",
                  "signature_signed_at", "signature_url", "signature_name", "photo_urls",
                  "condition_status", "route_stop_id", "route_id"}),
              Drop("delivery_incidents"), Drop("delivery_route_stops"),
              DropColumns("delivery_orders", {"route_id"}), Drop("delivery_routes")>>]

\* Revision 20260720_1045, expand integration message processing.
ExpandIntegrationMessageProcessing ==
  [id   |-> "20260720_1045", revises |-> "20260720_1015",
   up   |-> <<Create("webhook_subscriptions", {"external_systems"}),
              Create("data_mappings", {"external_systems"}),
              Create("sync_jobs", {"external_systems"}),
              Create("inbound_messages", {"external_systems", "webhook_subscriptions"}),
              Create("outbound_messages", {"external_systems", "sync_jobs"})>>,
   down |-> <<Drop("outbound_messages"), Drop("inbound_messages"), Drop("sync_jobs"),
              Drop("data_mappings"), Drop("webhook_subscriptions")>>]

\* Revision 20260720_1115, add platform ops outbox read models.
AddPlatformOpsOutboxReadModels ==
  [id   |-> "20260720_1115", revises |-> "20260720_1045",
   up   |-> <<Create("outbox_events", {}), Create("background_jobs", {}),
              Create("daily_kitchen_operation_summaries", {"sppg"}),
              Create("monthly_budget_realization_summaries", {}),
              CreateFree("mv_delivery_performance_summary", {"delivery_orders"})>>,
   down |-> <<Drop("mv_delivery_performance_summary"),
              Drop("monthly_budget_realization_summaries"),
              Drop("daily_kitchen_operation_summaries"), Drop("background_jobs"),
              Drop("outbox_events")>>]

\* Revision 20260720_1135, expand workflow bounded context.
ExpandWorkflowBoundedContext ==
  [id   |-> "20260720_1135", revises |-> "20260720_1115",
   up   |-> <<Create("workflow_versions", {"workflow_definitions"}),
              Create("workflow_states", {"workflow_versions"}),
              Create("workflow_actions", {"workflow_versions"}),
              AddKey("workflow_instances", "workflow_version_id", "workflow_versions"),
              Create("approval_requests", {"users", "workflow_instances"}),
              Create("approval_decisions", {"approval_requests", "users"}),
              AddKey("workflow_history", "approval_request_id", "approval_requests")>>,
   down |-> <<DropColumns("workflow_history", {"approval_request_id"}),
              Drop("approval_decisions"), Drop("approval_requests"),
              DropColumns("workflow_instances", {"workflow_version_id"}),
              Drop("workflow_actions"), Drop("workflow_states"), Drop("workflow_versions")>>]

\* Revision 20260720_1205, add vehicle location tracking.
AddVehicleLocationTracking ==
  [id   |-> "20260720_1205", revises |-> "20260720_1135",
   up   |-> <<Create("vehicle_locations", {"sppg", "vehicle_assignments", "vehicles"})>>,
   down |-> <<Drop("vehicle_locations")>>]

(***************************************************************************)
(* The chain of down_revision, oldest first, and what the commands         *)
(* "alembic upgrade" and "alembic downgrade" do to a schema: the scripts   *)
(* between two positions of the chain, in one transaction, so that a       *)
(* refused statement undoes the whole command.                             *)
(***************************************************************************)
Chain ==
  << InitialFoundation, AddUsersTable, AddSchoolsAndBeneficiaries,
     AddUomProductRecipeMealPlan, AddRecipeLines, AddInventoryFoundation,
     AddProcurementPurchaseRequests, AddGoodsReceipts, AddProductionOrders,
     AddDeliveryOrders, AddBudgetAndAccountingFoundation, AddSupplierInvoices,
     FixSupplierInvoiceDefaults, AddSupplierPayments, ExpandSppgLocationFields,
     AddActiveSppgIdToUsers, AddUserSppgAccess, AddProgramManagementFoundation,
     AddQualityControlFoundation, AddWorkflowFoundation, AddAuditFoundation,
     AddDocumentManagementFoundation, AddIntegrationFoundation, AddCostingFoundation,
     AddNotificationFoundation, AddGovernmentClaimFoundation, AddWorkforceFoundation,
     AddFundingFoundation, AddFleetFoundation, AddFeedbackFoundation, AddAssetFoundation,
     AddAiFoundation, AddPostgisFoundation, AlignPostgisGeometryModel,
     ExpandProcurementInventoryFoundation, ExpandDeliveryDistributionRoutes,
     ExpandIntegrationMessageProcessing, AddPlatformOpsOutboxReadModels,
     ExpandWorkflowBoundedContext, AddVehicleLocationTracking >>

\* One line of revisions, without a branch.
ASSUME ChainIsLinked ==
  \A r \in 1 .. Len(Chain) :
     Chain[r].revises = IF r = 1 THEN None ELSE Chain[r - 1].id

Latest == Len(Chain)

Upgraded(schema, from, to) ==
  LET after[r \in from .. to] ==
        IF r = from THEN schema ELSE Run(after[r - 1], Chain[r].up)
  IN  after[to]

Downgraded(schema, from, to) ==
  LET after[r \in to .. from] ==
        IF r = from THEN schema ELSE Run(after[r + 1], Chain[r + 1].down)
  IN  after[to]

\* The positions after which the users have an active kitchen, and the table of accesses exists.
ActiveKitchenSince ==
  CHOOSE r \in 1 .. Latest : Chain[r] = AddActiveSppgIdToUsers
AccessesSince ==
  CHOOSE r \in 1 .. Latest : Chain[r] = AddUserSppgAccess
=============================================================================
