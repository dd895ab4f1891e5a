# A verification project for the ERP MBG backend

The repository is a FastAPI backend for kitchens (SPPG) that cook school meals:
stock, meal plans, production, procurement, budgets, approvals, delivery, claims
and their accounting, for many tenants on one PostgreSQL database. The TLA+
modules here model its core, from goods receipt to meal to the government's
payment, its messages to other systems, and how its database is built and
filled; TLC checks them on small instances and TLAPS proves what matters most
for every instance.

Paths below are relative to `src/app/` of the repository unless they say otherwise.

## 1. Inventory

Every request runs in one SQLAlchemy session (`core/database/session.py`:
no autoflush, objects kept after commit). A route calls one service method,
which reads rows, checks statuses, writes rows, and the route commits once at
the end. A raised exception drops the session uncommitted. There is no row lock
(`SELECT ... FOR UPDATE`), no version column, no retry: what overlapping
requests may do to each other is decided by PostgreSQL at READ COMMITTED and by
the unique constraints. There are no background threads in the core; components
interact by calling each other's services within one session, through shared
rows, and through document statuses that other services check. Beside the
application stand the chain of migrations (`src/alembic`) and the script that
fills a database with a demo pack (`src/scripts/seed_demo_data.py`).

| Component | State | Operations | Hard behaviour | What makes it correct |
|---|---|---|---|---|
| Stock (`modules/inventory`) | balances per warehouse and product, transaction ledger, batches, locations | batch creation, inbound, outbound, transfer, FEFO preview | overlapping read-compute-write of a balance; three figures kept in step by four writers; batches moved whole | balances cover themselves, reconcile with the ledger, previews can be issued |
| Meal plan (`modules/meal_plan`) | plan status | create, submit, approve, reserve | reservation walks several balances; status and workflow move apart | stock is set aside once, and only for approved plans |
| Production (`modules/production`) | orders, consumptions | create from plan, complete | consumes reservations of any plan; two deductions of one draw | consumption is drawn from reservations and accounted |
| Workflow (`modules/workflow`) | definitions, versions, transitions, instances, requests, decisions | define, version, transition, apply, request, decide | late or repeated decisions, definitions changed under running documents | one active version, one pending request, no approval without a decision, rejection is final |
| Budget (`modules/budget`) | budget status, amounts per line | create, submit, approve, reserve, commit, actualise | no limit at any charge; every line of an account is charged; each step releases a minimum of two amounts | every charge stays in sight of the availability; a receipt releases its own reservation |
| Session (`core/database`) | transaction, row locks | begin, flush, commit, roll back | lock order, deadlock, disconnects | every request ends; only stale writes lose updates |
| Procurement (`modules/procurement`) | requisition, order, receipt, invoice, payment | each created from the one before | missing status guards (an order may be received twice) | documents and journals agree; one invoice per receipt, one payment per invoice, unless requests overlap |
| Accounting (`modules/accounting`) | accounts, journals | create, post, operational journal | posted by other services in their transaction | every posted journal balances |
| Quality (`modules/quality`) | inspections and lines | create, add line, finalise, release check | a finalised inspection can be finalised again; lines and verdicts overlap | nothing is released that failed |
| Delivery (`modules/delivery`) | orders, routes and stops, proofs, incidents | release, plan a route, record a proof, record an incident | late or repeated proofs, routes written from what was loaded | a delivery is received once and shows the portions of one proof |
| Claims (`modules/government_claim`) | claims, lines, adjustments, payments | create, submit, verify, adjust, pay | decisions committed behind payments; one journal source for all payments of a claim | what is paid was judged, is what was paid out, and is no more than due |
| Funding (`modules/funding`) | agreements, disbursements, repayments | disburse, repay | check-then-write against a limit | no over-disbursement, closed means repaid |
| Integration, outbox, jobs (`modules/integration`, `core/outbox`, `modules/platform_ops`) | messages, sync logs, events, jobs | receive, send, sync, dispatch | duplicates, lost answers, two dispatchers | a key is accepted once, announced with it, dispatched in the end |
| Migrations (`src/alembic`) | schema, revision | upgrade, downgrade | forty scripts undone in an order foreign keys allow; data in a table made anew | the revision tells the schema |
| Demo seed (`src/scripts`) | rows of every table | one run of some fifty stages | killed between two commits, run again among the operators' rows; rows passed over, deletes refused | a finished run leaves the pack, and only rows of the operators make one fail |
| Assets, fleet | assignments, depreciations, trips | add, list | a depreciation checks what remains, then inserts | a book value that never falls below zero |
| Identity (`modules/identity`) | users, accesses to kitchens, the active kitchen | switch, set accesses, authorise | a switch and an update of the accesses overlap | the active kitchen is an accessible one |
| Tenancy | tenant context | resolve | scope checked per service method | no write outside the scope |
| Notifications, master data, reporting, GIS, AI, documents, feedback, workforce, programmes | rows | create, list, aggregate | none worth a model | - |

`PROJECT.json` lists every component with its status, and every hazard at its line.

## 2. Modules

| Module | Models | Uses |
|---|---|---|
| `Tables` | absent rows (`None`), sums over columns | |
| `StockPromise` | abstract: an item holds stock and promises; nothing is issued or promised that is not free | |
| `StockLedger` | `StockService`: balances, ledger, batches, one request at a time | `Tables` |
| `StockFefo` | the FEFO preview over the batches `StockLedger` leaves | `StockLedger` |
| `ApprovalWorkflow` | `WorkflowService` with the meal plans and budgets it governs | `Tables` |
| `KitchenCycle` | reservation and production over both | `StockLedger`, `ApprovalWorkflow`; implements `StockPromise` |
| `StockBalances` | the balance rows of one product: what they ought to sum up, who locks them, who waits | `Tables` |
| `StockSessions` | overlapping requests on the balances of one product | `StockBalances` |
| `BudgetLedger` | `BudgetService`: what is reserved, committed and spent on budget lines | `Tables` |
| `Procurement` | `ProcurementService`, from a shortage to a payment, with the journals it posts | `StockLedger`, `BudgetLedger` |
| `SettlementSessions` | overlapping requests that check, count and insert: invoices, payments, disbursements and repayments | `Tables` |
| `ServingCycle` | `QualityService` and `DeliveryService` in overlapping sessions | `Tables` |
| `GovernmentClaims` | `GovernmentClaimService` in overlapping sessions, with the journal of a payment | `Tables` |
| `MessageOnce` | abstract: a key is accepted once, announced in the same step, then dispatched | |
| `IntegrationChannel` | `IntegrationService`, `OutboxService` and the dispatch job of `PlatformOpsService` | `Tables`; implements `MessageOnce` |
| `SchemaMigrations` | the forty Alembic revisions, up and down | `Tables` |
| `DemoSeed` | the seed script, killed and run again | `Tables` |
| `UserAccess` | the kitchens of a user of `IdentityService`, in overlapping requests | `DemoSeed` |
| `Deployment` | an installation brought up, seeded, used, taken back and up again | `SchemaMigrations`, `UserAccess` |
| `MC*` | constants of the runs | the module they are named after |
| `TablesProofs` | lemmas about sums over columns | `Tables` |
| `StockLedgerProofs` | theorems about `StockLedger` and the preview over it | `StockFefo`, `TablesProofs` |
| `ServingCycleProofs`, `GovernmentClaimsProofs` | theorems | the module they are named after, `TablesProofs` |
| `SessionsProofs` | theorems about `SettlementSessions` and, as its instance `Stock`, `StockSessions` | `TablesProofs`, `StockBalances` |
| `KitchenCycleProofs` | theorems about `ApprovalWorkflow` and `KitchenCycle` | `StockLedgerProofs` |
| `ProcurementProofs` | theorems about `BudgetLedger` and `Procurement` | `StockLedgerProofs` |
| `PlatformProofs` | theorems about `Deployment` and, in its last part, `IntegrationChannel` | `TablesProofs` |

**StockLedger.** `balance[i]` is the `inventory_balances` row of an item (a
warehouse and a product): `onHand`, `reserved`, `available` are its three
quantity columns. `posted[i]` is the `inventory_transactions` of the item, in
minus out. `batch[b]` is an `inventory_batches` row. `PostInbound`,
`PostOutbound` and `PostTransfer` are the three branches of
`StockService.create_transaction`, with its checks as guards (same warehouse,
batch exists and holds the product, batch blocked, stock available, batch
available) and its writes to balance, ledger and batch. A check that raises has
no successor: the session is dropped. Two checks sit after writes in the code
(stock and batch shortage); they are guards here because the transaction undoes
the writes. `CreateBatch` is `create_batch`, whose quantity comes from the
payload, may be negative and enters no balance.

**ApprovalWorkflow.** `status` is the business status a document carries itself;
`definition[t]` the transitions of a document type, keyed by from-state and
action; `version[t]` the versions with their active flag; `instance[d]` the
workflow state; `approval[a]` the requests. `Apply` is `apply_transition`:
expected state, transition of the definition, then either a pending request
(gated) or the move. `CreateDocument` is the whole of `create_meal_plan` /
`create_budget`: it first completes a definition an administrator may have
written (`EnsuredTransitions`), makes its first version if there is none
(`EnsureVersion`) and opens the instance in DRAFT (`EnsureInstance`), while the
status of a meal plan comes from the payload. `Submit`, `Approve`,
`MarkReserved`, `RequestManualApproval`, `Decide`, `CreateDefinition`,
`CreateVersion`, `AddTransition` are the methods of those names. What is written
and never read (history, states and actions of a version) is left out, as are
inactive definitions, which every query skips.

**KitchenCycle.** `ReserveMaterials` is the whole handler: status, the walk over
the balances of every product in the order `list_by_sppg_and_product` returns
them, the status change, the workflow transition and the route's audit event.
The walk is stated, not run: a *draw* takes from every item at most what the
pool holds, sums to the requirement, and leaves a row untouched only if all
earlier rows are exhausted (`Meets`). `CompleteProductionOrder` draws from the
reserved column, lowers the row, and lowers it again through the issue
transaction it posts, which also demands the same amount of free stock.

**StockSessions.** The same requests, cut at their database round trips (the
committed rows and what they ought to be, the order of the locks and who waits for
whom are in `StockBalances`):
`Begin` (status read), `Select` (rows read, outcome computed), `CheckInstance`
(the workflow instance of a reservation), `Flush` (one row locked by its UPDATE
or INSERT), `Commit` (values, not increments, written in the columns that
changed; locks freed), `FailDeadlocked` and `Disconnect`. `overwritten` is a
history variable: the columns some commit wrote from a view that was no longer
true. PostgreSQL's row locks and the ORM's dirty columns are external and
modelled from how the code uses them.

**BudgetLedger.** `amount[l]` holds the three cached columns of a
`budget_lines` row. `ReserveBudget`, `CommitBudget` and `ActualizeBudget` are
the three `*_budget_by_account` methods: each charges the whole amount to every
line of the account in every approved budget whose period holds the date, and
releases at most what the step before it left. `requested`, `received` and
`invoiced` are history variables: the sums charged to a line.

**Procurement.** A table of each document, from `None` to its row. Every action
is a whole `create_*` handler with what it calls: `CreatePurchaseRequest` takes
the shortage of a plan and reserves its cost; `CreatePurchaseOrder` prices the
lines; `ReceiveRequest` and `ReceiveOrder` post one RECEIPT per line
(`PostReceipts`, the postings of `StockLedger` for all lines at once), commit
the budget and post the journal; `CreateSupplierInvoice` and
`CreateSupplierPayment` check that they are the first, charge the budget and
post theirs. `PostJournal` is `create_and_post_operational_journal`, which
fails for an account missing from `Chart`; `ledger` sums the posted lines of an
account. The handlers ask for hardly any status, so that a plan is requested, a
request ordered and an order received any number of times. `Meanwhile` lets
stock be issued and budgets be approved in between.

**SettlementSessions.** Invoices and payments of `ProcurementService`,
disbursements and repayments of `FundingService`, cut at their queries: `Begin`
(the first row), `ReadDisbursed` (the first half of `get_agreement_bundle`),
`Check`, `TakeNumber` (count and date), `Insert` (the unique index, for which an
insert waits: `MustWait`), `EnterJournal` (`create_journal_entry`, whose entry
number nothing depends on and which is left out), `Settle` (the status a repayment leaves), `Commit`, `Disconnect`; and
`Midnight`, since a number holds the date of the server. `row[n]` is the row of
request n once committed, with three history fields: what was committed when the
request began, checked and counted. `StatusWritten` is the ORM's dirty column: a
status equal to the one loaded is not written.

**ServingCycle.** From a completed order to the plate. `inspection`, `delivery`,
`route`, `proof` and `incident` are the tables of those names. A request is a
pair of actions: `Begin...` is its reads and checks (`add_inspection_line`,
`finalize_inspection`, `create_from_production_order` with
`validate_release_for_reference`, `create_route`, `record_proof`), `Commit...`
what it writes; in between `session[s]` holds the rows it loaded, and others
commit. A status equal to the one loaded is not written (`Written`), so two
requests may leave a row that neither of them computed. `CompleteOrder` gives
the portions a delivery ships: accepted or else actual or else planned, in which
zero counts as not given. History fields: `cleared`, the inspections a release
looked at; `late`, whether a line was committed that a finalisation did not see;
`before` and `after`, the proofs committed when a request began and ended.

**GovernmentClaims.** A claim counts the portions of its deliveries (one listed
twice counts twice), is submitted with evidence, verified with an amount of the
client's, adjusted by hand in any status, and paid. A request loads the columns,
checks, and writes those it changed at its commit. `CommitPayment` inserts the
payment and its journal entry, whose source is the claim: the unique constraint
on the source (`SourceTaken`) fails the request. History: `verified`,
`adjusted`, and `changes`, a count of the decisions committed, which a payment
remembers as `after`.

**IntegrationChannel.** `message`, `log` and `event` are the messages of one
external system in both directions, their sync logs and their outbox events.
`BeginMessage` looks for the key (`create_inbound_message`, `receive_webhook`,
`create_outbound_message`, `run_sync_job`); `CommitMessage` inserts message, log
and event together or fails on one of three unique constraints, of which the log's
alone knows both directions. `BeginDispatch` reads the newest pending events up
to its limit, `CommitDispatch` marks and answers them. `answer` is a history of
the dispatches that found something. `Once` maps the channel to `MessageOnce`.

**SchemaMigrations.** One definition per revision: its id, the revision it
revises (`ChainIsLinked`) and the statements of `upgrade()` and `downgrade()` in
the order of the file. A schema is the set of its parts: tables, columns added
later, and what they refer to. A statement applies or is refused as PostgreSQL
would (`Applies`), and a refused script leaves the schema `{None}`.

**DemoSeed.** The stages of the script in its order (`Script`). A stage fills a
table it finds empty, adds the rows whose key is missing, overwrites its rows,
or deletes rows; it commits as the script does, once or row by row. A row of the
`Servings` (orders, deliveries, routes, proofs, incidents) is passed over if the
row it is made from (`Parents`) is missing. `Kill` stops the script between two
commits, and `AddOwnRow` is an operator between two runs: a row coded like the
earlier pack's (`Own`) or a vehicle or an asset that no purge takes (`Lasting`),
with the rows it refers to (`Referred`). `RaiseError` ends a run at what raises: the
lookups of accounts, and the delete of a driver, a vehicle type or an asset category
that a row which stays refers to; no other foreign key outlives a purge.
`cutShort` is a history of the stages in which a run was killed or failed.

**UserAccess.** The accesses are rows of the seed's `user_sppg_access`, and
`activeKitchen` is the user's `active_sppg_id`. `BeginSwitch` checks the kitchen
against the accesses, `BeginUpdate` loads the user, `WriteAccesses` deletes and
adds accesses (and waits for those another request is deleting), `CommitAccess`
writes the column if the request changed it. History: a request that another has
overtaken is no longer `fresh`, and `overtaken` says that what counts was written
by such a one: a switch to the kitchen it found active writes nothing, so it does
not put right what an overtaken request left.

**Deployment.** Composes them: `Upgrade` and `Downgrade` between any two
revisions, each one transaction (`src/alembic/env.py`), with the rows that go
with a dropped table (`Kept`) and the INSERT ... SELECT that gives users access
to their active kitchen (`Refilled`); `Seed`, `Disturb` and, between two runs of
the script, `Administer` on the latest schema.

## 3. Runs

| Run | Question | Bounds | Result |
|---|---|---|---|
| `kitchen_cycle` | do balances, reservations, workflow and orders stay consistent? | 1 product in 2 warehouses, plans needing 2 and 1, 2 orders, 2 requests, receipts up to 4 per item | holds, 906 336 states |
| `kitchen_available` | does completing leave available alone, as the code says? | same | violated |
| `stock_fefo` | do balances reconcile, and can a preview be issued? | 2 products, 2 warehouses, 2 batches, quantities to 2 (batches from -2), stock to 3, products and warehouses symmetric | holds, 306 476 states |
| `workflow` | one version, one request, no approval without a decision, rejection final? | a plan and a budget, 3 requests, 3 custom transitions, 2 versions by hand | holds, 2.2 M states |
| `sessions` | what drifts, what deadlocks, does every request end? | 2 sessions, 2 rows of 0 or 2, 1 plan needing 2, postings of 1, 4 requests | holds, 370 743 states |
| `procurement` | do journals, documents and budgets agree, and whose reservation does a receipt release? | 1 plan, 1 product, 2 requests, 1 order, 2 receipts, 2 invoices, 1 payment, 2 budgets with 3 lines over 2 days | holds, 692 320 states |
| `settlement` | what do unique numbers prevent, and what can only an overlap break? | 2 sessions, 4 requests, 2 receipts, principal 1, repayments of -1 to 1, 2 days | holds, 3.9 M states |
| `serving` | is what left the kitchen cleared, is it received once, and whose portions does it show? | 2 sessions, 6 requests, 1 order, 1 inspection, 2 deliveries, 1 route, 3 proofs, 1 incident, portions 0 and 1 of 2 | holds, 2.8 M states |
| `claims` | do payments add up, do status and amounts agree, was every paid claim judged? | 2 sessions, 1 claim of 2 lines, 2 deliveries, amounts -1, 1 and 2, 3 decisions, 2 payments | holds, 1.5 M states |
| `claim_settles` | can a claim that is paid in part be paid the rest? | same, 2 decisions, fair | violated |
| `integration` | is a key accepted once, an event dispatched once, every event in the end? | 2 sessions, 2 keys, limits 0 to 2, 3 answers | holds, 145 798 states |
| `deployment` | does the revision tell the schema, does the script leave the whole pack, is the active kitchen an accessible one? | 40 revisions, 51 stages, 2 rows for a stage that commits row by row, rows of the operators in 9 tables, 2 requests, 3 runs, 2 mishaps | holds, 362 504 states |

**Why the bounds are enough.** A requirement of 2 over two warehouses is the
smallest that must be split; plans needing 2 and 1 tell their reservations
apart; two orders allow a second order of the same plan and an order of a plan
that never reserved. Stock up to 4 holds both needs with something to spare and
can be short of either. Three requests are the fewest in which a rejected, a
manual and a gated one meet. Two sessions suffice for every lost update and for
circles of two; a third request lets one of them begin after another's commit,
and a fourth computes from what the third left behind: with three, no
availability is computed again from a column that was overwritten before.
Two batches are the fewest between which FEFO chooses. Two requests, two
receipts and two periods are the fewest in which a receipt can meet the
reservation of another request, come twice, or fall outside the period it was
reserved in; the one order may be priced at 1 or 2 against an estimate of 1;
the second budget has a line of another account, which only an invoice charges.
Four requests are the fewest in which a sequence used twice across midnight lets
two *other* documents through; with three, a property that blames only the
documents concerned would pass. A repayment of -1 is all that reopening a
principal of 1 takes, and one batch of less than zero all that could lower a
preview. In `kitchen_cycle` batches and budgets are left out, since no action of
the cycle reads them; both have runs of their own.

Three proofs, with a route planned between the first two, are the fewest that
leave a delivery with portions of two proofs, and six requests let a release, a
route and three proofs follow each other with one to spare; portions of 0, 1 and
2 meet every comparison of `record_proof`. A claim of one unit, payments of 1 and
2 and an adjustment of -1 reach every status, overpayment included; three
decisions allow submitting, verifying and one decision behind a payment. Two
keys in two directions make every pair of the three constraints disagree, and a
limit below the number of events makes a dispatcher leave some. Two rows tell a
stage that is half written from one that is not; three runs are a killed one, the
next and a third, and any two mishaps (a kill, an operator's row, a downgrade, a
request for kitchens) meet between them: two requests are the fewest that
overlap, and two kitchens the fewest to switch between.

Symmetry is declared only over orders, approval requests, the requests, receipts
and invoices of procurement, the sessions and receipts of settlement, the
sessions of claims, and the sessions and deliveries of serving, which no operator
orders, and in no run with a liveness property.

**Bounds in guards.** `MaxQty` (one posting; a new batch, of either sign), `MaxStock` (receipts and
transfers into an item or batch), `MaxVersion` (versions made by hand),
`Opening` and `MaxRequests` (sessions), `MaxDay` (midnights), `MaxProofs` and
`MaxIncidents` (rows of these tables), `MaxReceived` and `MaxLines` (a proof and
a claim), `MaxChanges` and `MaxPayments` (of claims), `MaxAnswers` (dispatches
that found something), `Each` (rows of a stage), `MaxRuns`, `MaxMishaps` and
`Stops` (deployment). Quantities are integers: the code keeps floats and rounds
them to six places, which is not modelled.

**Deadlock.** `CHECK_DEADLOCK FALSE` is set where the bounds let the system
stop: all requests served, all document rows used up, all runs made. It is
checked in `stock_fefo` and `integration`, which can always go on.

**Fairness.** Three specifications state it. `StockSessions` assumes weak
fairness of each session's `Serve`: a request is a coroutine the event loop keeps
running, the database answers, and PostgreSQL breaks deadlocks. `Begin` and
`Disconnect` are not fair: nobody has to send a request or to lose a connection.
`IntegrationChannel` assumes that a request that began ends, and that somebody
keeps dispatching and does not lose every attempt. The code has no scheduler for
its background jobs: that part is the operators', and without it no event need
ever be dispatched. `FairSpec` of `GovernmentClaims` serves `claim_settles` alone:
somebody keeps paying the rest of a claim, and not every attempt is lost on the
way, so that what keeps the claim open is the code.

**What the runs show that a test would hardly reach.**

- `DriftIsProductionUse`: a balance is below the ledger by exactly what
  production consumed, because a completion deducts twice. Receipts, issues,
  transfers and reservations never add to that distance.
- `LedgerKeepsPromises`: seen against the ledger, nothing is promised or issued
  twice, even with several orders per plan and plans created directly as
  MATERIAL_RESERVED (the status comes from the payload): such an order eats
  another plan's reservation, which `ReservationsAccounted` accounts for.
- `ReserveNeedsDecision`, `ApprovedByDecision`: although the status says APPROVED
  at once, stock is set aside only after somebody decided, because the
  reservation asks the workflow.
- `RejectionIsFinal`: the other side of it: a rejected plan stays APPROVED for
  ever and no request moves it again.
- `RewoundOnlyByHand`: a manual request decided late takes a workflow back; no
  gated one ever does.
- `DriftNeedsStaleWrite`: a column is wrong only if some commit wrote that
  column from a stale view: because the ORM writes dirty columns only, a stale
  receipt never erases a reservation from `quantity_reserved`. Availability is the
  exception: a posting computes it from the other two columns, so a quantity on
  hand lost to one request makes the next request, served alone, write a wrong
  availability.
- `DeadlockNeedsDisorder`: postings and reservations flush in the order of row
  ids and cannot deadlock among themselves, except that a transfer inserting its
  destination row after locking its source can; completions lock in the order
  of their walk and can deadlock with anything.
- `LedgerMatchesDocuments`: however often goods are received and in whatever
  order invoices and payments come, inventory, accruals, payables and cash equal
  the open documents, which rests on the check for an earlier invoice.
- `ChargesStayInSight`, `AvailableOnlyShrinks`: although every step releases only
  a minimum of two amounts, nothing charged disappears from the availability of
  a line, and no charge gives availability back.
- `ReservationsHoldWithin`: as long as the receipts of a line keep within their
  requests, nobody else's reservation is used up.
- `NextNumberIsFree`: numbers are counts plus one, and yet no failure between
  taking and committing one ever leaves a number ahead of the count, on which
  every later request would fail.
- `SecondOneWasOvertaken`: nothing constrains a receipt to one invoice, but the
  unique number refuses the second one by the way, unless another document was
  committed between a request's check and its count, or midnight let one
  sequence be used twice.
- `LimitsNeedOverlap`, `ClosedMeansRepaid`: principal is exceeded, and an
  agreement closed with principal outstanding, only by requests that overlap; a
  repayment of a negative principal, which its margin may hide, serves for that as
  well as a disbursement.
- `PreviewCanBeIssued`: batches of zero or less, which may be made, are passed
  over, and what is offered is counted over the others alone.
- `VerdictStands`, `ClearanceStands`: finalising an inspection again does no
  harm by itself, since final inspections take no more lines; only a line
  committed behind a finalisation turns a verdict over, and with it what a
  release relied on.
- `ReceivedOnce`: a delivery takes a second proof only from an overlapping
  request, or when a route planned while the first was recorded writes LOADING
  over the status the proof left.
- `PortionsOfOneProof`: each proof writes only the portions that differ from
  what it loaded. Overlapping proofs alone cannot mix their figures, because both
  load an empty delivery; with a route in between, three proofs can, and the
  claim counts portions nobody reported.
- `PaidIsPaidOut`, `BooksAgree`: overlapping payments would each add to the
  amount they loaded; the unique source of the journal entry, meant for
  something else, is all that prevents it. Paid more than due, or a status that
  does not tell, needs a decision committed behind a payment.
- `JudgedBeforePaid`: nothing is paid that nobody judged, but adjusting a draft
  by hand counts as judging it.
- `AcceptsOnce`: three constraints, none of which covers the others, accept a
  key once over both directions.
- `DispatchedTwiceNeedsOverlap`, `EventsGetDispatched`: a second dispatch needs
  two dispatchers that overlap, and leaves no trace in the retry count; taking the
  newest first starves an event only as long as new ones keep coming.
- `SchemaFollowsRevision`: every downgrade undoes its upgrade, in an order that
  no foreign key forbids, between any two revisions.
- `ActiveKitchenIsOpen`: the revision that makes the table of accesses puts the
  active kitchens back into it. A switch that overlaps an update leaves a user
  with a closed kitchen, refused whatever names none of the open ones
  (`core/security/dependencies.py:51-70`), until a request nobody overtakes.
- `WholePack`: wherever the script is killed, a finished run has completed the
  pack, because the stages that only fill an empty table commit once. The
  exception is silent: a run killed before the first meal plan (line 820), a plan
  the operators then make, and the next run ends well without the serving of the
  first plan, from its order to its incident.
- `BudgetSlipsNeedsCut`: a run that ends between the accounts and the budget makes
  the next one put the budget on another account: a kill, or a delete of asset
  categories that is refused.
- `FailureNeedsOwnRows`: only rows of the operators make the script fail: accounts
  of theirs, or a row that stays and refers to a driver, vehicle type or asset
  category the script takes for the earlier pack's.

### Findings

1. *Completion deducts twice* (`kitchen_available`;
   `modules/production/services/production_service.py:149-170`). The row is
   lowered, then the issue transaction lowers it again and recomputes
   `available`, which the comment at line 151 says stays. With nothing available
   beyond the reservation, a completion fails with INSUFFICIENT_STOCK.
2. *A partly paid claim stays so* (`claim_settles`;
   `modules/government_claim/services/government_claim_service.py:246`). Every
   payment posts a journal entry with the claim as its source, and sources are
   unique (`modules/accounting/models/journal_entry.py:13-20`): the second
   payment fails, whatever its amount. The guard at line 240 admits
   PARTIALLY_PAID, and `docs/frontend_status_and_cta_matrix.md:174` of the
   repository offers *Record Payment* for it.

Facts met on the way, visible in the models and kept here without a run:

- *Approved before it is decided* (`modules/meal_plan/services/meal_plan_service.py:164`):
  the status is written before the gated transition raises its request; the
  engine still says SUBMITTED.
- *Lost updates* (`modules/inventory/services/stock_service.py:404`): overlapping
  postings overwrite each other, and the balance no longer reconciles with the
  ledger as the design (section 12.5) demands.
- *Somebody else's reservation* (`modules/budget/services/budget_service.py:245`):
  a receipt releases up to its whole amount from what the line has reserved, by
  whomever, where `docs/frontend_api_quick_reference.md:434` speaks of the same
  procurement flow.
- *Two entries, one number* (`modules/accounting/services/accounting_service.py:102`):
  overlapping requests count the same entries, and only the source of an entry
  is unique.
- *Two pending requests*: two overlapping manual requests for one document may
  both insert, after which the query for the pending request raises.
- *Zero is not given* (`modules/delivery/services/delivery_service.py:169`): an
  order completed with no accepted portion ships its actual or planned ones.
- *Claimed twice*: a delivery may be listed twice in a claim and in any number
  of claims.
- *Expiry alerts* (`modules/inventory/services/stock_service.py:102`) count days
  from a date written into the code.
- *Dispatch*: `available_at` is never compared with the time, and a negative
  limit slices from the end.
- *Stock*: a partial transfer moves its whole batch, blocked or not; production
  issues name no batch, so a preview may offer batch stock its warehouse no
  longer has; a preview is checked against the batch rows only.
- *Seed script*: line 1768 rebinds `sppg`, so the first receipt of stock (2175) is
  posted for another kitchen than its warehouse's; each run charges 4 800 000 to
  the approved budgets again (2742-2750); a run deletes the beneficiaries the
  operators made and overwrites claims and deliveries of the pack.
- *Downgrades* lose data by design: past `20260720_0505` every access but the
  active kitchen, in `20260720_0815` all polygons but the first, past
  `20260720_0445` the addresses.

## 4. Proofs

TLAPS checks, for every value of the constants:

| Theorem | States |
|---|---|
| `StockTypes`, `StockReconciles` | `StockTypeOK`; `BalanceIsLedger` |
| `PreviewsAreIssuable`, `EarliestGoFirst` | `PreviewCanBeIssued`; `FirstExpiredFirstOut` |
| `WorkflowTypes`, `VersionsStaySingle`, `OneRequestAtATime`, `RejectionsStayFinal` | `WorkflowTypeOK`; `OneActiveVersion`; `OnePendingRequest`; `RejectionIsFinal` |
| `WorkflowStaysBehind`, `ApprovalIsDecided`, `RewindsAreByHand` | `StatusLeadsWorkflow`; `ApprovedByDecision`; `RewoundOnlyByHand`; each under a condition on the tenant's own transitions |
| `CycleTypes`, `CycleStaysSolvent`, `DriftIsExact` | `TypeOK`; `Solvent`; `DriftIsProductionUse` |
| `ReservationsAddUp`, `StockWaitsForDecision` | `ReservationsAccounted`; `ReserveNeedsDecision`, under the condition of `ApprovalIsDecided` |
| `CycleKeepsPromises` | the cycle implements `StockPromise` |
| `BudgetTypes`, `ChargesStay`, `AvailabilityShrinks` | `BudgetTypeOK`; `ChargesStayInSight`; `AvailableOnlyShrinks`, of `BudgetLedger` |
| `DocumentTypes`, `ProcurementReconciles` | `DocumentTypeOK`; `BalanceIsLedger`, of `Procurement` |
| `ProcurementCharges`, `ProcurementStaysInSight` | `Procurement` implements `BudgetLedger`, and so keeps its two properties |
| `AccountsMatchDocuments`, `ReservationsHold` | `LedgerMatchesDocuments`; `ReservationsHoldWithin` |
| `SettlementTypes`, `NumbersStayFree`, `SecondsAreOvertaken` | `SettlementTypeOK`; `NextNumberIsFree`; `SecondOneWasOvertaken` |
| `OverrunsOverlap`, `ClosedIsRepaid` | `LimitsNeedOverlap`; `ClosedMeansRepaid` |
| `DriftIsStale`, `DeadlockIsDisorder` | `DriftNeedsStaleWrite`; `DeadlockNeedsDisorder`; of `StockSessions` under `StockBounds` |
| `ServingTypes`, `VerdictsStay`, `CleanReleases` | `ServingTypeOK`; `VerdictStands`; `ClearanceStands` |
| `ReceivedOnceOnly`, `PortionsAreOfOneProof` | `ReceivedOnce`; `PortionsOfOneProof` |
| `ClaimTypes`, `JudgedFirst`, `BooksStayRight`, `PaymentsAddUp` | `ClaimsTypeOK`; `JudgedBeforePaid`; `BooksAgree`; `PaidIsPaidOut` |
| `ChannelTypes`, `TwiceNeedsOverlap` | `ChannelTypeOK`; `DispatchedTwiceNeedsOverlap` |
| `KeysAreAcceptedOnce` | the channel implements `MessageOnce` |
| `SchemaStaysDesigned` | `SchemaFollowsRevision`, from `ChainIsReversible` |
| `PackIsWhole`, `FailuresAreOwn`, `BudgetSlipsOnlyByCut` | `WholePack`; `FailureNeedsOwnRows`; `BudgetSlipsNeedsCut`; of `Deployment` |
| `ActiveKitchenStaysOpen` | `ActiveKitchenIsOpen` |

**Assumptions.** The bounds are naturals (`ServingBounds`, `ClaimBounds`,
`ChannelBounds` and the like). What is summed over is finite: warehouses and
products (`WarehousesAreFinite`, `StockIsFinite`), deliveries, keys; tables of
documents need no such assumption, for their rows are made one by one. `None` is
no row, no state, no request, no account and no set of transitions
(`NoneIsNoRow`, `NoneIsNoState`, `NoneIsNoOrder`, `NoneIsNoDocument`,
`NoneIsNoAccount`). Plans and budgets are
apart, custom transitions and client statuses are well-formed, needs are within
`MaxQty`, every budget line has a budget. All are named `ASSUME`s that the passing
runs evaluate; so is `ChainIsLinked`, which says that the revisions form one
line. The types proved here are no invariants of the runs any more.

*Facts of the chain.* Two assumptions are about no constant: `ChainIsReversible`
(no revision is refused on the way up, and each takes back what it did) and
`TablesStay` (the table of accesses stays once made, `budgets` comes and goes with
`accounts`) are facts of the forty revisions written out in `SchemaMigrations`.
They are computations, eighty scripts run on one schema each, which TLC evaluates
in `deployment`; a revision that does not undo itself makes that run fail. What
the prover adds is the induction over paths: from one step down that undoes one
step up to any sequence of commands.

*Conditions on a tenant's transitions.* An administrator may define any
transition. One that leads further than its service writes, from DRAFT past the
approval, or back, makes `StatusLeadsWorkflow`, `ApprovedByDecision` or
`RewoundOnlyByHand` false. The theorems therefore have `LeadNoFurther`,
`NoShortcut` and `LeadForward` as hypotheses: statements about `CustomTransition`
alone, true of a tenant that defines none and of the three transitions of the
`workflow` run, and not asked for by the code. Each forbids only what breaks its
property; gated, ungated and doubled transitions are all admitted.

*Sums.* `Total` takes its rows in an order a CHOOSE fixes. `TablesProofs` shows
that the order does not matter (`TotalSplit`), and from it what the other proofs
need: a row comes, goes or changes, a part sums to no more than the whole, a sum
over items is what requests took from each. The library's induction theorems take
a predicate, which cannot be instantiated here; the induction is put as a search for
a smallest counterexample among the finite subsets of the rows (`SmallestSet`),
which is a fact about a set of sets.

*Stock.* Every request either leaves an item alone, increases it or decreases
it by at most what is available, and posts the same on the ledger (`Posted`).
`BalanceIsLedger` alone is not inductive: availability is computed from
`reserved`, so the invariant adds that `StockService` never reserves.

*Preview.* The invariant it needs of the postings is `BatchInv`: batch rows are
typed and finitely many, each made by one request. That a batch may hold less than
nothing does no harm, since the candidates are batches with stock
(`CandidatesAreStocked`). The list of candidates is a CHOOSE; that an ascending list exists (`SomeListAscends`) and holds
every candidate once (`ListIsOrdered`) is shown first, for any set of batches. What
is still required after each batch is a recursive function: it exists
(`SomethingRuns`) and never grows (`RemainingFalls`). The lines add up to what is
no longer required (`LinesAddUp`), and that is the lesser of what was asked and
what the batches have (`ListAddsUp`); both are inductions along the list, again put
as facts about sets (`CountedUp`, `SmallestNumber`).

*Workflow.* `OnePendingRequest` is stated with cardinalities and proved in the
form "two pending requests of a document are one". `RejectionIsFinal` needs three
facts together: one pending request; an undecided or rejected APPROVE request
holds its instance at SUBMITTED with the status APPROVED; and any other request
pending on such a document asks for SUBMITTED, so that even its late approval
changes nothing. The three properties of sequences each need what they say to
hold of the requests too, since a decision may come late: a request asks for no
state its document has not been in (`LeadInv`); one that would take a workflow
past the approval without being one for it was raised past the approval
(`GateInv`); while a gated request is undecided its document stays where the
transition starts (`StandInv`).

*Cycle.* The inductive invariant is `TypeOK /\ Solvent /\ DriftIsProductionUse`.
Each request is first reduced to what it does to one item (`Posted`,
`Promised`, `Fulfilled`), then the rows' arithmetic is shown item by item. From
the invariant a promise is a natural number within the ledger (`Held`), and
every step maps to a step of `StockPromise`: inbound to `Receive`, outbound to
`Issue`, transfer to `Move`, reservation to `Promise`, completion to `Fulfil`,
anything else to a stutter. For `ReservationsAccounted` a draw from many
warehouses has to sum to the need, and a plan must be audited once: `AccountInv`
adds that an audited plan never returns to the status `reserve_materials` asks for.
`ReserveNeedsDecision` is `GateInv`, kept by the cycle too, since a reservation
asks the workflow for APPROVED.

*Budget.* A step leaves a line alone or charges it once (`LineByLine`), and one
lemma for each kind of charge shows that the row stays natural, claims no less
and has in sight what was added. The two last parts of `ChargesStayInSight` need
the first: a commitment released by an invoice is covered by the actual amount.

*Procurement.* `DocumentsInv` joins the types of stock, budgets and documents,
says that documents are made from documents there are (`Referenced`) and that
their rows are finite in number. From it every handler is a step of
`BudgetLedger` or leaves the amounts alone. The accounts are followed per
document (`Matched`): a receipt is accrued until its invoice comes, an invoice is
payable until paid, which needs that a receipt is invoiced once. What
`ReservationsHoldWithin` says is not inductive, because it looks only at requests
without any receipt: a receipt dated in another period takes its request out of
that sum and leaves the reservation standing. `HoldInv` says more, of every
request none of whose receipts touched the line (`Unreleased`).

*Settlement.* `NumberInv`: a number is at most one ahead of the count until its
row is committed, and requests under way have ids of their own. `SecondInv` adds
what makes the second theorem inductive: where no sequence is used twice, the
sequences committed are exactly 1, 2, ... (`SequenceFilled`), so that a document
that commits has the next one, and was counted over all documents before it
(`NextInOrder`); if it was not overtaken, it was checked against all of them,
too. The unique index enters as `Taken` and `Apart`. `LoanInv` follows each
request by its stage: what it read of the loan is true of the rows it has seen,
and what it has not seen was committed by requests that overlap it (`Disbursing`,
`Repaying`); behind its back only a repayment closes the agreement (`Lent`). What
reopens it is any request of `Raising`: a disbursement, or a repayment of less than
nothing, which two repayments that overlap are enough for.

*Stock in sessions.* `DriftInv` says of every session what it saw, what it
computed and what it locked. As long as no column of a row was written stale, the
row adds up (`AddsUp`), and so does every view of it, for a view never becomes
another one. What a request computed fits what it saw, by the kind of the request
(`Computed`). A row a session has locked is not written by others, and one it
found missing is still missing once its INSERT went through (`Standing`). A commit
then moves every column by as much as the request moved its own view of it, or
marks the column as overwritten (`WrittenMoves`), and what is due moves by the
same. Without the clause about views the invariant is not inductive: a reservation
takes its availability from its view, and not from the other two columns. Both
theorems are stated for an instance, `Stock`, under the assumption `StockBounds`
that the run evaluates.

*Deadlock.* `OrderInv` says that what a session has locked comes before what it has
still to lock (`InOrder`: the rows it found, by their id, then those it inserts),
unless it completes a production order, which locks rows in the order of its walk.
As long as no row was inserted behind a session that found it missing, this is one
order of all rows. In a set where everyone waits for one of the set and is awaited
by one, take the first of the rows waited for: whoever waits for it is awaited over
a row it has locked, which comes before (`WaitsInOrder`), and so the first was not
the first. One of them therefore completes an order or inserts a row another
inserted after it looked. `InDeadlock` is stated with such sets and not as a
transitive closure of `WaitsFor`: nobody waits for two, so the two agree, and the
provers can reason about sets.

*Serving.* A clearance says PASSED and nothing about lines, so it is not
inductive by itself. `ServingInv` adds what every verdict means: while no line
came late, a verdict, written or pending in a session, is the verdict of the
lines the inspection has now (`Judged`), so that finalising it again repeats it.
It also covers releases still to be committed (`AllCleared`), and says that
requests are about rows there are (`Referenced`) and that a verdict, once loaded,
is not taken back (`Loaded`). For the proofs of delivery, `ArrivalInv` says what
a delivery shows by the proofs it has (`Arrivals`, `OfOneProof`), that histories
agree with each other (`InOrder`, `Remembered`), what every request under way
has loaded (`Fits`), and that two proofs of which the later knew the earlier had
a route between them (`Reopened`).

*Claims.* `Entitled` says what a request under way may write and of which claims
it was accepted; `Sound` what that makes of a claim. The heart of `BooksAgree` is
a clause of `Entitled`: a payment that no decision overtook, of a claim not paid
yet, has loaded the columns as they still are, so what it computed is what its
commit leaves. A second payment fails on the source. Payments are numbered
without gaps (`Numbered`), so that a new one replaces none. `PaidInv` is what the
source makes of the sum: a claim has one payment and shows its amount, or has none
and shows zero, and a payment that may still be committed has loaded zero.

*Channel.* An answered event is dispatched and stays so (`Answered`), hence a
dispatcher that begins later cannot hold it (`Fresh`). That every accepted key has
its log (`Logged`) makes a key unique over both directions. `CommitMessage` maps
to `Accept` or, if refused, to a stutter; `CommitDispatch` to `Dispatch` or, with
nothing to dispatch, to a stutter; everything else stutters.

*Deployment.* `DeploymentInv` joins four invariants, each inductive over the ones
before it. `RevisionInv`: the schema is what the revision's design says, the
script runs on the latest revision and alone. An upgrade over many revisions is a
CHOOSE of a climb; `ClimbIsUnique` and `SomethingClimbs` show that there is one
and only one, by the first revision at which two would differ (`SmallestNumber`),
and `UpgradeArrives` and `DowngradeArrives` that it ends at the design. `PackInv`:
the stages a run has passed are complete (`CompleteSoFar`) but for the serving of a
first meal plan that is missing (`Missing`; that plan is only written by a stage
before its serving's, so it does not appear behind a serving passed over), and a table that is
only filled when empty holds the stage's rows or the operators' as soon as it
holds any (`FilledByItsStage`), which is why a run killed anywhere leaves no table
a later run takes for filled. It rests on the order of the stages: a table is
filled before anything else writes to it (`FillsComeFirst`), nothing deletes from
it (`FillsStay`), and a table is cleared only before it is written
(`ClearsComeFirst`); moving a stage of the script breaks one of these.
A run that fails was stopped by a missing account, which leaves only the operators'
(`Accounts` fills an empty table), or by a row that refers to one deleted, and none
of the pack's does (`PackFails`). `BudgetInv`: accounts without a budget, outside the
stages between the two, mean that a run was killed, or failed, there. `AccessInv`: what a request under way holds is
true of the accesses there are unless another overtook it (`Sound`). The attempt to
prove it corrected the model: `overtaken` used to be that of the last request, and
a fresh switch to the kitchen already active, which writes nothing, hid that an
overtaken one had closed it. It takes three requests, one more than the two mishaps
of the `deployment` run, where TLC could not see it.

*Model-checked only.* `EveryRequestEnds` and `EventsGetDispatched`: liveness
under fairness, which the prover does not reach. Every safety property of a
passing run is stated by a theorem; the two properties of the runs that expect a
violation are false of the code.

## 5. Not modelled, and simplifications

- One tenant and one SPPG. A balance row takes its SPPG from the payload and
  not from its warehouse.
- Average cost, stock locations and the location columns; the creation of a
  warehouse's root location by its first posting, also in `StockSessions`.
- The operational journal posted by a completion (accounting).
- In `Procurement` requests are served one at a time. Overlapping ones are
  modelled for invoices and payments; requests, orders, receipts and production
  orders are numbered in the same way and not modelled again. In
  `SettlementSessions` every document has a journal entry (nothing is free of
  charge), and the locks on the rows whose status a commit writes are left out:
  they are taken with the commit. A repayment counts by its principal; margin and
  penalty, which let that be zero or less, are left out.
  Suppliers and prices are master data; a supplier that is not active only
  keeps an order from being made.
- One recipe line per product in a plan; rounding.
- `StockSessions` holds one product and orders rows by one id, where the code
  breaks ties of the walk by warehouse id and flushes by row id. The locks on
  plan and order rows are left out: they are taken with the last flush.
- In `ServingCycle` the numbers of inspections, deliveries and routes, which are
  counts like the others: a request that loses its number ends as one that is
  disconnected. A production order is completed in one step; its stock is the
  matter of `KitchenCycle`.
- In `GovernmentClaims` portions received are naturals, though a proof's payload
  has no bound; the number and period of a claim.
- In `IntegrationChannel` one system and one job; systems, credentials,
  subscriptions and mappings are master data. Events are ordered by their commit,
  where the code orders them by `created_at`. Events added by hand, and the jobs
  that refresh summaries, which recompute what reports read.
- In `SchemaMigrations` indexes, column types, the names of constraints and the
  plain columns a new table comes with. In `DemoSeed` the values of the rows; rows
  of the operators in other tables than the nine in which the script looks at them,
  and rows with a key, a plate or another unique column of the pack's, which the
  script takes for its own or fails on. A meal plan of theirs for the kitchen and
  the day of the pack's first one would stand in for it and is left out with them.
  Operators add rows and do not change or delete them. Of the `Each` rows of a serving
  the first stands for those of the first meal plan.
- In `UserAccess` one user, made by the script, who stays active; making users,
  passwords, tokens (which carry the accesses but are not read for them) and roles.
- Depreciations of assets: what remains is checked before the row is inserted, as
  a disbursement is, and one exists for each date. Fleet: rows are added, their
  statuses come from the client.
- Components marked not modelled in `PROJECT.json`, with the reason.

## 6. Plan

Built in this order: the kitchen (`StockLedger`, `ApprovalWorkflow`,
`KitchenCycle`, `StockSessions`), money (`BudgetLedger`, `Procurement`,
`SettlementSessions`), the plate and its payment (`ServingCycle`,
`GovernmentClaims`), the outside (`IntegrationChannel`), the installation
(`SchemaMigrations`, `DemoSeed`, `UserAccess`, `Deployment`). What is left:

1. An abstract three-way match (ordered, received, invoiced, paid) for
   `Procurement` to implement; a chart of accounts with gaps; the journal of a
   completion.
2. Depreciations in overlapping sessions, with the other check-then-inserts.
3. The amounts the seed script charges to budgets, over `BudgetLedger`.
4. The delivery a claim counts and the delivery a proof writes are two
   variables of two modules; a composition would follow a wrong portion into a
   paid claim.
5. Proofs: what is left is liveness, out of the prover's reach.
