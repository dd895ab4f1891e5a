---------------------------- MODULE BudgetLedger ----------------------------
(***************************************************************************)
(* BudgetService: what procurement reserves, commits and spends on the     *)
(* lines of the tenant's budgets.  A charge names an account and a date;   *)
(* it is put, whole, on every line of that account in every approved       *)
(* budget whose period holds the date, and no limit is looked at.  How a   *)
(* budget comes to be approved is in ApprovalWorkflow.                     *)
(***************************************************************************)
EXTENDS Integers, Tables

CONSTANTS
    Budget,
    BudgetLine,
    BudgetOf,    \* the budget of a line
    AccountOf,   \* the account of a line, or None
    Account,
    Day,
    Covers       \* the days between date_start and date_end of a budget

ASSUME LinesBelongToBudgets == BudgetOf \in [BudgetLine -> Budget]

VARIABLES
    approved,    \* budgets whose status is APPROVED
    amount,      \* cached_reserved_, cached_committed_ and cached_actual_amount
    requested, received, invoiced   \* history: what was charged to a line

chargeVars == <<requested, received, invoiced>>
budgetVars == <<approved, amount, chargeVars>>

AmountRow == [reserved : Nat, committed : Nat, actual : Nat]

\* list_approved_by_tenant_and_date with list_by_budget_and_account
LinesOf(account, day) ==
    {l \in BudgetLine : BudgetOf[l] \in approved /\ day \in Covers[BudgetOf[l]]
                                                 /\ AccountOf[l] = account}

-----------------------------------------------------------------------------
(* One line after a charge of q.                                           *)

Least(p, q) == IF p <= q THEN p ELSE q

\* Mutant of Reserved: the last request replaces the others.
ReservedLast(row, q) ==
    [reserved |-> q, committed |-> row.committed, actual |-> row.actual]

Reserved(row, q) ==
    [reserved |-> row.reserved + q, committed |-> row.committed, actual |-> row.actual]

\* Mutants of Committed: the commitment takes over what was reserved and no
\* more; a receipt sets every reservation free.
CommittedFromReserve(row, q) ==
    [reserved  |-> row.reserved - Least(row.reserved, q),
     committed |-> row.committed + Least(row.reserved, q),
     actual    |-> row.actual]
CommittedAll(row, q) ==
    [reserved |-> 0, committed |-> row.committed + q, actual |-> row.actual]

Committed(row, q) ==
    [reserved  |-> row.reserved - Least(row.reserved, q),
     committed |-> row.committed + q,
     actual    |-> row.actual]

Actualized(row, q) ==
    [reserved  |-> row.reserved,
     committed |-> row.committed - Least(row.committed, q),
     actual    |-> row.actual + q]

Raised(sum, lines, q) ==
    [l \in BudgetLine |-> sum[l] + (IF l \in lines THEN q ELSE 0)]

-----------------------------------------------------------------------------
BudgetInit ==
    /\ approved = {}
    /\ amount = [l \in BudgetLine |-> [reserved |-> 0, committed |-> 0, actual |-> 0]]
    /\ requested = [l \in BudgetLine |-> 0]
    /\ received = [l \in BudgetLine |-> 0]
    /\ invoiced = [l \in BudgetLine |-> 0]

\* The status of a budget becomes APPROVED, and stays so.
ApproveBudget(b) ==
    /\ b \notin approved
    /\ approved' = approved \cup {b}
    /\ UNCHANGED <<amount, chargeVars>>

\* reserve_budget_by_account
ReserveBudget(account, q, day) ==
    /\ amount' = [l \in BudgetLine |->
          IF l \in LinesOf(account, day) THEN Reserved(amount[l], q) ELSE amount[l]]
    /\ requested' = Raised(requested, LinesOf(account, day), q)
    /\ UNCHANGED <<approved, received, invoiced>>

\* commit_budget_by_account
CommitBudget(account, q, day) ==
    /\ amount' = [l \in BudgetLine |->
          IF l \in LinesOf(account, day) THEN Committed(amount[l], q) ELSE amount[l]]
    /\ received' = Raised(received, LinesOf(account, day), q)
    /\ UNCHANGED <<approved, requested, invoiced>>

\* actualize_budget_by_account
ActualizeBudget(account, q, day) ==
    /\ amount' = [l \in BudgetLine |->
          IF l \in LinesOf(account, day) THEN Actualized(amount[l], q) ELSE amount[l]]
    /\ invoiced' = Raised(invoiced, LinesOf(account, day), q)
    /\ UNCHANGED <<approved, requested, received>>

BudgetNext ==
    \/ \E b \in Budget : ApproveBudget(b)
    \/ \E account \in Account, q \in Nat, day \in Day :
          \/ ReserveBudget(account, q, day)
          \/ CommitBudget(account, q, day)
          \/ ActualizeBudget(account, q, day)

BudgetSpec == BudgetInit /\ [][BudgetNext]_budgetVars

BudgetTypeOK ==
    /\ approved \subseteq Budget
    /\ amount \in [BudgetLine -> AmountRow]
    /\ requested \in [BudgetLine -> Nat]
    /\ received \in [BudgetLine -> Nat]
    /\ invoiced \in [BudgetLine -> Nat]

Claimed(l) == amount[l].reserved + amount[l].committed + amount[l].actual

(***************************************************************************)
(* Whatever the order and the amounts of the charges, and although each    *)
(* releases at most what the one before it left, nothing charged to a line *)
(* drops out of sight of its availability: what was received is committed  *)
(* or spent, what was requested is at least reserved.                      *)
(***************************************************************************)
ChargesStayInSight ==
    \A l \in BudgetLine :
        /\ amount[l].actual = invoiced[l]
        /\ amount[l].committed + amount[l].actual >= received[l]
        /\ Claimed(l) >= requested[l]

(***************************************************************************)
(* The availability of a line only ever shrinks: no step gives back what a *)
(* requisition, a receipt or an invoice once claimed.                      *)
(***************************************************************************)
AvailableOnlyShrinks ==
    [][\A l \in BudgetLine :
          amount'[l].reserved + amount'[l].committed + amount'[l].actual >= Claimed(l)]_amount
=============================================================================
