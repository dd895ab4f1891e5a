---------------------------- MODULE StockBalances ----------------------------
(***************************************************************************)
(* The balances of one product: the committed inventory_balances rows,     *)
(* the committed tables they are meant to sum up, and the locks requests   *)
(* hold on the rows and wait for.  StockSessions has the requests.         *)
(***************************************************************************)
EXTENDS Integers, Tables

CONSTANT
    Item          \* balance rows of a product, numbered in the order of their ids

VARIABLES
    balance,      \* committed inventory_balances: a BalanceRow of each item, or None
    posted,       \* committed inventory_transactions netted by item
    consumed,     \* committed production_material_consumptions by item
    promised,     \* committed reservations less what production consumed
    overwritten,  \* (item, column) pairs some session wrote from a stale view
    job,          \* the request a session is serving, and how far it is; or None
    lock          \* the session that holds the row lock of an item, or None

Column == {"onHand", "reserved", "available"}
BalanceRow == [Column -> Int]

(***************************************************************************)
(* What the committed requests add up to, column by column: the ledger     *)
(* less what production took twice, and the reservations.                  *)
(***************************************************************************)
Due(i, c) ==
    CASE c = "onHand"    -> posted[i] - consumed[i]
      [] c = "reserved"  -> promised[i]
      [] c = "available" -> posted[i] - consumed[i] - promised[i]

\* A posting computes the availability from the other two columns.
ComputedFrom(c) == IF c = "available" THEN Column ELSE {c}

(***************************************************************************)
(* However requests interleave, abort and disconnect, a column of a        *)
(* balance departs from what was committed only if some request wrote that *)
(* very column from a value another request had changed meanwhile; the     *)
(* available quantity, which a posting computes from the other two, if     *)
(* some request so wrote any of the three.  A stale receipt, say, never    *)
(* loses a reservation from quantity_reserved, and two first receipts      *)
(* never insert two rows.                                                  *)
(***************************************************************************)
DriftNeedsStaleWrite ==
    \A i \in Item, c \in Column :
        \/ \E b \in ComputedFrom(c) : <<i, b>> \in overwritten
        \/ Due(i, c) = IF balance[i] = None THEN 0 ELSE balance[i][c]
-----------------------------------------------------------------------------
\* The walk over the selected rows, the most available first.
Earlier(view, i, j) ==
    \/ view[i].available > view[j].available
    \/ view[i].available = view[j].available /\ i < j

\* Mutant of LockedBefore: a transfer locks its source first.
SourceFirst(j, i, k) ==
    IF j.request.kind = "transfer" THEN i = j.request.from ELSE i < k

\* One flush updates the rows in the order of their ids and then inserts;
\* a completion flushes every time it records a material, so its rows are
\* locked in the order of its walk.
LockedBefore(j, i, k) ==
    CASE j.request.kind = "complete" -> Earlier(j.view, i, k)
      [] OTHER -> IF (j.view[i] = None) # (j.view[k] = None) THEN j.view[k] = None
                  ELSE i < k

\* The row a request locks next, of those it has still to write.
NextRow(j) == CHOOSE i \in j.queue : \A k \in j.queue \ {i} : LockedBefore(j, i, k)

WaitsFor(s, t) ==
    /\ job[s] # None /\ job[s].selects = <<>> /\ job[s].checked
    /\ job[s].queue # {}
    /\ lock[NextRow(job[s])] = t

\* Nobody waits for two, so what everybody in a set waits in and is awaited in is circles.
InDeadlock(s) ==
    \E circle \in SUBSET DOMAIN job :
        /\ s \in circle
        /\ \A t \in circle : /\ \E u \in circle : WaitsFor(t, u)
                            /\ \E u \in circle : WaitsFor(u, t)

(***************************************************************************)
(* Requests that only post or reserve lock rows in the order of their ids  *)
(* and do not wait for each other in a circle.  It takes the completion of *)
(* a production order, which locks rows one flush after the other, or a    *)
(* transfer that selected no row in its destination and, having locked its *)
(* source, inserts one where another request meanwhile did.                *)
(***************************************************************************)
LateInsert(j) == j.view[NextRow(j)] = None /\ balance[NextRow(j)] # None

DeadlockNeedsDisorder ==
    \A s \in DOMAIN job : InDeadlock(s) =>
        \E t \in DOMAIN job :
            InDeadlock(t) /\ (job[t].request.kind = "complete" \/ LateInsert(job[t]))
=============================================================================
