---------------------------- MODULE StockSessions ----------------------------
(***************************************************************************)
(* Requests on the balances of one product that overlap.  Every request    *)
(* has a database session of its own (get_db_session: no autoflush, one    *)
(* commit at the end of the route).  It selects rows, computes new values  *)
(* from what it selected, and writes those values, not increments, when    *)
(* the session is flushed; PostgreSQL, READ COMMITTED, locks a row from    *)
(* the UPDATE or INSERT of it to the end of the transaction.  No query     *)
(* asks for a lock and no row has a version column.                        *)
(*                                                                         *)
(* What the services decide is that of StockLedger and KitchenCycle; here  *)
(* each request is cut at its database round trips.                        *)
(***************************************************************************)
EXTENDS StockBalances, Sequences

CONSTANTS
    Session,
    Plan,         \* meal plans, each APPROVED at first and with one production order
    Need,         \* Need[p]: what plan p needs of the product
    MaxQty,       \* bound: the largest quantity of one posting
    Opening,      \* bound: what an item may have in stock at the beginning
    MaxRequests   \* bound: requests served

VARIABLES
    stage,        \* committed status of a plan and its workflow and order
    begun         \* requests begun

vars == <<balance, posted, consumed, promised, stage, job, lock, begun, overwritten>>

Fresh(q) == [onHand |-> q, reserved |-> 0, available |-> q]

Posting ==
    [kind : {"receive"}, to : Item, qty : 1 .. MaxQty]
        \cup [kind : {"issue"}, from : Item, qty : 1 .. MaxQty]
        \cup {r \in [kind : {"transfer"}, from : Item, to : Item, qty : 1 .. MaxQty] :
                 r.from # r.to}

Request == Posting \cup [kind : {"reserve", "complete"}, plan : Plan]

\* What a session has selected, computed and still to lock.
Job == [request : Request, selects : Seq(SUBSET Item),
        view : UNION {[D -> BalanceRow \cup {None}] : D \in SUBSET Item},
        after : UNION {[D -> BalanceRow] : D \in SUBSET Item},
        queue : SUBSET Item, checked : BOOLEAN]

StockBounds ==
    /\ Item \subseteq Nat
    /\ Need \in [Plan -> Nat \ {0}]
    /\ Opening \subseteq Nat
    /\ MaxQty \in Nat
    /\ None \notin BalanceRow /\ None \notin Session /\ None \notin Job

ASSUME StockBounds

-----------------------------------------------------------------------------
(* What a request computes from the rows it selected.                      *)

\* Mutant of Increased: what is reserved is forgotten.
IncreasedUnreserved(r, q) ==
    [r EXCEPT !.onHand = @ + q, !.available = r.onHand + q]

Increased(r, q) ==
    [r EXCEPT !.onHand = @ + q, !.available = r.onHand + q - r.reserved]

Decreased(r, q) ==
    [r EXCEPT !.onHand = @ - q, !.available = r.onHand - q - r.reserved]

Draws(view, column, need) ==
    LET rows == {i \in DOMAIN view : view[i] # None} IN
    {take \in [rows -> 0 .. need] :
        /\ Total([i \in rows |-> view[i][column]], rows) >= need
        /\ Total(take, rows) = need
        /\ \A i \in rows : take[i] > 0 => take[i] <= view[i][column]
        /\ \A i, j \in rows :
              Earlier(view, i, j) /\ take[j] > 0 => take[i] >= view[i][column]}

\* A posting to an item without a row makes one.
Loaded(view, i) == IF view[i] = None THEN Fresh(0) ELSE view[i]

\* The rows a request leaves dirty, by item; no outcome is a refusal.
Outcomes(r, view) ==
    CASE r.kind = "receive" ->
            {[i \in {r.to} |-> Increased(Loaded(view, i), r.qty)]}
      [] r.kind = "issue" ->
            {[i \in {r.from} |-> Decreased(view[i], r.qty)]}
      [] r.kind = "transfer" ->
            {[i \in {r.from, r.to} |-> IF i = r.from THEN Decreased(view[i], r.qty)
                                       ELSE Increased(Loaded(view, i), r.qty)]}
      [] r.kind = "reserve" ->
            {[i \in {j \in DOMAIN t : t[j] > 0} |->
                 [view[i] EXCEPT !.reserved = @ + t[i], !.available = @ - t[i]]] :
                t \in Draws(view, "available", Need[r.plan])}
      [] r.kind = "complete" ->
            {[i \in {j \in DOMAIN t : t[j] > 0} |->
                 Decreased([view[i] EXCEPT !.reserved = @ - t[i], !.onHand = @ - t[i]], t[i])] :
                t \in {u \in Draws(view, "reserved", Need[r.plan]) :
                          \A i \in DOMAIN u : u[i] > 0 => view[i].available >= u[i]}}

\* The row of the source is checked as soon as it is selected.
SourceHolds(r, view) ==
    r.kind \in {"issue", "transfer"} /\ r.from \in DOMAIN view
        => view[r.from] # None /\ view[r.from].available >= r.qty

Selects(r) ==
    CASE r.kind = "receive"  -> <<{r.to}>>
      [] r.kind = "issue"    -> <<{r.from}>>
      [] r.kind = "transfer" -> <<{r.from}, {r.to}>>
      [] OTHER               -> <<Item>>

-----------------------------------------------------------------------------
Idle(s) == job[s] = None

\* Mutant of Ended: the session is returned with its transaction open.
EndedHolding(s) ==
    /\ job' = [job EXCEPT ![s] = None]
    /\ UNCHANGED lock

\* The transaction ends: its locks are freed and the session closed.
Ended(s) ==
    /\ job' = [job EXCEPT ![s] = None]
    /\ lock' = [i \in Item |-> IF lock[i] = s THEN None ELSE lock[i]]

Rollback(s) ==
    /\ Ended(s)
    /\ UNCHANGED <<balance, posted, consumed, promised, stage, begun, overwritten>>

\* Any stock that receipts and reservations served alone can leave behind.
Init ==
    /\ stage \in [Plan -> {"APPROVED", "MATERIAL_RESERVED"}]
    /\ \E held \in [Item -> Opening] :
          /\ promised \in [Item -> UNION {0 .. q : q \in Opening}]
          /\ \A i \in Item : promised[i] <= held[i]
          /\ Total(promised, Item) =
                Total(Need, {p \in Plan : stage[p] = "MATERIAL_RESERVED"})
          /\ balance = [i \in Item |->
                IF held[i] = 0 THEN None
                ELSE [onHand |-> held[i], reserved |-> promised[i],
                      available |-> held[i] - promised[i]]]
          /\ posted = held
    /\ consumed = [i \in Item |-> 0]
    /\ job = [s \in Session |-> None]
    /\ lock = [i \in Item |-> None]
    /\ begun = 0
    /\ overwritten = {}

\* The status of the plan, or of its order, is looked at before the rows.
Begin(s, r) ==
    /\ Idle(s)
    /\ begun < MaxRequests
    /\ r.kind = "reserve" => stage[r.plan] = "APPROVED"
    /\ r.kind = "complete" => stage[r.plan] = "MATERIAL_RESERVED"
    /\ begun' = begun + 1
    /\ job' = [job EXCEPT ![s] =
          [request |-> r, selects |-> Selects(r), view |-> <<>>, after |-> <<>>,
           queue |-> {}, checked |-> r.kind # "reserve"]]
    /\ UNCHANGED <<balance, posted, consumed, promised, stage, lock, overwritten>>

Select(s) ==
    /\ ~Idle(s)
    /\ job[s].selects # <<>>
    /\ LET j == job[s]
           view == [i \in DOMAIN j.view \cup Head(j.selects) |->
                      IF i \in DOMAIN j.view THEN j.view[i] ELSE balance[i]]
           last == Len(j.selects) = 1
       IN IF ~SourceHolds(j.request, view) \/ (last /\ Outcomes(j.request, view) = {})
          THEN Rollback(s)
          ELSE /\ \E after \in IF last THEN Outcomes(j.request, view) ELSE {<<>>} :
                     job' = [job EXCEPT ![s] =
                        [j EXCEPT !.selects = Tail(@), !.view = view, !.after = after,
                                  !.queue = DOMAIN after]]
               /\ UNCHANGED <<balance, posted, consumed, promised, stage, lock, begun, overwritten>>

\* A reservation then selects the workflow instance of its plan.
CheckInstance(s) ==
    /\ ~Idle(s)
    /\ job[s].selects = <<>>
    /\ ~job[s].checked
    /\ IF stage[job[s].request.plan] # "APPROVED"
       THEN Rollback(s)
       ELSE /\ job' = [job EXCEPT ![s].checked = TRUE]
            /\ UNCHANGED <<balance, posted, consumed, promised, stage, lock, begun, overwritten>>

\* An UPDATE waits for the row; an INSERT waits for an INSERT of the same key
\* and fails on the unique constraint if that one is committed.
Flush(s) ==
    /\ ~Idle(s)
    /\ job[s].checked
    /\ job[s].queue # {}
    /\ LET i == NextRow(job[s]) IN
       /\ lock[i] = None
       /\ IF job[s].view[i] = None /\ balance[i] # None
          THEN Rollback(s)
          ELSE /\ lock' = [lock EXCEPT ![i] = s]
               /\ job' = [job EXCEPT ![s].queue = @ \ {i}]
               /\ UNCHANGED <<balance, posted, consumed, promised, stage, begun, overwritten>>

\* The ORM writes the columns whose value changed since they were selected.
Dirty(j, i) ==
    {c \in Column : j.view[i] = None \/ j.after[i][c] # j.view[i][c]}

Written(j, i) ==
    IF balance[i] = None THEN j.after[i]
    ELSE [c \in Column |-> IF c \in Dirty(j, i) THEN j.after[i][c] ELSE balance[i][c]]

\* What is written from a view that is no longer true.
Stale(j, i) == {c \in Dirty(j, i) : j.view[i] # None /\ balance[i][c] # j.view[i][c]}

\* What a request moves of a column of an item, as its own view has it.
Moved(j, i, c) ==
    IF i \notin DOMAIN j.after THEN 0
    ELSE j.after[i][c] - (IF j.view[i] = None THEN 0 ELSE j.view[i][c])

Commit(s) ==
    /\ ~Idle(s)
    /\ job[s].selects = <<>> /\ job[s].checked /\ job[s].queue = {}
    /\ LET j == job[s]
           kind == j.request.kind
       IN
       /\ balance' = [i \in Item |-> IF i \in DOMAIN j.after THEN Written(j, i) ELSE balance[i]]
       /\ promised' = [i \in Item |-> promised[i] + Moved(j, i, "reserved")]
       /\ IF kind = "complete"
          THEN /\ posted' = [i \in Item |-> posted[i] + Moved(j, i, "reserved")]
               /\ consumed' = [i \in Item |-> consumed[i] - Moved(j, i, "reserved")]
          ELSE /\ posted' = [i \in Item |-> posted[i] + Moved(j, i, "onHand")]
               /\ UNCHANGED consumed
       /\ stage' = CASE kind = "reserve" -> [stage EXCEPT ![j.request.plan] = "MATERIAL_RESERVED"]
                     [] kind = "complete" -> [stage EXCEPT ![j.request.plan] = "COMPLETED"]
                     [] OTHER -> stage
       /\ overwritten' = overwritten \cup UNION {{i} \X Stale(j, i) : i \in DOMAIN j.after}
    /\ Ended(s)
    /\ UNCHANGED begun

\* PostgreSQL finds the cycle and fails one of the transactions in it.
FailDeadlocked(s) == InDeadlock(s) /\ Rollback(s)

\* The server process, or its connection, is gone.
Disconnect(s) == ~Idle(s) /\ Rollback(s)

Serve(s) == Select(s) \/ CheckInstance(s) \/ Flush(s) \/ Commit(s) \/ FailDeadlocked(s)

Next ==
    \E s \in Session :
        \/ \E r \in Request : Begin(s, r)
        \/ Serve(s)
        \/ Disconnect(s)

Spec == Init /\ [][Next]_vars

FairSpec == Spec /\ \A s \in Session : WF_vars(Serve(s))
-----------------------------------------------------------------------------
(***************************************************************************)
(* Every request begun ends, committed or rolled back, whoever holds the   *)
(* rows it waits for.                                                      *)
(***************************************************************************)
EveryRequestEnds == \A s \in Session : ~Idle(s) ~> Idle(s)
=============================================================================
