------------------------------ MODULE StockFefo ------------------------------
(***************************************************************************)
(* The FEFO preview of StockService (first expired, first out): which      *)
(* batches to issue a quantity from.  It reads the batches StockLedger     *)
(* leaves behind and writes nothing.                                       *)
(***************************************************************************)
EXTENDS StockLedger, Sequences

CONSTANT Expiry  \* Expiry[b]: rank of b by expiry, received date and number

ASSUME ExpiryIsAnOrder ==
    /\ Expiry \in [Batch -> Nat]
    /\ \A b, c \in Batch : Expiry[b] = Expiry[c] => b = c

-----------------------------------------------------------------------------
\* Mutant of Candidates: blocked batches are listed too.
CandidatesBlockedToo(x, w) ==
    {b \in Batch : /\ batch[b] # None
                   /\ batch[b].product = x
                   /\ batch[b].onHand > 0
                   /\ w # None => batch[b].warehouse = w}

\* list_fefo_candidates: w is None when the request names no warehouse.
Candidates(x, w) ==
    {b \in Batch : /\ batch[b] # None
                   /\ batch[b].product = x
                   /\ ~batch[b].blocked
                   /\ batch[b].onHand > 0
                   /\ w # None => batch[b].warehouse = w}

\* Mutant of CandidateList: last expired first.
NewestFirst(x, w) ==
    CHOOSE list \in [1 .. Cardinality(Candidates(x, w)) -> Candidates(x, w)] :
        \A n, m \in DOMAIN list : n < m => Expiry[list[n]] > Expiry[list[m]]

CandidateList(x, w) ==
    CHOOSE list \in [1 .. Cardinality(Candidates(x, w)) -> Candidates(x, w)] :
        \A n, m \in DOMAIN list : n < m => Expiry[list[n]] < Expiry[list[m]]

Lesser(p, q) == IF p <= q THEN p ELSE q

\* suggest_fefo_issue: what is still required after each batch of the list.
Remaining(list, required) ==
    LET remaining[n \in 0 .. Len(list)] ==
            IF n = 0 THEN required
            ELSE remaining[n - 1] - Lesser(batch[list[n]].onHand, remaining[n - 1])
    IN  remaining

\* The lines of the preview, one for each batch visited while something is still required.
Preview(x, w, required) ==
    LET list == CandidateList(x, w)
        remaining == Remaining(list, required)
    IN [n \in {m \in DOMAIN list : remaining[m - 1] > 0} |->
           [batch |-> list[n], issue |-> Lesser(batch[list[n]].onHand, remaining[n - 1])]]

-----------------------------------------------------------------------------
Unblocked(x, w) ==
    {b \in Batch : /\ batch[b] # None /\ ~batch[b].blocked /\ batch[b].product = x
                   /\ w \in {None, batch[b].warehouse}}

\* A batch may be created with stock below zero; only the others can give any.
Stocked(x, w) == {b \in Unblocked(x, w) : batch[b].onHand > 0}

(***************************************************************************)
(* Whatever was created and posted before, the lines of a preview can be   *)
(* posted one after another as far as the batch checks of                  *)
(* create_transaction go: each is let through and no two are of one batch. *)
(* And the preview falls short of what is required only when the unblocked *)
(* batches that have stock do.                                             *)
(***************************************************************************)
PreviewCanBeIssued ==
    \A x \in Product, w \in Warehouse \cup {None}, required \in Quantity :
        LET lines == Preview(x, w, required)
            held == Total([b \in Stocked(x, w) |-> batch[b].onHand], Stocked(x, w))
        IN
        /\ \A n \in DOMAIN lines :
              lines[n].issue > 0 /\ BatchServes(lines[n].batch, x, lines[n].issue)
        /\ \A n, m \in DOMAIN lines : lines[n].batch = lines[m].batch => n = m
        /\ Total([n \in DOMAIN lines |-> lines[n].issue], DOMAIN lines) = Lesser(required, held)

(***************************************************************************)
(* No batch is touched while one that expires earlier keeps stock.         *)
(***************************************************************************)
FirstExpiredFirstOut ==
    \A x \in Product, w \in Warehouse \cup {None}, required \in Quantity :
        LET lines == Preview(x, w, required) IN
        \A n \in DOMAIN lines, b \in Unblocked(x, w) :
            Expiry[b] < Expiry[lines[n].batch] /\ batch[b].onHand > 0
                => \E m \in DOMAIN lines :
                      lines[m].batch = b /\ lines[m].issue = batch[b].onHand
=============================================================================
