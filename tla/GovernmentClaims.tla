--------------------------- MODULE GovernmentClaims ---------------------------
(***************************************************************************)
(* Government claims (GovernmentClaimService): drawn up from deliveries    *)
(* that have a proof, submitted with evidence, verified, adjusted by hand  *)
(* and paid, each payment with its journal entry.  A request loads the     *)
(* claim, checks, and writes the columns it changed at its commit; nothing *)
(* is locked in between.  What keeps payments apart is the unique source   *)
(* of a journal entry, and its source is the claim.                        *)
(***************************************************************************)
EXTENDS Integers, FiniteSets, Tables

CONSTANTS
    Session,
    Claim,
    Delivery,
    MaxReceived,    \* portions a proof may report, at most
    MaxLines,       \* lines of a claim
    UnitCost,       \* actual_cost_per_portion
    Amounts,        \* amounts a client may name: negative ones too
    MaxChanges,     \* submissions, verifications and adjustments of a claim
    MaxPayments     \* payments committed

ASSUME ClaimBounds ==
    /\ IsFiniteSet(Delivery)
    /\ MaxReceived \in Nat /\ MaxLines \in Nat /\ UnitCost \in Nat /\ Amounts \subseteq Int
    /\ MaxChanges \in Nat /\ MaxPayments \in Nat

VARIABLES
    received,   \* received_portions of each delivery
    claim,
    payment,    \* payment[n]: the n-th payment, and the journal entry it came with
    session

vars == <<received, claim, payment, session>>

ClaimStatus == {"DRAFT", "SUBMITTED", "UNDER_VERIFICATION", "APPROVED", "ADJUSTED",
                "REJECTED", "PARTIALLY_PAID", "PAID"}
Decision == {"APPROVED", "ADJUSTED", "REJECTED", "PENDING"}

PaymentId == 1 .. MaxPayments
Received == 0 .. MaxReceived

\* The deliveries a client lists, one of them perhaps twice.
DeliveryList == UNION {[1 .. n -> Delivery] : n \in 1 .. MaxLines}

\* The columns a request may change.
Columns == [status : ClaimStatus, approved : Int \cup {None}, paid : Int]

\* evidence: the claim has some.  History: verified and adjusted, whether that
\* was ever committed; changes, how many requests but payments were.
ClaimRow == [columns : Columns, portions : Nat, claimed : Nat, evidence : BOOLEAN,
             verified : BOOLEAN, adjusted : BOOLEAN, changes : 0 .. MaxChanges]

\* after is history: the claim's changes when the payment was checked.
PaymentRow == [of : Claim, amount : Int, after : 0 .. MaxChanges]

\* What a request holds until its commit: the columns as loaded and as set.
Pending ==
    [kind : {"submit", "verify", "adjust"}, of : Claim, loaded : Columns, set : Columns] \cup
    [kind : {"pay"}, of : Claim, loaded : Columns, set : Columns, row : PaymentRow]

ASSUME NoneIsNoRow ==
    None \notin ClaimRow /\ None \notin PaymentRow /\ None \notin Pending /\ None \notin Int
-----------------------------------------------------------------------------
Existing(row) == {x \in DOMAIN row : row[x] # None}
Payments(c) == {n \in Existing(payment) : payment[n].of = c}
PaidOut(c) == Total([n \in Payments(c) |-> payment[n].amount], Payments(c))

\* approved_amount, or claimed_amount while nothing was decided.
Due(c) ==
    IF claim[c].columns.approved # None THEN claim[c].columns.approved ELSE claim[c].claimed

\* Mutant of SourceTaken: a source of its own for each payment.
SourceFree(c) == FALSE

\* The unique constraint on the source of journal entries.
SourceTaken(c) == Payments(c) # {}

Written(loaded, set, current) ==
    [column \in DOMAIN current |->
        IF set[column] # loaded[column] THEN set[column] ELSE current[column]]

Holds(s, pending) == session[s] = None /\ session' = [session EXCEPT ![s] = pending]

Request(kind, c, set) ==
    [kind |-> kind, of |-> c, loaded |-> claim[c].columns, set |-> set]
-----------------------------------------------------------------------------
Init ==
    /\ received = [d \in Delivery |-> None]
    /\ claim = [c \in Claim |-> None]
    /\ payment = [n \in PaymentId |-> None]
    /\ session = [s \in Session |-> None]

\* A proof is recorded, or a further one (ReceivedOnce says when).
Receive(d, portions) ==
    /\ received' = [received EXCEPT ![d] = portions]
    /\ UNCHANGED <<claim, payment, session>>

\* The portions of the listed deliveries, counted one by one.
PortionsOf(lines) ==
    Cardinality({p \in (DOMAIN lines) \X (1 .. MaxReceived) : p[2] <= received[lines[p[1]]]})

\* create_claim: a delivery may be claimed that was claimed before, or is
\* listed twice.  All reads are of one row each and the claim is new: one step.
CreateClaim(c, lines, evidence) ==
    /\ claim[c] = None
    /\ \A i \in DOMAIN lines : received[lines[i]] # None
    /\ claim' = [claim EXCEPT ![c] =
          [columns |-> [status |-> "DRAFT", approved |-> None, paid |-> 0],
           portions |-> PortionsOf(lines), claimed |-> UnitCost * PortionsOf(lines),
           evidence |-> evidence, verified |-> FALSE, adjusted |-> FALSE, changes |-> 0]]
    /\ UNCHANGED <<received, payment, session>>

BeginSubmit(s, c) ==
    /\ claim[c].columns.status = "DRAFT"
    /\ claim[c].claimed > 0 /\ claim[c].portions > 0
    /\ claim[c].evidence
    /\ Holds(s, Request("submit", c, [claim[c].columns EXCEPT !.status = "SUBMITTED"]))
    /\ UNCHANGED <<received, claim, payment>>

\* Mutant of Verifiable: drafts may be verified.
VerifiableDraft == {"DRAFT", "SUBMITTED", "UNDER_VERIFICATION"}

Verifiable == {"SUBMITTED", "UNDER_VERIFICATION"}

\* The amount verified is the client's.
BeginVerify(s, c, decision, amount) ==
    /\ claim[c].columns.status \in Verifiable
    /\ Holds(s, Request("verify", c,
          CASE decision \in {"APPROVED", "ADJUSTED"} ->
                  [claim[c].columns EXCEPT !.status = decision, !.approved = amount]
            [] decision = "REJECTED" ->
                  [claim[c].columns EXCEPT !.status = decision, !.approved = 0]
            [] decision = "PENDING" ->
                  [claim[c].columns EXCEPT !.status = "UNDER_VERIFICATION"]))
    /\ UNCHANGED <<received, claim, payment>>

\* add_adjustment, whatever the status.
BeginAdjust(s, c, amount) ==
    /\ Holds(s, Request("adjust", c,
          [claim[c].columns EXCEPT !.status = "ADJUSTED", !.approved = Due(c) + amount]))
    /\ UNCHANGED <<received, claim, payment>>

Payable == {"APPROVED", "ADJUSTED", "PARTIALLY_PAID", "PAID"}

\* Mutant of Remaining: of the amount claimed.
RemainingOfClaimed(c) == claim[c].claimed - claim[c].columns.paid

Remaining(c) == Due(c) - claim[c].columns.paid

BeginPay(s, c, amount) ==
    /\ claim[c].columns.status \in Payable
    /\ 0 < amount /\ amount <= Remaining(c)
    /\ LET paid == claim[c].columns.paid + amount
           status == IF Due(c) - paid <= 0 THEN "PAID" ELSE "PARTIALLY_PAID"
           set == [claim[c].columns EXCEPT !.status = status, !.paid = paid]
       IN Holds(s, [kind |-> "pay", of |-> c, loaded |-> claim[c].columns, set |-> set,
                    row |-> [of |-> c, amount |-> amount, after |-> claim[c].changes]])
    /\ UNCHANGED <<received, claim, payment>>

Ends(s) == session' = [session EXCEPT ![s] = None]

CommitDecision(s) ==
    /\ session[s] # None /\ session[s].kind \in {"submit", "verify", "adjust"}
    /\ LET p == session[s] IN
       /\ claim[p.of].changes < MaxChanges
       /\ claim' = [claim EXCEPT
             ![p.of].columns = Written(p.loaded, p.set, @),
             ![p.of].verified = @ \/ p.kind = "verify",
             ![p.of].adjusted = @ \/ p.kind = "adjust",
             ![p.of].changes = @ + 1]
    /\ Ends(s)
    /\ UNCHANGED <<received, payment>>

\* The journal entry is inserted first: where its source is taken the whole
\* request fails.
CommitPayment(s) ==
    /\ session[s] # None /\ session[s].kind = "pay"
    /\ LET p == session[s]
           n == Cardinality(Existing(payment)) + 1
       IN IF SourceTaken(p.of) THEN UNCHANGED <<claim, payment>>
          ELSE /\ n <= MaxPayments
               /\ payment' = [payment EXCEPT ![n] = p.row]
               /\ claim' = [claim EXCEPT ![p.of].columns = Written(p.loaded, p.set, @)]
    /\ Ends(s)
    /\ UNCHANGED received

\* The client is lost, or an account of the journal does not exist.
Disconnect(s) ==
    /\ session[s] # None
    /\ Ends(s)
    /\ UNCHANGED <<received, claim, payment>>

Next ==
    \/ \E d \in Delivery, portions \in Received : Receive(d, portions)
    \/ \E c \in Claim, lines \in DeliveryList, evidence \in BOOLEAN : CreateClaim(c, lines, evidence)
    \/ \E s \in Session :
          \/ \E c \in Existing(claim) :
                \/ BeginSubmit(s, c)
                \/ \E decision \in Decision, amount \in Amounts : BeginVerify(s, c, decision, amount)
                \/ \E amount \in Amounts : BeginAdjust(s, c, amount)
                \/ \E amount \in Amounts : BeginPay(s, c, amount)
          \/ CommitDecision(s)
          \/ CommitPayment(s)
          \/ Disconnect(s)

Spec == Init /\ [][Next]_vars

\* Every request ends, someone keeps paying what a claim still lacks, and not
\* every attempt is lost on the way.
PayRest(c) == c \in Existing(claim) /\ \E s \in Session : BeginPay(s, c, Remaining(c))

FairSpec ==
    /\ Spec
    /\ \A c \in Claim : SF_vars(PayRest(c))
    /\ \A s \in Session :
          /\ WF_vars(CommitDecision(s) \/ CommitPayment(s) \/ Disconnect(s))
          /\ SF_vars(CommitPayment(s))
-----------------------------------------------------------------------------
ClaimsTypeOK ==
    /\ received \in [Delivery -> Received \cup {None}]
    /\ claim \in [Claim -> ClaimRow \cup {None}]
    /\ payment \in [PaymentId -> PaymentRow \cup {None}]
    /\ session \in [Session -> Pending \cup {None}]

(***************************************************************************)
(* No payment is lost or counted twice: the paid amount of a claim is what *)
(* its payments add up to, although each of two overlapping payments adds  *)
(* to the amount it loaded.                                                *)
(***************************************************************************)
PaidIsPaidOut ==
    \A c \in Existing(claim) : claim[c].columns.paid = PaidOut(c)

(***************************************************************************)
(* Unless a submission, verification or adjustment was committed after a   *)
(* payment was checked, the claim is paid no more than it is due, and its  *)
(* status tells whether all of it was paid.                                *)
(***************************************************************************)
BooksAgree ==
    \A c \in Existing(claim) : \A n \in Payments(c) :
        payment[n].after = claim[c].changes =>
            /\ claim[c].columns.paid <= Due(c)
            /\ claim[c].columns.status =
                  IF claim[c].columns.paid = Due(c) THEN "PAID" ELSE "PARTIALLY_PAID"

(***************************************************************************)
(* A verification is of a claim that was submitted, with an amount and     *)
(* evidence; a claim paid without one was adjusted by hand.                *)
(***************************************************************************)
JudgedBeforePaid ==
    \A c \in Existing(claim) :
        /\ claim[c].verified => claim[c].evidence /\ claim[c].claimed > 0
        /\ Payments(c) # {} => claim[c].verified \/ claim[c].adjusted

(***************************************************************************)
(* What the guard of record_payment and the status matrix say: a claim     *)
(* that is paid in part can be paid the rest.                              *)
(***************************************************************************)
PartlyPaidIsSettled ==
    LET partlyPaid(c) == claim[c] # None /\ claim[c].columns.status = "PARTIALLY_PAID" IN
    \A c \in Claim : partlyPaid(c) ~> ~partlyPaid(c)
=============================================================================
