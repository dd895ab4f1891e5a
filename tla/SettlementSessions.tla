-------------------------- MODULE SettlementSessions --------------------------
(***************************************************************************)
(* Overlapping requests that check before they insert: supplier invoices   *)
(* and payments (ProcurementService), disbursements and repayments of one  *)
(* funding agreement (FundingService), each with its journal entry.  The   *)
(* check, the count a number is made of and the insert are queries of      *)
(* their own; between them other sessions commit, and no row is locked.    *)
(* Invoices and payments have unique numbers, and no constraint states     *)
(* what the check looked for.  The number of a journal entry is left out:  *)
(* it need not be unique, and nothing here depends on it.                  *)
(***************************************************************************)
EXTENDS Integers, FiniteSets, Tables

CONSTANTS
    Session,
    GoodsReceipt,
    Principal,        \* principal_amount of the agreement
    RepaymentAmount,  \* the principal_amounts of repayments that clients send
    MaxRequests,      \* requests ever begun
    MaxDay

ASSUME SettlementBounds ==
    /\ Principal \in Nat /\ RepaymentAmount \subseteq Int
    /\ MaxRequests \in Nat /\ MaxDay \in Nat \ {0}

VARIABLES
    today,
    row,        \* row[n]: the row of request n once committed (a Row), or None
    agreement,  \* the agreement's status
    session,    \* None or an Open request
    opened

vars == <<today, row, agreement, session, opened>>

Id == 1 .. MaxRequests
Documents == {"invoice", "payment"}

\* The amount of a repayment is its principal.  It may be zero or less: only with
\* margin and penalty, which are left out, must it come to more than nothing.
Request ==
    [kind : {"invoice"}, of : GoodsReceipt] \cup [kind : {"payment"}, of : Id] \cup
    [kind : {"disbursement"}, amount : 1 .. Principal] \cup
    [kind : {"repayment"}, amount : RepaymentAmount]

\* The number of an invoice or a payment: its date and its sequence.
Number == [day : 1 .. MaxDay, seq : Nat \ {0}]

AgreementStatus == {"DRAFT", "ACTIVE", "CLOSED"}

\* begun, checked and counted are history: what was committed when the request
\* loaded its first row, made its check and took its number.
Row == [request : Request, number : Number \cup {None},
        begun : SUBSET Id, checked : SUBSET Id, counted : SUBSET Id]

Stage == {"begun", "read", "checked", "numbered", "inserted", "entered", "reread", "settled"}

\* read: the disbursements found; loaded and status: of the agreement.
Open == [id : Id, request : Request, stage : Stage, read : Nat,
         loaded : AgreementStatus, status : AgreementStatus,
         number : Number \cup {None},
         begun : SUBSET Id, checked : SUBSET Id, counted : SUBSET Id]

ASSUME NoneIsNoRow == None \notin Row /\ None \notin Open
-----------------------------------------------------------------------------
(* What a query finds.                                                     *)

Committed == {n \in Id : row[n] # None}
Of(kind) == {n \in Committed : row[n].request.kind = kind}
Amounts(rows) == Total([n \in rows |-> row[n].request.amount], rows)
Disbursed == Amounts(Of("disbursement"))
Repaid == Amounts(Of("repayment"))

At(s, stage) == session[s] # None /\ session[s].stage = stage
Kind(s) == session[s].request.kind

\* Mutant of NextSeq: the requests under way are counted too.
SeqUnderWay(rows) ==
    Cardinality(rows) + Cardinality({s \in Session : session[s] # None})

\* count_by_tenant() + 1
NextSeq(rows) == Cardinality(rows) + 1

\* Mutant of Allowed: a repayment looks at what was disbursed only.
AllowedOfDisbursed(s) ==
    LET request == session[s].request IN
    CASE request.kind \in Documents ->
            \A n \in Of(request.kind) : row[n].request.of # request.of
      [] request.kind = "disbursement" -> Disbursed + request.amount <= Principal
      [] request.kind = "repayment" -> request.amount <= session[s].read

\* The check each request makes.  An invoice is POSTED until it has a payment,
\* so that a payment's two checks are one.
Allowed(s) ==
    LET request == session[s].request IN
    CASE request.kind \in Documents ->
            \A n \in Of(request.kind) : row[n].request.of # request.of
      [] request.kind = "disbursement" -> Disbursed + request.amount <= Principal
      [] request.kind = "repayment" -> request.amount <= session[s].read - Repaid

\* Mutant of NumberTaken: no unique constraint on the number.
NumberFree(s) == FALSE

\* The unique constraint on tenant and number.
NumberTaken(s) == \E n \in Of(Kind(s)) : row[n].number = session[s].number

\* The insert waits for a session that inserted the same number.
MustWait(s) ==
    \E t \in Session \ {s} :
        /\ session[t] # None
        /\ Kind(t) = Kind(s)
        /\ session[t].stage \in {"inserted", "entered"}
        /\ session[t].number = session[s].number

Becomes(s, open) == session' = [session EXCEPT ![s] = open]

-----------------------------------------------------------------------------
\* The status of a new agreement comes from the client.
Init ==
    /\ today = 1
    /\ row = [n \in Id |-> None]
    /\ agreement \in AgreementStatus
    /\ session = [s \in Session |-> None]
    /\ opened = 0

\* A request arrives and loads the receipt, the invoice or the agreement.
Begin(s, request) ==
    /\ session[s] = None
    /\ opened < MaxRequests
    /\ request.kind = "payment" => request.of \in Of("invoice")
    /\ opened' = opened + 1
    /\ Becomes(s, [id |-> opened + 1, request |-> request, stage |-> "begun", read |-> 0,
                   loaded |-> agreement, status |-> agreement,
                   number |-> None,
                   begun |-> Committed, checked |-> {}, counted |-> {}])
    /\ UNCHANGED <<today, row, agreement>>

\* get_agreement_bundle lists the disbursements before the repayments; after
\* its insert a repayment does so again.
ReadDisbursed(s) ==
    /\ session[s] # None /\ Kind(s) = "repayment"
    /\ \/ At(s, "begun") /\ Becomes(s, [session[s] EXCEPT !.stage = "read", !.read = Disbursed])
       \/ At(s, "entered") /\ Becomes(s, [session[s] EXCEPT !.stage = "reread", !.read = Disbursed])
    /\ UNCHANGED <<today, row, agreement, opened>>

\* A request that fails its check ends.
Check(s) ==
    /\ session[s] # None
    /\ IF Kind(s) = "repayment" THEN At(s, "read") ELSE At(s, "begun")
    /\ Becomes(s, IF Allowed(s) THEN [session[s] EXCEPT !.stage = "checked", !.checked = Committed]
                  ELSE None)
    /\ UNCHANGED <<today, row, agreement, opened>>

TakeNumber(s) ==
    /\ At(s, "checked") /\ Kind(s) \in Documents
    /\ Becomes(s, [session[s] EXCEPT
          !.stage = "numbered", !.counted = Committed,
          !.number = [day |-> today, seq |-> NextSeq(Of(Kind(s)))]])
    /\ UNCHANGED <<today, row, agreement, opened>>

\* A request whose number was taken meanwhile ends.
Insert(s) ==
    /\ At(s, "numbered")
    /\ ~MustWait(s)
    /\ Becomes(s, IF NumberTaken(s) THEN None ELSE [session[s] EXCEPT !.stage = "inserted"])
    /\ UNCHANGED <<today, row, agreement, opened>>

\* create_and_post_operational_journal, and the insert of a disbursement or a
\* repayment after it.
EnterJournal(s) ==
    /\ session[s] # None
    /\ IF Kind(s) \in Documents THEN At(s, "inserted") ELSE At(s, "checked")
    /\ Becomes(s, [session[s] EXCEPT
          !.stage = "entered",
          !.status = IF Kind(s) = "disbursement" THEN "ACTIVE" ELSE @])
    /\ UNCHANGED <<today, row, agreement, opened>>

\* The status a repayment leaves, its own row among those found.
Settle(s) ==
    /\ At(s, "reread")
    /\ Becomes(s, [session[s] EXCEPT !.stage = "settled",
          !.status = IF session[s].read - (Repaid + session[s].request.amount) <= 0
                     THEN "CLOSED" ELSE "ACTIVE"])
    /\ UNCHANGED <<today, row, agreement, opened>>

\* Mutant of StatusWritten: a request leaves a closed agreement alone.
StatusKeptClosed(s) ==
    IF session[s].loaded = "DRAFT" \/ session[s].status = "CLOSED" THEN session[s].status
    ELSE agreement

\* The session writes the status if it differs from what it loaded.
StatusWritten(s) ==
    IF session[s].status # session[s].loaded THEN session[s].status ELSE agreement

Commit(s) ==
    /\ session[s] # None
    /\ IF Kind(s) = "repayment" THEN At(s, "settled") ELSE At(s, "entered")
    /\ row' = [row EXCEPT ![session[s].id] =
          [request |-> session[s].request, number |-> session[s].number,
           begun |-> session[s].begun, checked |-> session[s].checked, counted |-> session[s].counted]]
    /\ agreement' = StatusWritten(s)
    /\ Becomes(s, None)
    /\ UNCHANGED <<today, opened>>

\* The client or the connection is lost: nothing is committed.
Disconnect(s) ==
    /\ session[s] # None
    /\ Becomes(s, None)
    /\ UNCHANGED <<today, row, agreement, opened>>

Midnight ==
    /\ today < MaxDay
    /\ today' = today + 1
    /\ UNCHANGED <<row, agreement, session, opened>>

Next ==
    \/ \E s \in Session :
          \/ \E request \in Request : Begin(s, request)
          \/ ReadDisbursed(s)
          \/ Check(s)
          \/ TakeNumber(s)
          \/ Insert(s)
          \/ EnterJournal(s)
          \/ Settle(s)
          \/ Commit(s)
          \/ Disconnect(s)
    \/ Midnight

Spec == Init /\ [][Next]_vars
-----------------------------------------------------------------------------
SettlementTypeOK ==
    /\ today \in 1 .. MaxDay
    /\ row \in [Id -> Row \cup {None}]
    /\ agreement \in AgreementStatus
    /\ session \in [Session -> Open \cup {None}]
    /\ opened \in 0 .. MaxRequests

(***************************************************************************)
(* The number a request served alone would take is never taken already: no *)
(* number runs ahead of the count, whichever requests failed or were lost  *)
(* and whatever the day.  Otherwise no invoice could be made any more.     *)
(***************************************************************************)
NextNumberIsFree ==
    \A kind \in Documents : \A n \in Of(kind) : row[n].number.seq <= Cardinality(Of(kind))

\* Another document was committed between n's check and its count.
Overtaken(n) == (row[n].counted \ row[n].checked) \cap Of(row[n].request.kind) # {}

\* Midnight let a sequence be used twice.
SequenceReused(kind) ==
    \E n, m \in Of(kind) :
        /\ row[n].number.seq = row[m].number.seq
        /\ row[n].number.day # row[m].number.day

(***************************************************************************)
(* A receipt gets a second invoice, or an invoice a second payment, only   *)
(* where one of the two was overtaken between its check and its count, or  *)
(* midnight let a sequence be used twice.  In all other cases the unique   *)
(* number, which was not meant for that, refuses one of them.              *)
(***************************************************************************)
SecondOneWasOvertaken ==
    \A kind \in Documents : \A n, m \in Of(kind) :
        n # m /\ row[n].request.of = row[m].request.of
            => Overtaken(n) \/ Overtaken(m) \/ SequenceReused(kind)

\* The requests that raised what is outstanding.
Raising == Of("disbursement") \cup {n \in Of("repayment") : row[n].request.amount < 0}

\* Neither saw the other.
Overlap(n, m) == n \notin row[m].begun /\ m \notin row[n].begun

(***************************************************************************)
(* More than the principal is disbursed, or more repaid than disbursed,    *)
(* only by two requests that overlapped.                                   *)
(***************************************************************************)
LimitsNeedOverlap ==
    LET overlapping(rows) == \E n, m \in rows : n # m /\ Overlap(n, m) IN
    /\ Disbursed > Principal => overlapping(Of("disbursement"))
    /\ Repaid > Disbursed => overlapping(Of("repayment"))

(***************************************************************************)
(* An agreement is closed while principal is outstanding only where a      *)
(* repayment overlapped a request that raised what is outstanding: a       *)
(* disbursement, or a repayment of less than nothing.                      *)
(***************************************************************************)
ClosedMeansRepaid ==
    agreement = "CLOSED" /\ Disbursed > Repaid
        => \E n \in Raising, m \in Of("repayment") : n # m /\ Overlap(n, m)
=============================================================================
