------------------------ MODULE GovernmentClaimsProofs ------------------------
(***************************************************************************)
(* For any number of claims, sessions and amounts: no claim is verified    *)
(* that was not submitted with an amount and evidence, none is paid that   *)
(* was neither verified nor adjusted by hand, a payment that nothing       *)
(* overtook leaves the books right, and what a claim shows as paid is what *)
(* its payments add up to.                                                 *)
(***************************************************************************)
EXTENDS GovernmentClaims, TablesProofs, FiniteSetTheorems, TLAPS

\* What a submission asks for.
Founded(c) == claim[c].evidence /\ claim[c].claimed > 0

Judged(c) == claim[c].verified \/ claim[c].adjusted

\* What is due of a claim claimed at this amount.
DueOf(columns, claimed) == IF columns.approved # None THEN columns.approved ELSE claimed

\* The books of these columns agree.
Settled(columns, claimed) ==
    /\ columns.paid <= DueOf(columns, claimed)
    /\ columns.status = IF columns.paid = DueOf(columns, claimed) THEN "PAID" ELSE "PARTIALLY_PAID"

\* What a request may write, and of which claims it was accepted.  A payment
\* that nothing overtook has loaded the claim as it is.
Entitled(r) ==
    /\ r.kind = "submit" => Founded(r.of) /\ r.set.status = "SUBMITTED"
    /\ r.kind = "verify" => Founded(r.of) /\ r.set.status \notin {"PAID", "PARTIALLY_PAID"}
    /\ r.kind = "adjust" => r.set.status = "ADJUSTED"
    /\ r.kind = "pay" =>
          /\ Judged(r.of)
          /\ r.row.of = r.of
          /\ r.set.status \in {"PAID", "PARTIALLY_PAID"}
          /\ Settled(r.set, claim[r.of].claimed)
          /\ r.row.after <= claim[r.of].changes
          /\ r.row.after = claim[r.of].changes /\ Payments(r.of) = {}
                => claim[r.of].columns = r.loaded

Sound(c) ==
    /\ claim[c].columns.status \in Verifiable => Founded(c)
    /\ claim[c].columns.status \in Payable => Judged(c)
    /\ claim[c].verified => Founded(c)
    /\ Payments(c) # {} => Judged(c)
    /\ \A n \in Payments(c) :
          /\ payment[n].after <= claim[c].changes
          /\ payment[n].after = claim[c].changes => Settled(claim[c].columns, claim[c].claimed)

\* Requests are about claims there are.
Referenced == \A s \in Session : session[s] # None => session[s].of \in Existing(claim)

\* Payments are numbered without gaps: a new one replaces none.
Numbered == \E k \in 0 .. MaxPayments : Existing(payment) = 1 .. k

ClaimsInv ==
    /\ ClaimsTypeOK
    /\ Referenced
    /\ Numbered
    /\ \A c \in Existing(claim) : Sound(c)
    /\ \A c \in Claim : claim[c] = None => Payments(c) = {}
    /\ \A s \in Session : session[s] # None => Entitled(session[s])
-----------------------------------------------------------------------------
LEMMA PortionsAreNatural == ASSUME NEW lines \in DeliveryList PROVE PortionsOf(lines) \in Nat
<1>1. PICK n \in 1 .. MaxLines : DOMAIN lines = 1 .. n
  BY DEF DeliveryList
<1>2. IsFiniteSet((DOMAIN lines) \X (1 .. MaxReceived))
  <2>1. IsFiniteSet(1 .. n) /\ IsFiniteSet(1 .. MaxReceived)
    BY ClaimBounds, FS_Interval
  <2> QED
    BY <1>1, <2>1, FS_Product
<1>3. {p \in (DOMAIN lines) \X (1 .. MaxReceived) : p[2] <= received[lines[p[1]]]}
        \in SUBSET ((DOMAIN lines) \X (1 .. MaxReceived))
  OBVIOUS
<1> QED
  BY <1>2, <1>3, FS_Subset, FS_CardinalityType DEF PortionsOf

\* A column is written, or left as another request made it.
LEMMA WrittenColumns ==
    ASSUME NEW loaded \in Columns, NEW set \in Columns, NEW current \in Columns
    PROVE  /\ Written(loaded, set, current) \in Columns
           /\ Written(loaded, set, current).status \in {set.status, current.status}
           /\ current = loaded => Written(loaded, set, current) = set
           /\ Written(loaded, set, current).paid =
                 IF set.paid # loaded.paid THEN set.paid ELSE current.paid
<1> DEFINE w == Written(loaded, set, current)
<1>1. DOMAIN current = {"status", "approved", "paid"}
  BY DEF Columns
<1>2. w = [column \in {"status", "approved", "paid"} |->
              IF set[column] # loaded[column] THEN set[column] ELSE current[column]]
  BY <1>1 DEF Written
<1>3. w = [status |-> w.status, approved |-> w.approved, paid |-> w.paid]
  BY <1>2
<1>4. /\ w.status \in {set.status, current.status}
      /\ w.approved \in {set.approved, current.approved}
      /\ w.paid = IF set.paid # loaded.paid THEN set.paid ELSE current.paid
      /\ current = loaded => w.status = set.status /\ w.approved = set.approved /\ w.paid = set.paid
  BY <1>2
<1> HIDE DEF w
<1>5. w \in Columns
  BY <1>3, <1>4 DEF Columns
<1>6. set = [status |-> set.status, approved |-> set.approved, paid |-> set.paid]
  BY DEF Columns
<1>7. current = loaded => w = set
  BY <1>3, <1>4, <1>6
<1> QED
  BY <1>4, <1>5, <1>7 DEF w

\* What a session holds, and of which claim.
LEMMA Held ==
    ASSUME ClaimsTypeOK, NEW s \in Session, session[s] # None
    PROVE  /\ session[s].kind \in {"submit", "verify", "adjust", "pay"}
           /\ session[s].of \in Claim
           /\ session[s].loaded \in Columns /\ session[s].set \in Columns
           /\ session[s].kind = "pay" => session[s].row \in PaymentRow
<1>1. session[s] \in Pending
  BY DEF ClaimsTypeOK
<1> QED
  BY <1>1 DEF Pending

LEMMA RequestIsPending ==
    ASSUME ClaimsTypeOK, NEW c \in Existing(claim), NEW kind \in {"submit", "verify", "adjust"},
           NEW set \in Columns
    PROVE  Request(kind, c, set) \in Pending
<1>1. c \in Claim /\ claim[c] \in ClaimRow
  BY DEF ClaimsTypeOK, Existing
<1> QED
  BY <1>1 DEF Request, Pending, ClaimRow

\* What is paid and due of a claim are numbers.
LEMMA Numbers ==
    ASSUME ClaimsTypeOK, NEW c \in Existing(claim)
    PROVE  /\ c \in Claim /\ claim[c] \in ClaimRow /\ claim[c].columns \in Columns
           /\ Due(c) \in Int /\ claim[c].columns.paid \in Int /\ claim[c].changes \in Nat
           /\ claim[c].claimed \in Nat /\ claim[c].changes \in 0 .. MaxChanges
<1>1. c \in Claim /\ claim[c] \in ClaimRow
  BY DEF ClaimsTypeOK, Existing
<1>2. claim[c].columns \in Columns /\ claim[c].claimed \in Nat /\ claim[c].changes \in 0 .. MaxChanges
  BY <1>1 DEF ClaimRow
<1> QED
  BY <1>1, <1>2, ClaimBounds DEF Due, Columns
-----------------------------------------------------------------------------
LEMMA TypesStep == ClaimsTypeOK /\ Referenced /\ [Next]_vars => ClaimsTypeOK'
<1> SUFFICES ASSUME ClaimsTypeOK, Referenced, [Next]_vars PROVE ClaimsTypeOK'
  OBVIOUS
<1>1. ASSUME NEW d \in Delivery, NEW portions \in Received, Receive(d, portions) PROVE ClaimsTypeOK'
  BY <1>1 DEF ClaimsTypeOK, Receive
<1>2. ASSUME NEW c \in Claim, NEW lines \in DeliveryList, NEW evidence \in BOOLEAN,
             CreateClaim(c, lines, evidence)
      PROVE  ClaimsTypeOK'
  <2> DEFINE new ==
        [columns |-> [status |-> "DRAFT", approved |-> None, paid |-> 0],
         portions |-> PortionsOf(lines), claimed |-> UnitCost * PortionsOf(lines),
         evidence |-> evidence, verified |-> FALSE, adjusted |-> FALSE, changes |-> 0]
  <2>1. PortionsOf(lines) \in Nat /\ UnitCost * PortionsOf(lines) \in Nat
    BY PortionsAreNatural, ClaimBounds
  <2>2. [status |-> "DRAFT", approved |-> None, paid |-> 0] \in Columns
    BY DEF Columns, ClaimStatus
  <2>3. new \in ClaimRow
    BY <2>1, <2>2, ClaimBounds DEF ClaimRow
  <2>4. claim' = [claim EXCEPT ![c] = new] /\ UNCHANGED <<received, payment, session>>
    BY <1>2 DEF CreateClaim
  <2> HIDE DEF new
  <2> QED
    BY <2>3, <2>4 DEF ClaimsTypeOK
<1>3. ASSUME NEW s \in Session, NEW held \in Pending \cup {None},
             session' = [session EXCEPT ![s] = held], UNCHANGED <<received, claim, payment>>
      PROVE  ClaimsTypeOK'
  BY <1>3 DEF ClaimsTypeOK
<1>4. ASSUME NEW s \in Session, NEW c \in Existing(claim), BeginSubmit(s, c) PROVE ClaimsTypeOK'
  <2>1. [claim[c].columns EXCEPT !.status = "SUBMITTED"] \in Columns
    BY Numbers DEF Columns, ClaimStatus
  <2>2. Request("submit", c, [claim[c].columns EXCEPT !.status = "SUBMITTED"]) \in Pending
    BY <2>1, RequestIsPending
  <2> QED
    BY <1>3, <1>4, <2>2 DEF BeginSubmit, Holds
<1>5. ASSUME NEW s \in Session, NEW c \in Existing(claim), NEW decision \in Decision,
             NEW amount \in Amounts, BeginVerify(s, c, decision, amount)
      PROVE  ClaimsTypeOK'
  <2>1. \E set \in Columns : session' = [session EXCEPT ![s] = Request("verify", c, set)]
    <3>1. amount \in Int /\ claim[c].columns \in Columns
      BY ClaimBounds, Numbers
    <3>2. ASSUME NEW status \in ClaimStatus, NEW approved \in Int \cup {None}
          PROVE  [claim[c].columns EXCEPT !.status = status, !.approved = approved] \in Columns
      BY <3>1 DEF Columns
    <3>3. CASE decision \in {"APPROVED", "ADJUSTED"}
      <4>1. [claim[c].columns EXCEPT !.status = decision, !.approved = amount] \in Columns
        BY <3>1, <3>2, <3>3 DEF ClaimStatus
      <4> QED
        BY <1>5, <4>1, <3>3 DEF BeginVerify, Holds
    <3>4. CASE decision = "REJECTED"
      <4>1. "REJECTED" \in ClaimStatus /\ 0 \in Int \cup {None}
        BY DEF ClaimStatus
      <4>2. [claim[c].columns EXCEPT !.status = "REJECTED", !.approved = 0] \in Columns
        BY <3>2, <4>1
      <4> QED
        BY <1>5, <4>2, <3>4 DEF BeginVerify, Holds
    <3>5. CASE decision = "PENDING"
      <4>1. [claim[c].columns EXCEPT !.status = "UNDER_VERIFICATION"] \in Columns
        BY <3>1 DEF Columns, ClaimStatus
      <4> QED
        BY <1>5, <4>1, <3>5 DEF BeginVerify, Holds
    <3> QED
      BY <3>3, <3>4, <3>5 DEF Decision
  <2> QED
    BY <1>3, <1>5, <2>1, RequestIsPending DEF BeginVerify
<1>6. ASSUME NEW s \in Session, NEW c \in Existing(claim), NEW amount \in Amounts,
             BeginAdjust(s, c, amount)
      PROVE  ClaimsTypeOK'
  <2> DEFINE set == [claim[c].columns EXCEPT !.status = "ADJUSTED", !.approved = Due(c) + amount]
  <2>1. Due(c) + amount \in Int
    BY ClaimBounds, Numbers
  <2>2. set \in Columns
    BY <2>1, Numbers DEF Columns, ClaimStatus
  <2>3. session' = [session EXCEPT ![s] = Request("adjust", c, set)]
    BY <1>6 DEF BeginAdjust, Holds
  <2> HIDE DEF set
  <2> QED
    BY <1>3, <1>6, <2>2, <2>3, RequestIsPending DEF BeginAdjust
<1>7. ASSUME NEW s \in Session, NEW c \in Existing(claim), NEW amount \in Amounts,
             BeginPay(s, c, amount)
      PROVE  ClaimsTypeOK'
  <2> DEFINE paid == claim[c].columns.paid + amount
             status == IF Due(c) - paid <= 0 THEN "PAID" ELSE "PARTIALLY_PAID"
             set == [claim[c].columns EXCEPT !.status = status, !.paid = paid]
             row == [of |-> c, amount |-> amount, after |-> claim[c].changes]
             held == [kind |-> "pay", of |-> c, loaded |-> claim[c].columns, set |-> set, row |-> row]
  <2>1. amount \in Int /\ paid \in Int /\ status \in ClaimStatus
    BY ClaimBounds, Numbers DEF ClaimStatus
  <2>2. session' = [session EXCEPT ![s] = held]
    BY <1>7 DEF BeginPay, Holds
  <2> HIDE DEF paid, status
  <2>3. set \in Columns
    BY <2>1, Numbers DEF Columns
  <2>4. row \in PaymentRow
    BY <2>1, Numbers DEF PaymentRow
  <2> HIDE DEF set, row
  <2>5. held \in Pending
    BY <2>3, <2>4, Numbers DEF Pending
  <2> HIDE DEF held
  <2> QED
    BY <1>3, <1>7, <2>2, <2>5 DEF BeginPay
<1>8. ASSUME NEW s \in Session, CommitDecision(s) PROVE ClaimsTypeOK'
  <2>1. PICK p : p = session[s]
    OBVIOUS
  <2>2. PICK c : c = p.of
    OBVIOUS
  <2>3. c \in Existing(claim) /\ p.loaded \in Columns /\ p.set \in Columns
    BY <1>8, <2>1, <2>2, Held DEF CommitDecision, Referenced
  <2>4. c \in Claim /\ claim[c] \in ClaimRow /\ claim[c].columns \in Columns
    BY <2>3, Numbers
  <2>5. Written(p.loaded, p.set, claim[c].columns) \in Columns
    BY <2>3, <2>4, WrittenColumns
  <2>6. claim[c].changes + 1 \in 0 .. MaxChanges
    BY <1>8, <2>1, <2>2, <2>3, Numbers, ClaimBounds DEF CommitDecision
  <2> DEFINE new == [claim[c] EXCEPT !.columns = Written(p.loaded, p.set, @),
                                     !.verified = @ \/ p.kind = "verify",
                                     !.adjusted = @ \/ p.kind = "adjust",
                                     !.changes = @ + 1]
  <2>7. claim' = [claim EXCEPT ![c] = new]
    BY <1>8, <2>1, <2>2, <2>4 DEF CommitDecision, ClaimsTypeOK
  <2>8. new \in ClaimRow
    BY <2>4, <2>5, <2>6 DEF ClaimRow
  <2> HIDE DEF new
  <2> QED
    BY <1>8, <2>7, <2>8 DEF CommitDecision, Ends, ClaimsTypeOK
<1>9. ASSUME NEW s \in Session, CommitPayment(s) PROVE ClaimsTypeOK'
  <2>1. PICK p : p = session[s]
    OBVIOUS
  <2>2. PICK c : c = p.of
    OBVIOUS
  <2>3. /\ c \in Existing(claim) /\ p.loaded \in Columns /\ p.set \in Columns
        /\ p.row \in PaymentRow
    BY <1>9, <2>1, <2>2, Held DEF CommitPayment, Referenced
  <2>4. c \in Claim /\ claim[c] \in ClaimRow /\ claim[c].columns \in Columns
    BY <2>3, Numbers
  <2>5. Written(p.loaded, p.set, claim[c].columns) \in Columns
    BY <2>3, <2>4, WrittenColumns
  <2>6. [claim[c] EXCEPT !.columns = Written(p.loaded, p.set, @)] \in ClaimRow
    BY <2>4, <2>5 DEF ClaimRow
  <2>7. claim' \in [Claim -> ClaimRow \cup {None}]
    BY <1>9, <2>1, <2>2, <2>4, <2>6 DEF CommitPayment, ClaimsTypeOK
  <2>8. payment' \in [PaymentId -> PaymentRow \cup {None}]
    BY <1>9, <2>1, <2>3 DEF CommitPayment, ClaimsTypeOK
  <2> QED
    BY <1>9, <2>7, <2>8 DEF CommitPayment, Ends, ClaimsTypeOK
<1>10. ASSUME NEW s \in Session, Disconnect(s) PROVE ClaimsTypeOK'
  BY <1>3, <1>10 DEF Disconnect, Ends
<1>11. CASE UNCHANGED vars
  BY <1>11 DEF vars, ClaimsTypeOK
<1> QED
  BY <1>1, <1>2, <1>4, <1>5, <1>6, <1>7, <1>8, <1>9, <1>10, <1>11 DEF Next
-----------------------------------------------------------------------------
LEMMA InitEstablishes == Init => ClaimsInv
<1> SUFFICES ASSUME Init PROVE ClaimsInv
  OBVIOUS
<1>1. ClaimsTypeOK
  BY DEF Init, ClaimsTypeOK
<1>2. /\ Existing(claim) = {} /\ Existing(payment) = {}
      /\ \A c \in Claim : Payments(c) = {}
  BY DEF Init, Existing, Payments
<1>3. Numbered
  <2>1. 0 \in 0 .. MaxPayments /\ 1 .. 0 = {}
    BY ClaimBounds
  <2> QED
    BY <1>2, <2>1 DEF Numbered
<1>4. Referenced /\ \A s \in Session : session[s] # None => Entitled(session[s])
  BY DEF Init, Referenced
<1> QED
  BY <1>1, <1>2, <1>3, <1>4 DEF ClaimsInv

\* A request is opened, or ends without writing.
LEMMA SessionsOnly ==
    ASSUME ClaimsInv, ClaimsTypeOK', NEW s \in Session, NEW held,
           session' = [session EXCEPT ![s] = held], UNCHANGED <<claim, payment>>,
           held # None => held.of \in Existing(claim) /\ Entitled(held)
    PROVE  ClaimsInv'
<1>1. session \in [Session -> Pending \cup {None}]
  BY DEF ClaimsInv, ClaimsTypeOK
<1>2. /\ Existing(claim)' = Existing(claim) /\ Existing(payment)' = Existing(payment)
      /\ \A c : Payments(c)' = Payments(c)
  BY DEF Existing, Payments
<1>3. \A c : Sound(c)' <=> Sound(c)
  BY <1>2 DEF Sound, Founded, Judged
<1>4. ASSUME NEW r PROVE Entitled(r)' <=> Entitled(r)
  BY <1>2 DEF Entitled, Founded, Judged
<1>5. ASSUME NEW t \in Session, session'[t] # None
      PROVE  session'[t].of \in Existing(claim) /\ Entitled(session'[t])
  BY <1>1, <1>5 DEF ClaimsInv, Referenced
<1>6. ASSUME NEW t \in Session, session'[t] # None PROVE Entitled(session[t])'
  <2>1. PICK r : r = session'[t]
    OBVIOUS
  <2>2. Entitled(r)'
    BY <1>4, <1>5, <1>6, <2>1
  <2> QED
    BY <2>1, <2>2
<1> QED
  BY <1>2, <1>3, <1>5, <1>6 DEF ClaimsInv, Referenced, Numbered
-----------------------------------------------------------------------------
LEMMA BeginSubmitKeeps ==
    ASSUME ClaimsInv, ClaimsTypeOK', NEW s \in Session, NEW c \in Existing(claim), BeginSubmit(s, c)
    PROVE  ClaimsInv'
<1> DEFINE set == [claim[c].columns EXCEPT !.status = "SUBMITTED"]
           held == Request("submit", c, set)
<1>1. claim[c].columns \in Columns
  BY Numbers DEF ClaimsInv
<1>2. held.kind = "submit" /\ held.of = c /\ held.set = set
  BY DEF Request
<1>3. set.status = "SUBMITTED"
  BY <1>1 DEF Columns
<1>4. session' = [session EXCEPT ![s] = held] /\ UNCHANGED <<claim, payment>> /\ Founded(c)
  BY DEF BeginSubmit, Holds, Founded
<1> HIDE DEF held, set
<1>5. Entitled(held)
  BY <1>2, <1>3, <1>4 DEF Entitled
<1> QED
  BY <1>2, <1>4, <1>5, SessionsOnly

LEMMA BeginVerifyKeeps ==
    ASSUME ClaimsInv, ClaimsTypeOK', NEW s \in Session, NEW c \in Existing(claim),
           NEW decision \in Decision, NEW amount \in Amounts, BeginVerify(s, c, decision, amount)
    PROVE  ClaimsInv'
<1>1. claim[c].columns \in Columns
  BY Numbers DEF ClaimsInv
<1>2. \E set : /\ session' = [session EXCEPT ![s] = Request("verify", c, set)]
               /\ set.status \notin {"PAID", "PARTIALLY_PAID"}
  <2>1. CASE decision \in {"APPROVED", "ADJUSTED"}
    <3> DEFINE set == [claim[c].columns EXCEPT !.status = decision, !.approved = amount]
    <3>1. set.status \notin {"PAID", "PARTIALLY_PAID"}
      BY <1>1, <2>1 DEF Columns
    <3>2. session' = [session EXCEPT ![s] = Request("verify", c, set)]
      BY <2>1 DEF BeginVerify, Holds
    <3> QED
      BY <3>1, <3>2
  <2>2. CASE decision = "REJECTED"
    <3> DEFINE set == [claim[c].columns EXCEPT !.status = decision, !.approved = 0]
    <3>1. set.status \notin {"PAID", "PARTIALLY_PAID"}
      BY <1>1, <2>2 DEF Columns
    <3>2. session' = [session EXCEPT ![s] = Request("verify", c, set)]
      BY <2>2 DEF BeginVerify, Holds
    <3> QED
      BY <3>1, <3>2
  <2>3. CASE decision = "PENDING"
    <3> DEFINE set == [claim[c].columns EXCEPT !.status = "UNDER_VERIFICATION"]
    <3>1. set.status \notin {"PAID", "PARTIALLY_PAID"}
      BY <1>1, <2>3 DEF Columns
    <3>2. session' = [session EXCEPT ![s] = Request("verify", c, set)]
      BY <2>3 DEF BeginVerify, Holds
    <3> QED
      BY <3>1, <3>2
  <2> QED
    BY <2>1, <2>2, <2>3 DEF Decision
<1>3. PICK set : /\ session' = [session EXCEPT ![s] = Request("verify", c, set)]
                 /\ set.status \notin {"PAID", "PARTIALLY_PAID"}
  BY <1>2
<1> DEFINE held == Request("verify", c, set)
<1>4. held.kind = "verify" /\ held.of = c /\ held.set = set
  BY DEF Request
<1>5. Founded(c) /\ UNCHANGED <<claim, payment>>
  BY DEF BeginVerify, ClaimsInv, Sound
<1> HIDE DEF held
<1>6. Entitled(held)
  BY <1>3, <1>4, <1>5 DEF Entitled
<1>7. session' = [session EXCEPT ![s] = held]
  BY <1>3 DEF held
<1> QED
  BY <1>4, <1>5, <1>6, <1>7, SessionsOnly

LEMMA BeginAdjustKeeps ==
    ASSUME ClaimsInv, ClaimsTypeOK', NEW s \in Session, NEW c \in Existing(claim),
           NEW amount \in Amounts, BeginAdjust(s, c, amount)
    PROVE  ClaimsInv'
<1> DEFINE set == [claim[c].columns EXCEPT !.status = "ADJUSTED", !.approved = Due(c) + amount]
           held == Request("adjust", c, set)
<1>1. claim[c].columns \in Columns
  BY Numbers DEF ClaimsInv
<1>2. held.kind = "adjust" /\ held.of = c /\ held.set = set
  BY DEF Request
<1>3. set.status = "ADJUSTED"
  BY <1>1 DEF Columns
<1>4. session' = [session EXCEPT ![s] = held] /\ UNCHANGED <<claim, payment>>
  BY DEF BeginAdjust, Holds
<1> HIDE DEF held, set
<1>5. Entitled(held)
  BY <1>2, <1>3 DEF Entitled
<1> QED
  BY <1>2, <1>4, <1>5, SessionsOnly

\* What is set is settled, and was loaded from the claim as it is.
LEMMA BeginPayKeeps ==
    ASSUME ClaimsInv, ClaimsTypeOK', NEW s \in Session, NEW c \in Existing(claim),
           NEW amount \in Amounts, BeginPay(s, c, amount)
    PROVE  ClaimsInv'
<1> DEFINE paid == claim[c].columns.paid + amount
           status == IF Due(c) - paid <= 0 THEN "PAID" ELSE "PARTIALLY_PAID"
           set == [claim[c].columns EXCEPT !.status = status, !.paid = paid]
           row == [of |-> c, amount |-> amount, after |-> claim[c].changes]
           held == [kind |-> "pay", of |-> c, loaded |-> claim[c].columns, set |-> set, row |-> row]
<1>1. /\ claim[c].columns \in Columns /\ Due(c) \in Int /\ claim[c].columns.paid \in Int
      /\ claim[c].changes \in Nat /\ amount \in Int
  BY Numbers, ClaimBounds DEF ClaimsInv
<1>2. session' = [session EXCEPT ![s] = held] /\ UNCHANGED <<claim, payment>>
  BY DEF BeginPay, Holds
<1>3. paid \in Int /\ paid <= Due(c)
  BY <1>1 DEF BeginPay, Remaining
<1>4. status = IF paid = Due(c) THEN "PAID" ELSE "PARTIALLY_PAID"
  BY <1>1, <1>3
<1> HIDE DEF paid, status
<1>5. set.status = status /\ set.paid = paid /\ set.approved = claim[c].columns.approved
  BY <1>1 DEF Columns
<1>6. /\ row.of = c /\ row.after = claim[c].changes
      /\ held.kind = "pay" /\ held.of = c /\ held.set = set /\ held.row = row
      /\ held.loaded = claim[c].columns
  OBVIOUS
<1> HIDE DEF set, row, held
<1>7. DueOf(set, claim[c].claimed) = Due(c)
  BY <1>5 DEF DueOf, Due
<1>8. Settled(set, claim[c].claimed)
  BY <1>3, <1>4, <1>5, <1>7 DEF Settled
<1>9. Judged(c)
  BY DEF BeginPay, ClaimsInv, Sound
<1>10. Entitled(held)
  <2>1. set.status \in {"PAID", "PARTIALLY_PAID"}
    BY <1>4, <1>5
  <2> QED
    BY <1>1, <1>6, <1>8, <1>9, <2>1 DEF Entitled
<1> QED
  BY <1>2, <1>6, <1>10, SessionsOnly
-----------------------------------------------------------------------------
\* A new claim: no request and no payment is about it.
LEMMA CreateClaimKeeps ==
    ASSUME ClaimsInv, ClaimsTypeOK', NEW c \in Claim, NEW lines \in DeliveryList,
           NEW evidence \in BOOLEAN, CreateClaim(c, lines, evidence)
    PROVE  ClaimsInv'
<1> DEFINE new ==
      [columns |-> [status |-> "DRAFT", approved |-> None, paid |-> 0],
       portions |-> PortionsOf(lines), claimed |-> UnitCost * PortionsOf(lines),
       evidence |-> evidence, verified |-> FALSE, adjusted |-> FALSE, changes |-> 0]
<1>1. /\ claim[c] = None /\ claim' = [claim EXCEPT ![c] = new]
      /\ UNCHANGED <<payment, session>>
  BY DEF CreateClaim
<1>2. new.columns.status = "DRAFT" /\ ~new.verified
  OBVIOUS
<1> HIDE DEF new
<1>3. claim \in [Claim -> ClaimRow \cup {None}] /\ claim' \in [Claim -> ClaimRow \cup {None}]
  BY DEF ClaimsInv, ClaimsTypeOK
<1>4. /\ claim'[c] = new /\ \A d \in Claim \ {c} : claim'[d] = claim[d]
      /\ Payments(c) = {}
  BY <1>1, <1>3 DEF ClaimsInv
<1>5. /\ \A d : Payments(d)' = Payments(d)
      /\ Existing(payment)' = Existing(payment)
      /\ Existing(claim) \subseteq Existing(claim)' /\ Existing(claim)' \subseteq Existing(claim) \cup {c}
      /\ c \notin Existing(claim) /\ Existing(claim) \subseteq Claim
  BY <1>1, <1>3, <1>4 DEF Existing, Payments
<1>6. ASSUME NEW d \in Existing(claim)' PROVE Sound(d)'
  <2>1. CASE d = c
    BY <1>1, <1>2, <1>4, <1>5, <2>1 DEF Sound, Verifiable, Payable
  <2>2. CASE d # c
    <3>1. d \in Existing(claim) /\ claim'[d] = claim[d] /\ Payments(d)' = Payments(d) /\ Sound(d)
      BY <1>4, <1>5, <1>6, <2>2 DEF ClaimsInv
    <3> QED
      BY <1>1, <3>1 DEF Sound, Founded, Judged
  <2> QED
    BY <2>1, <2>2
<1>7. ASSUME NEW t \in Session, session[t] # None
      PROVE  session[t].of \in Existing(claim)' /\ Entitled(session[t])'
  <2>1. PICK r : r = session[t]
    OBVIOUS
  <2>2. r.of \in Existing(claim) /\ Entitled(r)
    BY <1>7, <2>1 DEF ClaimsInv, Referenced
  <2>3. claim'[r.of] = claim[r.of] /\ Payments(r.of)' = Payments(r.of)
    BY <1>4, <1>5, <2>2
  <2>4. Entitled(r)'
    BY <2>2, <2>3 DEF Entitled, Founded, Judged
  <2> QED
    BY <1>1, <1>5, <2>1, <2>2, <2>4
<1>8. Referenced' /\ \A t \in Session : session'[t] # None => Entitled(session[t])'
  BY <1>1, <1>7 DEF Referenced
<1>9. Numbered'
  BY <1>5 DEF ClaimsInv, Numbered
<1>10. \A d \in Claim : claim'[d] = None => Payments(d)' = {}
  BY <1>4, <1>5 DEF ClaimsInv
<1> QED
  BY <1>6, <1>8, <1>9, <1>10 DEF ClaimsInv

\* A decision is one more change: no payment and no pending payment is of the
\* claim as it is now.
LEMMA CommitDecisionKeeps ==
    ASSUME ClaimsInv, ClaimsTypeOK', NEW s \in Session, CommitDecision(s)
    PROVE  ClaimsInv'
<1>1. PICK p : p = session[s]
  OBVIOUS
<1>2. PICK c : c = p.of
  OBVIOUS
<1>3. /\ p.kind \in {"submit", "verify", "adjust"} /\ c \in Existing(claim) /\ Entitled(p)
      /\ p.loaded \in Columns /\ p.set \in Columns
  BY <1>1, <1>2, Held DEF CommitDecision, ClaimsInv, Referenced
<1>4. c \in Claim /\ claim[c] \in ClaimRow /\ claim[c].columns \in Columns /\ claim[c].changes \in Nat
  BY <1>3, Numbers DEF ClaimsInv
<1> DEFINE new == [claim[c] EXCEPT !.columns = Written(p.loaded, p.set, @),
                                   !.verified = @ \/ p.kind = "verify",
                                   !.adjusted = @ \/ p.kind = "adjust",
                                   !.changes = @ + 1]
<1>5. claim' = [claim EXCEPT ![c] = new] /\ session' = [session EXCEPT ![s] = None]
  BY <1>1, <1>2, <1>4 DEF CommitDecision, Ends, ClaimsInv, ClaimsTypeOK
<1>6. /\ new.columns.status \in {p.set.status, claim[c].columns.status}
      /\ new.verified = (claim[c].verified \/ p.kind = "verify")
      /\ new.adjusted = (claim[c].adjusted \/ p.kind = "adjust")
      /\ new.changes = claim[c].changes + 1
      /\ new.evidence = claim[c].evidence /\ new.claimed = claim[c].claimed
  <2>1. Written(p.loaded, p.set, claim[c].columns).status \in {p.set.status, claim[c].columns.status}
    BY <1>3, <1>4, WrittenColumns
  <2> QED
    BY <1>4, <2>1 DEF ClaimRow
<1> HIDE DEF new
<1>7. claim \in [Claim -> ClaimRow \cup {None}] /\ claim' \in [Claim -> ClaimRow \cup {None}]
  BY DEF ClaimsInv, ClaimsTypeOK
<1>8. claim'[c] = new /\ \A d \in Claim \ {c} : claim'[d] = claim[d]
  BY <1>4, <1>5, <1>7
<1>9. new # None
  <2>1. Written(p.loaded, p.set, claim[c].columns) \in Columns
    BY <1>3, <1>4, WrittenColumns
  <2>2. claim[c].changes + 1 \in 0 .. MaxChanges
    BY <1>1, <1>2, <1>4, ClaimBounds DEF CommitDecision
  <2>3. new \in ClaimRow
    BY <1>4, <2>1, <2>2 DEF ClaimRow, new
  <2> QED
    BY <2>3, NoneIsNoRow
<1>10. UNCHANGED payment
  BY DEF CommitDecision
<1>11. /\ Existing(claim)' = Existing(claim) /\ Existing(payment)' = Existing(payment)
       /\ \A d : Payments(d)' = Payments(d)
       /\ Existing(claim) \subseteq Claim
  BY <1>3, <1>7, <1>8, <1>9, <1>10 DEF Existing, Payments
<1>12. /\ Founded(c)' <=> Founded(c)
       /\ Judged(c)' <=> Judged(c) \/ p.kind \in {"verify", "adjust"}
  BY <1>6, <1>8 DEF Founded, Judged
<1>13. Sound(c)'
  <2>1. Sound(c)
    BY <1>3 DEF ClaimsInv
  <2>2. claim'[c].columns.status \in Verifiable => Founded(c)
    BY <1>2, <1>3, <1>6, <1>8, <2>1 DEF Sound, Entitled, Verifiable
  <2>3. claim'[c].columns.status \in Payable => Judged(c)'
    BY <1>2, <1>3, <1>6, <1>8, <1>12, <2>1 DEF Sound, Entitled, Payable
  <2>4. claim'[c].verified => Founded(c)
    BY <1>2, <1>3, <1>6, <1>8, <2>1 DEF Sound, Entitled
  <2>5. Payments(c) # {} => Judged(c)'
    BY <1>12, <2>1 DEF Sound
  <2>6. ASSUME NEW n \in Payments(c)
        PROVE  payment[n].after <= claim'[c].changes /\ payment[n].after # claim'[c].changes
    <3>1. payment[n].after \in Nat /\ payment[n].after <= claim[c].changes
      <4>1. payment[n] \in PaymentRow
        BY DEF Payments, Existing, ClaimsInv, ClaimsTypeOK
      <4> QED
        BY <2>1, <4>1, ClaimBounds DEF Sound, PaymentRow
    <3> QED
      BY <1>4, <1>6, <1>8, <3>1
  <2> QED
    BY <1>10, <1>11, <1>12, <2>2, <2>3, <2>4, <2>5, <2>6 DEF Sound
<1>14. ASSUME NEW d \in Existing(claim)' PROVE Sound(d)'
  <2>1. CASE d = c
    BY <1>13, <2>1
  <2>2. CASE d # c
    <3>1. claim'[d] = claim[d] /\ Payments(d)' = Payments(d) /\ Sound(d)
      BY <1>8, <1>11, <1>14, <2>2 DEF ClaimsInv
    <3> QED
      BY <1>10, <3>1 DEF Sound, Founded, Judged
  <2> QED
    BY <2>1, <2>2
<1>15. ASSUME NEW t \in Session, session'[t] # None
       PROVE  session[t].of \in Existing(claim) /\ Entitled(session[t])' /\ session'[t] = session[t]
  <2>1. session'[t] = session[t] /\ session[t] # None
    BY <1>5, <1>15 DEF ClaimsInv, ClaimsTypeOK
  <2>2. PICK r : r = session[t]
    OBVIOUS
  <2>3. r.of \in Existing(claim) /\ Entitled(r)
    BY <2>1, <2>2 DEF ClaimsInv, Referenced
  <2>4. r.kind = "pay" => r.row.after \in Nat
    BY <2>1, <2>2, Held, ClaimBounds DEF ClaimsInv, PaymentRow
  <2>5. Entitled(r)'
    <3>1. CASE r.of = c
      BY <1>4, <1>6, <1>8, <1>12, <2>3, <2>4, <3>1 DEF Entitled
    <3>2. CASE r.of # c
      <4>1. claim'[r.of] = claim[r.of] /\ Payments(r.of)' = Payments(r.of)
        BY <1>8, <1>11, <2>3, <3>2
      <4> QED
        BY <2>3, <4>1 DEF Entitled, Founded, Judged
    <3> QED
      BY <3>1, <3>2
  <2>6. UNCHANGED session[t]
    BY <2>1
  <2> QED
    BY <2>1, <2>2, <2>3, <2>5, <2>6
<1>16. Referenced' /\ \A t \in Session : session'[t] # None => Entitled(session[t])'
  BY <1>11, <1>15 DEF Referenced
<1>17. Numbered' /\ \A d \in Claim : claim'[d] = None => Payments(d)' = {}
  BY <1>8, <1>9, <1>11 DEF ClaimsInv, Numbered
<1> QED
  BY <1>14, <1>16, <1>17 DEF ClaimsInv

\* The first payment of a claim: a row of its own, and the claim's columns.
LEMMA PaymentAdded ==
    ASSUME ClaimsInv, ClaimsTypeOK', NEW s \in Session, CommitPayment(s),
           NEW p, p = session[s], NEW c, c = p.of, Payments(c) = {}
    PROVE  \E n \in PaymentId :
              /\ Existing(payment) = 1 .. n - 1 /\ Existing(payment)' = Existing(payment) \cup {n}
              /\ payment'[n] = p.row
              /\ Existing(claim)' = Existing(claim) /\ Existing(claim) \subseteq Claim
              /\ claim'[c] = [claim[c] EXCEPT !.columns = Written(p.loaded, p.set, @)]
              /\ claim'[c] \in ClaimRow
              /\ \A d \in Claim \ {c} : claim'[d] = claim[d]
              /\ Payments(c)' = {n}
              /\ \A d \in Claim \ {c} : /\ Payments(d)' = Payments(d)
                                       /\ \A m \in Payments(d) : payment'[m] = payment[m]
<1>1. /\ p.kind = "pay" /\ c \in Existing(claim) /\ Entitled(p)
      /\ p.loaded \in Columns /\ p.set \in Columns /\ p.row \in PaymentRow /\ p.row.of = c
      /\ ~SourceTaken(session[s].of)
  BY Held DEF CommitPayment, ClaimsInv, Referenced, SourceTaken, Entitled
<1>2. c \in Claim /\ claim[c] \in ClaimRow /\ claim[c].columns \in Columns /\ claim[c].changes \in Nat
  BY <1>1, Numbers DEF ClaimsInv
<1>3. PICK n : /\ n \in PaymentId /\ payment[n] = None
               /\ payment' = [payment EXCEPT ![n] = p.row] /\ Existing(payment) = 1 .. n - 1
  <2>1. PICK k \in 0 .. MaxPayments : Existing(payment) = 1 .. k
    BY DEF ClaimsInv, Numbered
  <2>2. Cardinality(Existing(payment)) = k
    BY <2>1, FS_Interval, ClaimBounds
  <2>3. k + 1 <= MaxPayments /\ payment' = [payment EXCEPT ![k + 1] = p.row]
    BY <1>1, <2>2 DEF CommitPayment
  <2>4. k + 1 \in PaymentId /\ k + 1 \notin 1 .. k /\ 1 .. (k + 1) - 1 = 1 .. k
    BY <2>1, <2>3, ClaimBounds DEF PaymentId
  <2>5. payment[k + 1] = None
    BY <2>1, <2>4 DEF Existing, ClaimsInv, ClaimsTypeOK
  <2> QED
    BY <2>1, <2>3, <2>4, <2>5
<1> DEFINE new == [claim[c] EXCEPT !.columns = Written(p.loaded, p.set, @)]
<1>4. claim' = [claim EXCEPT ![c] = new]
  BY <1>1, <1>2 DEF CommitPayment, ClaimsInv, ClaimsTypeOK
<1>5. new \in ClaimRow
  <2>1. Written(p.loaded, p.set, claim[c].columns) \in Columns
    BY <1>1, <1>2, WrittenColumns
  <2> QED
    BY <1>2, <2>1 DEF ClaimRow
<1> HIDE DEF new
<1>6. /\ claim \in [Claim -> ClaimRow \cup {None}] /\ claim' \in [Claim -> ClaimRow \cup {None}]
      /\ payment \in [PaymentId -> PaymentRow \cup {None}]
      /\ payment' \in [PaymentId -> PaymentRow \cup {None}]
      /\ p.row # None
  BY <1>1, NoneIsNoRow DEF ClaimsInv, ClaimsTypeOK
<1>7. /\ claim'[c] = new /\ \A d \in Claim \ {c} : claim'[d] = claim[d]
      /\ payment'[n] = p.row /\ \A m \in PaymentId \ {n} : payment'[m] = payment[m]
  BY <1>2, <1>3, <1>4, <1>6
<1>8. /\ Existing(claim)' = Existing(claim) /\ Existing(claim) \subseteq Claim
      /\ Existing(payment)' = Existing(payment) \cup {n}
  BY <1>1, <1>3, <1>5, <1>6, <1>7, NoneIsNoRow DEF Existing
<1>9. /\ Payments(c)' = {n}
      /\ \A d \in Claim \ {c} : /\ Payments(d)' = Payments(d)
                               /\ \A m \in Payments(d) : payment'[m] = payment[m]
  <2>1. n \notin Existing(payment) /\ Existing(payment) \subseteq PaymentId
    BY <1>3, <1>6 DEF Existing
  <2> QED
    BY <1>1, <1>7, <1>8, <2>1 DEF Payments
<1> QED
  BY <1>3, <1>5, <1>7, <1>8, <1>9 DEF new

\* The first payment of the claim: what it loaded is what there is, unless a
\* decision came in between.
LEMMA CommitPaymentKeeps ==
    ASSUME ClaimsInv, ClaimsTypeOK', NEW s \in Session, CommitPayment(s), ~SourceTaken(session[s].of)
    PROVE  ClaimsInv'
<1>1. PICK p : p = session[s]
  OBVIOUS
<1>2. PICK c : c = p.of
  OBVIOUS
<1>3. /\ p.kind = "pay" /\ c \in Existing(claim) /\ Entitled(p) /\ Payments(c) = {}
      /\ p.loaded \in Columns /\ p.set \in Columns /\ p.row \in PaymentRow /\ p.row.of = c
  BY <1>1, <1>2, Held DEF CommitPayment, ClaimsInv, Referenced, SourceTaken, Entitled
<1>4. c \in Claim /\ claim[c] \in ClaimRow /\ claim[c].columns \in Columns /\ claim[c].changes \in Nat
  BY <1>3, Numbers DEF ClaimsInv
<1>5. PICK n \in PaymentId :
         /\ Existing(payment) = 1 .. n - 1 /\ Existing(payment)' = Existing(payment) \cup {n}
         /\ payment'[n] = p.row
         /\ Existing(claim)' = Existing(claim) /\ Existing(claim) \subseteq Claim
         /\ claim'[c] = [claim[c] EXCEPT !.columns = Written(p.loaded, p.set, @)]
         /\ claim'[c] \in ClaimRow
         /\ \A d \in Claim \ {c} : claim'[d] = claim[d]
         /\ Payments(c)' = {n}
         /\ \A d \in Claim \ {c} : /\ Payments(d)' = Payments(d)
                                  /\ \A m \in Payments(d) : payment'[m] = payment[m]
  BY <1>1, <1>2, <1>3, PaymentAdded
<1>6. /\ claim'[c].columns = Written(p.loaded, p.set, claim[c].columns)
      /\ claim'[c].verified = claim[c].verified /\ claim'[c].adjusted = claim[c].adjusted
      /\ claim'[c].changes = claim[c].changes
      /\ claim'[c].evidence = claim[c].evidence /\ claim'[c].claimed = claim[c].claimed
  BY <1>4, <1>5 DEF ClaimRow
<1>7. /\ claim'[c].columns.status \in {p.set.status, claim[c].columns.status}
      /\ claim[c].columns = p.loaded => claim'[c].columns = p.set
  BY <1>3, <1>4, <1>6, WrittenColumns
<1>8. /\ session' = [session EXCEPT ![s] = None]
      /\ session \in [Session -> Pending \cup {None}]
  BY DEF CommitPayment, Ends, ClaimsInv, ClaimsTypeOK
<1>9. (Founded(c)' <=> Founded(c)) /\ (Judged(c)' <=> Judged(c)) /\ Judged(c)
  BY <1>2, <1>3, <1>6 DEF Founded, Judged, Entitled
<1>10. Sound(c)'
  <2>1. Sound(c)
    BY <1>3 DEF ClaimsInv
  <2>2. claim'[c].columns.status \in Verifiable => Founded(c)
    BY <1>3, <1>7, <2>1 DEF Sound, Entitled, Verifiable
  <2>3. claim'[c].verified => Founded(c)
    BY <1>6, <2>1 DEF Sound
  <2>4. /\ payment'[n].after <= claim'[c].changes
        /\ payment'[n].after = claim'[c].changes => Settled(claim'[c].columns, claim'[c].claimed)
    BY <1>2, <1>3, <1>5, <1>6, <1>7 DEF Entitled
  <2> QED
    BY <1>5, <1>9, <2>2, <2>3, <2>4 DEF Sound
<1>11. ASSUME NEW d \in Existing(claim)' PROVE Sound(d)'
  <2>1. CASE d = c
    BY <1>10, <2>1
  <2>2. CASE d # c
    <3>1. /\ claim'[d] = claim[d] /\ Payments(d)' = Payments(d) /\ Sound(d)
          /\ \A m \in Payments(d) : payment'[m] = payment[m]
      BY <1>5, <1>11, <2>2 DEF ClaimsInv
    <3> QED
      BY <3>1 DEF Sound, Founded, Judged
  <2> QED
    BY <2>1, <2>2
<1>12. ASSUME NEW t \in Session, session'[t] # None
       PROVE  session[t].of \in Existing(claim) /\ Entitled(session[t])' /\ session'[t] = session[t]
  <2>1. session'[t] = session[t] /\ session[t] # None
    BY <1>8, <1>12
  <2>2. PICK r : r = session[t]
    OBVIOUS
  <2>3. r.of \in Existing(claim) /\ Entitled(r)
    BY <2>1, <2>2 DEF ClaimsInv, Referenced
  <2>4. Entitled(r)'
    <3>1. CASE r.of = c
      BY <1>5, <1>6, <1>9, <2>3, <3>1 DEF Entitled
    <3>2. CASE r.of # c
      <4>1. claim'[r.of] = claim[r.of] /\ Payments(r.of)' = Payments(r.of)
        BY <1>5, <2>3, <3>2
      <4> QED
        BY <2>3, <4>1 DEF Entitled, Founded, Judged
    <3> QED
      BY <3>1, <3>2
  <2>5. UNCHANGED session[t]
    BY <2>1
  <2> QED
    BY <2>1, <2>2, <2>3, <2>4, <2>5
<1>13. Referenced' /\ \A t \in Session : session'[t] # None => Entitled(session[t])'
  BY <1>5, <1>12 DEF Referenced
<1>14. Numbered'
  <2>1. n \in 0 .. MaxPayments /\ (1 .. n - 1) \cup {n} = 1 .. n
    BY <1>5, ClaimBounds DEF PaymentId
  <2> QED
    BY <1>5, <2>1 DEF Numbered
<1>15. \A d \in Claim : claim'[d] = None => Payments(d)' = {}
  BY <1>5, NoneIsNoRow DEF ClaimsInv
<1> QED
  BY <1>11, <1>13, <1>14, <1>15 DEF ClaimsInv
-----------------------------------------------------------------------------
LEMMA InvStep == ClaimsInv /\ [Next]_vars => ClaimsInv'
<1> SUFFICES ASSUME ClaimsInv, [Next]_vars PROVE ClaimsInv'
  OBVIOUS
<1>1. ClaimsTypeOK'
  BY TypesStep DEF ClaimsInv
<1>2. ASSUME NEW d \in Delivery, NEW portions \in Received, Receive(d, portions) PROVE ClaimsInv'
  BY <1>1, <1>2 DEF Receive, ClaimsInv, Referenced, Numbered, Existing, Payments, Sound, Entitled,
                    Founded, Judged
<1>3. ASSUME NEW s \in Session, CommitPayment(s) PROVE ClaimsInv'
  <2>1. CASE SourceTaken(session[s].of)
    BY <1>1, <1>3, <2>1, SessionsOnly DEF CommitPayment, Ends
  <2> QED
    BY <1>1, <1>3, <2>1, CommitPaymentKeeps
<1>4. ASSUME NEW s \in Session, Disconnect(s) PROVE ClaimsInv'
  BY <1>1, <1>4, SessionsOnly DEF Disconnect, Ends
<1>5. CASE UNCHANGED vars
  BY <1>1, <1>5 DEF vars, ClaimsInv, Referenced, Numbered, Existing, Payments, Sound, Entitled,
                    Founded, Judged
<1> QED
  BY <1>1, <1>2, <1>3, <1>4, <1>5, CreateClaimKeeps, BeginSubmitKeeps, BeginVerifyKeeps,
     BeginAdjustKeeps, BeginPayKeeps, CommitDecisionKeeps DEF Next

LEMMA Invariance == Spec => []ClaimsInv
<1> QED
  BY InitEstablishes, InvStep, PTL DEF Spec

(***************************************************************************)
(* Rows and requests keep their types: no request is left without a claim, *)
(* no column set to what the table cannot hold.                            *)
(***************************************************************************)
THEOREM ClaimTypes == Spec => []ClaimsTypeOK
<1>1. ClaimsInv => ClaimsTypeOK
  BY DEF ClaimsInv
<1> QED
  BY <1>1, Invariance, PTL

(***************************************************************************)
(* However requests overlap, what is verified was submitted with amount    *)
(* and evidence, and what is paid was verified or adjusted.                *)
(***************************************************************************)
THEOREM JudgedFirst == Spec => []JudgedBeforePaid
<1>1. ClaimsInv => JudgedBeforePaid
  BY DEF ClaimsInv, Sound, JudgedBeforePaid, Founded, Judged
<1> QED
  BY <1>1, Invariance, PTL

(***************************************************************************)
(* A payment nothing overtook leaves the claim paid no more than it is due *)
(* and with the status that says whether all of it was paid.               *)
(***************************************************************************)
THEOREM BooksStayRight == Spec => []BooksAgree
<1>1. ASSUME NEW c PROVE DueOf(claim[c].columns, claim[c].claimed) = Due(c)
  BY DEF DueOf, Due
<1>2. ClaimsInv => BooksAgree
  BY <1>1 DEF ClaimsInv, Sound, Settled, BooksAgree
<1> QED
  BY <1>2, Invariance, PTL
-----------------------------------------------------------------------------
\* What a request does to the paid amount: only a payment touches it, and one
\* that may still be committed has loaded nothing paid.
Adding(r) ==
    /\ r.kind # "pay" => r.set.paid = r.loaded.paid
    /\ r.kind = "pay" =>
          /\ r.row.amount > 0
          /\ r.set.paid = r.loaded.paid + r.row.amount
          /\ Payments(r.of) = {} => r.loaded.paid = 0

\* A claim is paid once, or not at all.
PaidOnce(c) ==
    /\ Payments(c) = {} => claim[c].columns.paid = 0
    /\ \A n \in Payments(c) : Payments(c) = {n} /\ claim[c].columns.paid = payment[n].amount

PaidInv ==
    /\ ClaimsInv
    /\ \A c \in Existing(claim) : PaidOnce(c)
    /\ \A s \in Session : session[s] # None => Adding(session[s])

LEMMA PaidInit == Init => PaidInv
<1> SUFFICES ASSUME Init PROVE PaidInv
  OBVIOUS
<1>1. ClaimsInv
  BY InitEstablishes
<1>2. Existing(claim) = {} /\ \A s \in Session : session[s] = None
  BY DEF Init, Existing
<1> QED
  BY <1>1, <1>2 DEF PaidInv

\* Sessions change, the tables do not.
LEMMA PaidStands ==
    ASSUME PaidInv, ClaimsInv', UNCHANGED <<claim, payment>>,
           \A t \in Session : \A r : session'[t] = r /\ r # None => Adding(r)
    PROVE  PaidInv'
<1>1. Existing(claim)' = Existing(claim) /\ \A c : Payments(c)' = Payments(c)
  BY DEF Existing, Payments
<1>2. \A c : PaidOnce(c)' <=> PaidOnce(c)
  BY <1>1 DEF PaidOnce
<1>3. ASSUME NEW t \in Session, session'[t] # None PROVE Adding(session[t])'
  <2>1. PICK r : r = session'[t]
    OBVIOUS
  <2>2. Adding(r)
    BY <1>3, <2>1
  <2>3. Adding(r)'
    BY <1>1, <2>2 DEF Adding
  <2> QED
    BY <2>1, <2>3
<1>4. \A c \in Existing(claim)' : PaidOnce(c)'
  BY <1>1, <1>2 DEF PaidInv
<1> QED
  BY <1>3, <1>4 DEF PaidInv

\* A request is opened, or ends without writing.
LEMMA PaidOpened ==
    ASSUME PaidInv, ClaimsInv', NEW s \in Session, NEW held,
           session' = [session EXCEPT ![s] = held], UNCHANGED <<claim, payment>>,
           held # None => Adding(held)
    PROVE  PaidInv'
<1>1. session \in [Session -> Pending \cup {None}]
  BY DEF PaidInv, ClaimsInv, ClaimsTypeOK
<1>2. \A t \in Session : \A r : session'[t] = r /\ r # None => Adding(r)
  BY <1>1 DEF PaidInv
<1> QED
  BY <1>2, PaidStands

\* A submission, verification or adjustment sets what it loaded.
LEMMA PaidUntouched ==
    ASSUME PaidInv, ClaimsInv', NEW s \in Session, NEW c \in Existing(claim),
           NEW kind \in {"submit", "verify", "adjust"}, NEW set,
           set.paid = claim[c].columns.paid,
           session' = [session EXCEPT ![s] = Request(kind, c, set)], UNCHANGED <<claim, payment>>
    PROVE  PaidInv'
<1> DEFINE held == Request(kind, c, set)
<1>1. held.kind = kind /\ held.set = set /\ held.loaded = claim[c].columns
  BY DEF Request
<1>2. session' = [session EXCEPT ![s] = held]
  OBVIOUS
<1> HIDE DEF held
<1>3. Adding(held)
  BY <1>1 DEF Adding
<1> QED
  BY <1>2, <1>3, PaidOpened

LEMMA PaidVerify ==
    ASSUME PaidInv, ClaimsInv', NEW s \in Session, NEW c \in Existing(claim),
           NEW decision \in Decision, NEW amount \in Amounts, BeginVerify(s, c, decision, amount)
    PROVE  PaidInv'
<1>1. claim[c].columns \in Columns
  BY Numbers DEF PaidInv, ClaimsInv
<1>2. PICK set : /\ session' = [session EXCEPT ![s] = Request("verify", c, set)]
                 /\ set.paid = claim[c].columns.paid
  <2>1. CASE decision \in {"APPROVED", "ADJUSTED"}
    <3> DEFINE set == [claim[c].columns EXCEPT !.status = decision, !.approved = amount]
    <3>1. set.paid = claim[c].columns.paid
      BY <1>1 DEF Columns
    <3>2. session' = [session EXCEPT ![s] = Request("verify", c, set)]
      BY <2>1 DEF BeginVerify, Holds
    <3> QED
      BY <3>1, <3>2
  <2>2. CASE decision = "REJECTED"
    <3> DEFINE set == [claim[c].columns EXCEPT !.status = decision, !.approved = 0]
    <3>1. set.paid = claim[c].columns.paid
      BY <1>1 DEF Columns
    <3>2. session' = [session EXCEPT ![s] = Request("verify", c, set)]
      BY <2>2 DEF BeginVerify, Holds
    <3> QED
      BY <3>1, <3>2
  <2>3. CASE decision = "PENDING"
    <3> DEFINE set == [claim[c].columns EXCEPT !.status = "UNDER_VERIFICATION"]
    <3>1. set.paid = claim[c].columns.paid
      BY <1>1 DEF Columns
    <3>2. session' = [session EXCEPT ![s] = Request("verify", c, set)]
      BY <2>3 DEF BeginVerify, Holds
    <3> QED
      BY <3>1, <3>2
  <2> QED
    BY <2>1, <2>2, <2>3 DEF Decision
<1>3. UNCHANGED <<claim, payment>>
  BY DEF BeginVerify
<1> QED
  BY <1>2, <1>3, PaidUntouched

\* While nothing was paid for the claim, nothing paid is what is loaded.
LEMMA PaidPay ==
    ASSUME PaidInv, ClaimsInv', NEW s \in Session, NEW c \in Existing(claim),
           NEW amount \in Amounts, BeginPay(s, c, amount)
    PROVE  PaidInv'
<1> DEFINE paid == claim[c].columns.paid + amount
           status == IF Due(c) - paid <= 0 THEN "PAID" ELSE "PARTIALLY_PAID"
           set == [claim[c].columns EXCEPT !.status = status, !.paid = paid]
           row == [of |-> c, amount |-> amount, after |-> claim[c].changes]
           held == [kind |-> "pay", of |-> c, loaded |-> claim[c].columns, set |-> set, row |-> row]
<1>1. claim[c].columns \in Columns /\ amount \in Int
  BY Numbers, ClaimBounds DEF PaidInv, ClaimsInv
<1>2. /\ session' = [session EXCEPT ![s] = held] /\ UNCHANGED <<claim, payment>>
      /\ amount > 0
  BY <1>1 DEF BeginPay, Holds
<1> HIDE DEF paid, status
<1>3. set.paid = paid
  BY <1>1 DEF Columns
<1>4. /\ row.amount = amount
      /\ held.kind = "pay" /\ held.of = c /\ held.set = set /\ held.row = row
      /\ held.loaded = claim[c].columns
  OBVIOUS
<1> HIDE DEF set, row, held
<1>5. Adding(held)
  BY <1>2, <1>3, <1>4 DEF Adding, PaidInv, PaidOnce, paid
<1> QED
  BY <1>2, <1>5, PaidOpened
-----------------------------------------------------------------------------
LEMMA PaidCreate ==
    ASSUME PaidInv, ClaimsInv', NEW c \in Claim, NEW lines \in DeliveryList,
           NEW evidence \in BOOLEAN, CreateClaim(c, lines, evidence)
    PROVE  PaidInv'
<1> DEFINE new ==
      [columns |-> [status |-> "DRAFT", approved |-> None, paid |-> 0],
       portions |-> PortionsOf(lines), claimed |-> UnitCost * PortionsOf(lines),
       evidence |-> evidence, verified |-> FALSE, adjusted |-> FALSE, changes |-> 0]
<1>1. /\ claim[c] = None /\ claim' = [claim EXCEPT ![c] = new]
      /\ UNCHANGED <<payment, session>>
  BY DEF CreateClaim
<1>2. new.columns.paid = 0
  OBVIOUS
<1> HIDE DEF new
<1>3. /\ claim \in [Claim -> ClaimRow \cup {None}]
      /\ claim'[c] = new /\ \A d \in Claim \ {c} : claim'[d] = claim[d]
  BY <1>1 DEF PaidInv, ClaimsInv, ClaimsTypeOK
<1>4. /\ \A d : Payments(d)' = Payments(d)
      /\ Payments(c) = {} /\ Existing(claim)' \subseteq Existing(claim) \cup {c}
      /\ Existing(claim) \subseteq Claim
  BY <1>1, <1>3 DEF Existing, Payments, PaidInv, ClaimsInv
<1>5. ASSUME NEW d \in Existing(claim)' PROVE PaidOnce(d)'
  <2>1. CASE d = c
    BY <1>2, <1>3, <1>4, <2>1 DEF PaidOnce
  <2>2. CASE d # c
    <3>1. d \in Existing(claim) /\ claim'[d] = claim[d] /\ Payments(d)' = Payments(d) /\ PaidOnce(d)
      BY <1>3, <1>4, <1>5, <2>2 DEF PaidInv
    <3> QED
      BY <1>1, <3>1 DEF PaidOnce
  <2> QED
    BY <2>1, <2>2
<1>6. ASSUME NEW t \in Session, session[t] # None PROVE Adding(session[t])'
  <2>1. PICK r : r = session[t]
    OBVIOUS
  <2>2. Adding(r)
    BY <1>6, <2>1 DEF PaidInv
  <2>3. Adding(r)'
    BY <1>4, <2>2 DEF Adding
  <2> QED
    BY <1>1, <2>1, <2>3
<1> QED
  BY <1>1, <1>5, <1>6 DEF PaidInv

LEMMA PaidDecision ==
    ASSUME PaidInv, ClaimsInv', NEW s \in Session, CommitDecision(s)
    PROVE  PaidInv'
<1>1. PICK p : p = session[s]
  OBVIOUS
<1>2. PICK c : c = p.of
  OBVIOUS
<1>3. /\ p.kind \in {"submit", "verify", "adjust"} /\ c \in Existing(claim) /\ Adding(p)
      /\ p.loaded \in Columns /\ p.set \in Columns
  BY <1>1, <1>2, Held DEF CommitDecision, PaidInv, ClaimsInv, Referenced
<1>4. c \in Claim /\ claim[c] \in ClaimRow /\ claim[c].columns \in Columns
  BY <1>3, Numbers DEF PaidInv, ClaimsInv
<1>5. p.set.paid = p.loaded.paid
  BY <1>3 DEF Adding
<1>6. Written(p.loaded, p.set, claim[c].columns).paid = claim[c].columns.paid
  BY <1>3, <1>4, <1>5, WrittenColumns
<1>7. claim \in [Claim -> ClaimRow \cup {None}]
  BY DEF PaidInv, ClaimsInv, ClaimsTypeOK
<1>8. /\ claim'[c].columns = Written(p.loaded, p.set, claim[c].columns)
      /\ \A d \in Claim \ {c} : claim'[d] = claim[d]
      /\ UNCHANGED payment
  BY <1>1, <1>2, <1>4, <1>7 DEF CommitDecision, ClaimRow
<1>9. session \in [Session -> Pending \cup {None}] /\ session' = [session EXCEPT ![s] = None]
  BY DEF CommitDecision, Ends, PaidInv, ClaimsInv, ClaimsTypeOK
<1>10. /\ \A d : Payments(d)' = Payments(d)
       /\ Existing(claim)' \subseteq Existing(claim) /\ Existing(claim) \subseteq Claim
  <2>1. \A d : Payments(d)' = Payments(d)
    BY <1>8 DEF Existing, Payments
  <2>2. DOMAIN claim' = Claim
    BY DEF ClaimsInv, ClaimsTypeOK
  <2> QED
    BY <1>3, <1>7, <1>8, <2>1, <2>2 DEF Existing
<1>11. ASSUME NEW d \in Existing(claim)' PROVE PaidOnce(d)'
  <2>1. PaidOnce(d) /\ Payments(d)' = Payments(d)
    BY <1>10, <1>11 DEF PaidInv
  <2>2. claim'[d].columns.paid = claim[d].columns.paid
    <3>1. CASE d = c
      BY <1>6, <1>8, <3>1
    <3>2. CASE d # c
      BY <1>8, <1>10, <1>11, <3>2
    <3> QED
      BY <3>1, <3>2
  <2> QED
    BY <1>8, <2>1, <2>2 DEF PaidOnce
<1>12. ASSUME NEW t \in Session, session'[t] # None PROVE Adding(session[t])'
  <2>1. session'[t] = session[t]
    BY <1>9, <1>12
  <2>2. PICK r : r = session[t]
    OBVIOUS
  <2>3. Adding(r)
    BY <1>12, <2>1, <2>2 DEF PaidInv
  <2>4. Adding(r)'
    BY <1>10, <2>3 DEF Adding
  <2> QED
    BY <2>1, <2>2, <2>4
<1> QED
  BY <1>11, <1>12 DEF PaidInv

\* The first payment of a claim adds to nothing; there is no second one.
LEMMA PaidPayment ==
    ASSUME PaidInv, ClaimsInv', NEW s \in Session, CommitPayment(s), ~SourceTaken(session[s].of)
    PROVE  PaidInv'
<1>1. PICK p : p = session[s]
  OBVIOUS
<1>2. PICK c : c = p.of
  OBVIOUS
<1>3. /\ p.kind = "pay" /\ c \in Existing(claim) /\ Adding(p) /\ Payments(c) = {}
      /\ p.loaded \in Columns /\ p.set \in Columns /\ p.row \in PaymentRow
  BY <1>1, <1>2, Held DEF CommitPayment, PaidInv, ClaimsInv, Referenced, SourceTaken
<1>4. c \in Claim /\ claim[c] \in ClaimRow /\ claim[c].columns \in Columns
  BY <1>3, Numbers DEF PaidInv, ClaimsInv
<1>5. ClaimsInv /\ ClaimsTypeOK'
  BY DEF PaidInv, ClaimsInv
<1>6. PICK n \in PaymentId :
         /\ payment'[n] = p.row
         /\ Existing(claim)' = Existing(claim) /\ Existing(claim) \subseteq Claim
         /\ claim'[c] = [claim[c] EXCEPT !.columns = Written(p.loaded, p.set, @)]
         /\ \A d \in Claim \ {c} : claim'[d] = claim[d]
         /\ Payments(c)' = {n}
         /\ \A d \in Claim \ {c} : /\ Payments(d)' = Payments(d)
                                  /\ \A m \in Payments(d) : payment'[m] = payment[m]
  BY <1>1, <1>2, <1>3, <1>5, PaymentAdded
<1>7. p.loaded.paid = 0 /\ p.set.paid = p.row.amount /\ p.set.paid # p.loaded.paid
  <2>1. p.row.amount \in Int /\ p.row.amount > 0 /\ p.loaded.paid = 0
    BY <1>2, <1>3 DEF Adding, PaymentRow
  <2>2. p.set.paid = p.loaded.paid + p.row.amount
    BY <1>3 DEF Adding
  <2> QED
    BY <2>1, <2>2
<1>8. claim'[c].columns.paid = p.row.amount
  <2>1. claim'[c].columns = Written(p.loaded, p.set, claim[c].columns)
    BY <1>4, <1>6 DEF ClaimRow
  <2>2. Written(p.loaded, p.set, claim[c].columns).paid = p.set.paid
    BY <1>3, <1>4, <1>7, WrittenColumns
  <2> QED
    BY <1>7, <2>1, <2>2
<1>9. ASSUME NEW d \in Existing(claim)' PROVE PaidOnce(d)'
  <2>1. CASE d = c
    BY <1>6, <1>8, <2>1 DEF PaidOnce
  <2>2. CASE d # c
    <3>1. /\ claim'[d] = claim[d] /\ Payments(d)' = Payments(d) /\ PaidOnce(d)
          /\ \A m \in Payments(d) : payment'[m] = payment[m]
      BY <1>6, <1>9, <2>2 DEF PaidInv
    <3> QED
      BY <3>1 DEF PaidOnce
  <2> QED
    BY <2>1, <2>2
<1>10. session \in [Session -> Pending \cup {None}] /\ session' = [session EXCEPT ![s] = None]
  BY DEF CommitPayment, Ends, PaidInv, ClaimsInv, ClaimsTypeOK
<1>11. ASSUME NEW t \in Session, session'[t] # None PROVE Adding(session[t])'
  <2>1. session'[t] = session[t]
    BY <1>10, <1>11
  <2>2. PICK r : r = session[t]
    OBVIOUS
  <2>3. Adding(r) /\ r.of \in Claim
    BY <1>6, <1>11, <2>1, <2>2 DEF PaidInv, ClaimsInv, Referenced
  <2>4. Payments(r.of)' = {} => Payments(r.of) = {}
    BY <1>6, <2>3
  <2>5. Adding(r)'
    BY <2>3, <2>4 DEF Adding
  <2> QED
    BY <2>1, <2>2, <2>5
<1> QED
  BY <1>9, <1>11 DEF PaidInv
-----------------------------------------------------------------------------
LEMMA PaidStep == PaidInv /\ [Next]_vars => PaidInv'
<1> SUFFICES ASSUME PaidInv, [Next]_vars PROVE PaidInv'
  OBVIOUS
<1>1. ClaimsInv /\ ClaimsInv'
  BY InvStep DEF PaidInv
<1>2. ASSUME UNCHANGED <<claim, payment, session>> PROVE PaidInv'
  <2>1. \A t \in Session : \A r : session'[t] = r /\ r # None => Adding(r)
    BY <1>2 DEF PaidInv
  <2> QED
    BY <1>1, <1>2, <2>1, PaidStands
<1>3. ASSUME NEW d \in Delivery, NEW portions \in Received, Receive(d, portions) PROVE PaidInv'
  BY <1>2, <1>3 DEF Receive
<1>4. ASSUME NEW s \in Session, NEW c \in Existing(claim), BeginSubmit(s, c) PROVE PaidInv'
  <2> DEFINE set == [claim[c].columns EXCEPT !.status = "SUBMITTED"]
  <2>1. set.paid = claim[c].columns.paid
    BY <1>1, Numbers DEF ClaimsInv, Columns
  <2>2. session' = [session EXCEPT ![s] = Request("submit", c, set)] /\ UNCHANGED <<claim, payment>>
    BY <1>4 DEF BeginSubmit, Holds
  <2> HIDE DEF set
  <2> QED
    BY <1>1, <2>1, <2>2, PaidUntouched
<1>5. ASSUME NEW s \in Session, NEW c \in Existing(claim), NEW amount \in Amounts,
             BeginAdjust(s, c, amount)
      PROVE  PaidInv'
  <2> DEFINE set == [claim[c].columns EXCEPT !.status = "ADJUSTED", !.approved = Due(c) + amount]
  <2>1. set.paid = claim[c].columns.paid
    BY <1>1, Numbers DEF ClaimsInv, Columns
  <2>2. session' = [session EXCEPT ![s] = Request("adjust", c, set)] /\ UNCHANGED <<claim, payment>>
    BY <1>5 DEF BeginAdjust, Holds
  <2> HIDE DEF set
  <2> QED
    BY <1>1, <2>1, <2>2, PaidUntouched
<1>6. ASSUME NEW s \in Session, CommitPayment(s) PROVE PaidInv'
  <2>1. CASE SourceTaken(session[s].of)
    BY <1>1, <1>6, <2>1, PaidOpened DEF CommitPayment, Ends
  <2> QED
    BY <1>1, <1>6, <2>1, PaidPayment
<1>7. ASSUME NEW s \in Session, Disconnect(s) PROVE PaidInv'
  BY <1>1, <1>7, PaidOpened DEF Disconnect, Ends
<1>8. CASE UNCHANGED vars
  BY <1>2, <1>8 DEF vars
<1> QED
  BY <1>1, <1>3, <1>4, <1>5, <1>6, <1>7, <1>8, PaidCreate, PaidVerify, PaidPay, PaidDecision DEF Next

\* What was paid once adds up to what was paid.
LEMMA OnceAddsUp == PaidInv => PaidIsPaidOut
<1> SUFFICES ASSUME PaidInv, NEW c \in Existing(claim)
             PROVE  claim[c].columns.paid = PaidOut(c)
  BY DEF PaidIsPaidOut
<1> DEFINE amounts == [n \in Payments(c) |-> payment[n].amount]
<1>1. PaidOut(c) = Total(amounts, Payments(c)) /\ PaidOnce(c)
  BY DEF PaidOut, PaidInv
<1>2. CASE Payments(c) = {}
  <2>1. Total(amounts, {}) = 0
    BY TotalOfNone
  <2> QED
    BY <1>1, <1>2, <2>1 DEF PaidOnce
<1>3. ASSUME NEW n \in Payments(c) PROVE claim[c].columns.paid = PaidOut(c)
  <2>1. Payments(c) = {n} /\ claim[c].columns.paid = payment[n].amount
    BY <1>1 DEF PaidOnce
  <2>2. amounts[n] = payment[n].amount /\ amounts[n] \in Int
    <3>1. payment[n] \in PaymentRow
      BY DEF Payments, Existing, PaidInv, ClaimsInv, ClaimsTypeOK
    <3> QED
      BY <3>1 DEF PaymentRow
  <2> HIDE DEF amounts
  <2>3. Total(amounts, {n}) = amounts[n] + Total(amounts, {n} \ {n})
    BY <2>2, TotalSplit, FS_Singleton
  <2>4. Total(amounts, {n} \ {n}) = 0
    BY TotalOfNone
  <2> QED
    BY <1>1, <2>1, <2>2, <2>3, <2>4
<1> QED
  BY <1>2, <1>3

(***************************************************************************)
(* No payment is lost or counted twice: what stands as paid of a claim is  *)
(* what its payments add up to, however requests to pay it overlap.        *)
(***************************************************************************)
THEOREM PaymentsAddUp == Spec => []PaidIsPaidOut
<1> QED
  BY PaidInit, PaidStep, OnceAddsUp, PTL DEF Spec
=============================================================================
