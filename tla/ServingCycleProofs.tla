-------------------------- MODULE ServingCycleProofs --------------------------
(***************************************************************************)
(* For any number of orders, inspections, deliveries and sessions: a       *)
(* verdict is changed only where a line was committed that a finalisation  *)
(* did not see, and so what was cleared for release stays cleared; and a   *)
(* delivery is received once, and shows the portions of one proof, but for *)
(* the overlaps that the properties name.                                  *)
(***************************************************************************)
EXTENDS ServingCycle, FiniteSetTheorems, TLAPS

\* What finalize_inspection makes of the lines it sees.
VerdictOf(lines) == IF "FAIL" \in lines THEN "FAILED" ELSE "PASSED"

\* While no line came late, verdicts and pending verdicts are those of the lines.
Judged(i) ==
    ~inspection[i].late =>
        /\ inspection[i].status \in Verdict => inspection[i].status = VerdictOf(inspection[i].lines)
        /\ \A s \in Session :
              session[s] # None /\ session[s].kind = "finalize" /\ session[s].id = i
                  => session[s].verdict = VerdictOf(inspection[i].lines)

\* Requests are about rows there are.
References(p) ==
    /\ p.kind \in {"line", "finalize"} => p.id \in Existing(inspection)
    /\ p.kind = "release" => order[p.id] # None
    /\ p.kind = "plan" => p.stops \subseteq Existing(delivery)
    /\ p.kind = "proof" => p.proof.of \in Existing(delivery)

Referenced == \A s \in Session : session[s] # None => References(session[s])

\* An inspection that was loaded with a verdict has one.
Loaded ==
    \A s \in Session :
        session[s] # None /\ session[s].kind = "finalize" /\ session[s].loaded \in Verdict
            => inspection[session[s].id].status \in Verdict

Cleared(i) ==
    inspection[i] # None /\ (inspection[i].status = "PASSED" \/ inspection[i].late)

\* Of deliveries, and of releases still to be committed.
AllCleared ==
    /\ \A d \in Existing(delivery) : \A i \in delivery[d].cleared : Cleared(i)
    /\ \A s \in Session :
          session[s] # None /\ session[s].kind = "release" => \A i \in session[s].cleared : Cleared(i)

ServingInv ==
    /\ ServingTypeOK
    /\ Referenced
    /\ \A i \in Existing(inspection) : Judged(i)
    /\ Loaded
    /\ AllCleared
-----------------------------------------------------------------------------
LEMMA OpensTypes ==
    ASSUME ServingTypeOK, NEW s \in Session, NEW held \in Pending, Opens(s, held),
           UNCHANGED <<order, inspection, delivery, route, proof, incident>>
    PROVE  ServingTypeOK'
<1>1. opened' \in 0 .. MaxRequests
  BY ServingBounds DEF ServingTypeOK, Opens
<1>2. session' \in [Session -> Pending \cup {None}]
  BY DEF ServingTypeOK, Opens
<1> QED
  BY <1>1, <1>2 DEF ServingTypeOK

LEMMA ClosesTypes ==
    ASSUME ServingTypeOK, NEW s \in Session, Closes(s)
    PROVE  session' \in [Session -> Pending \cup {None}] /\ opened' \in 0 .. MaxRequests
BY DEF ServingTypeOK, Closes

\* What a session holds, by the kind of its request.
LEMMA Held ==
    ASSUME ServingTypeOK, NEW s \in Session, session[s] # None
    PROVE  LET p == session[s] IN
           /\ p.kind \in {"line", "finalize", "release", "plan", "proof"}
           /\ p.kind = "line" => p.id \in Inspection /\ p.result \in Result /\ p.loaded = "DRAFT"
           /\ p.kind = "finalize" =>
                 p.id \in Inspection /\ p.verdict \in Verdict /\ p.loaded \in InspectionStatus
           /\ p.kind = "release" => p.id \in Order /\ p.cleared \in SUBSET Inspection
           /\ p.kind = "plan" =>
                 /\ p.stops \in SUBSET Delivery /\ p.loading \in SUBSET Delivery
                 /\ p.before \in SUBSET ProofId
           /\ p.kind = "proof" => p.proof \in ProofRow /\ p.loaded \in DeliveryRow
<1> DEFINE p == session[s]
<1>1. p \in Pending
  BY DEF ServingTypeOK
<1> HIDE DEF p
<1> SUFFICES
      /\ p.kind \in {"line", "finalize", "release", "plan", "proof"}
      /\ p.kind = "line" => p.id \in Inspection /\ p.result \in Result /\ p.loaded = "DRAFT"
      /\ p.kind = "finalize" =>
            p.id \in Inspection /\ p.verdict \in Verdict /\ p.loaded \in InspectionStatus
      /\ p.kind = "release" => p.id \in Order /\ p.cleared \in SUBSET Inspection
      /\ p.kind = "plan" =>
            /\ p.stops \in SUBSET Delivery /\ p.loading \in SUBSET Delivery
            /\ p.before \in SUBSET ProofId
      /\ p.kind = "proof" => p.proof \in ProofRow /\ p.loaded \in DeliveryRow
  BY DEF p
<1>2. CASE p \in [kind : {"line"}, id : Inspection, result : Result, loaded : {"DRAFT"}]
  BY <1>2
<1>3. CASE p \in [kind : {"finalize"}, id : Inspection, verdict : Verdict, loaded : InspectionStatus]
  BY <1>3
<1>4. CASE p \in [kind : {"release"}, id : Order, cleared : SUBSET Inspection]
  BY <1>4
<1>5. CASE p \in [kind : {"plan"}, loading : SUBSET Delivery, stops : SUBSET Delivery,
                  before : SUBSET ProofId]
  BY <1>5
<1>6. CASE p \in [kind : {"proof"}, proof : ProofRow, loaded : DeliveryRow]
  BY <1>6
<1> QED
  BY <1>1, <1>2, <1>3, <1>4, <1>5, <1>6 DEF Pending

LEMMA ProofsAreIds == ServingTypeOK => Proofs \in SUBSET ProofId
BY DEF ServingTypeOK, Proofs, Existing
-----------------------------------------------------------------------------
\* A route writes the deliveries it loaded, not what cleared them.
LEMMA PlanWrites ==
    ASSUME ServingTypeOK, Referenced, NEW s \in Session, NEW r \in Route, CommitPlan(s, r)
    PROVE  /\ delivery' \in [Delivery -> DeliveryRow \cup {None}]
           /\ Existing(delivery)' = Existing(delivery)
           /\ \A d \in Existing(delivery) : delivery'[d].cleared = delivery[d].cleared
<1>1. PICK p : p = session[s]
  OBVIOUS
<1>2. p.stops \in SUBSET Delivery /\ \A d \in p.stops : delivery[d] \in DeliveryRow
  BY <1>1, Held DEF CommitPlan, Referenced, References, Existing, ServingTypeOK
<1>3. ASSUME NEW d \in p.stops, NEW status \in Active \cup Final
      PROVE  /\ [delivery[d] EXCEPT !.route = r, !.status = status] \in DeliveryRow
             /\ [delivery[d] EXCEPT !.route = r, !.status = status].cleared = delivery[d].cleared
  BY <1>2 DEF DeliveryRow
<1>4. ASSUME NEW d \in p.stops
      PROVE  /\ delivery'[d] \in DeliveryRow /\ delivery'[d].cleared = delivery[d].cleared
             /\ delivery[d] \in DeliveryRow
  <2>1. delivery[d].status \in Active \cup Final /\ d \in Delivery
    BY <1>2 DEF DeliveryRow
  <2>2. CASE d \in p.loading
    <3>1. delivery'[d] = [delivery[d] EXCEPT !.route = r, !.status = "LOADING"]
      BY <1>1, <2>1, <2>2 DEF CommitPlan
    <3>2. "LOADING" \in Active \cup Final
      BY DEF Active
    <3> QED
      BY <1>2, <1>3, <3>1, <3>2
  <2>3. CASE d \notin p.loading
    <3>1. delivery'[d] = [delivery[d] EXCEPT !.route = r, !.status = delivery[d].status]
      BY <1>1, <2>1, <2>3 DEF CommitPlan
    <3> QED
      BY <1>2, <1>3, <2>1, <3>1
  <2> QED
    BY <2>2, <2>3
<1>5. \A d \in Delivery \ p.stops : delivery'[d] = delivery[d]
  BY <1>1 DEF CommitPlan
<1>6. DOMAIN delivery' = Delivery /\ delivery' = [d \in Delivery |-> delivery'[d]]
  BY DEF CommitPlan
<1> QED
  BY <1>2, <1>4, <1>5, <1>6, NoneIsNoRow DEF ServingTypeOK, Existing

\* So does a proof.
LEMMA ProofWrites ==
    ASSUME ServingTypeOK, Referenced, NEW s \in Session, CommitProof(s)
    PROVE  /\ delivery' \in [Delivery -> DeliveryRow \cup {None}]
           /\ Existing(delivery)' = Existing(delivery)
           /\ \A d \in Existing(delivery) : delivery'[d].cleared = delivery[d].cleared
<1>1. PICK p : p = session[s].proof
  OBVIOUS
<1>2. PICK loaded : loaded = session[s].loaded
  OBVIOUS
<1>3. p \in ProofRow /\ loaded \in DeliveryRow /\ p.of \in Delivery /\ delivery[p.of] \in DeliveryRow
  BY <1>1, <1>2, Held DEF CommitProof, Referenced, References, Existing, ServingTypeOK, ProofRow
<1>4. PICK status : status = StatusOf(p.received, p.rejected, ShippedOf(loaded))
  OBVIOUS
<1>5. status \in Final
  BY <1>4 DEF StatusOf, Final
<1>6. \A old, current \in Portions \cup {None}, new \in Portions :
         Written(old, new, current) \in Portions \cup {None}
  BY DEF Written
<1>7. PICK received, rejected \in Portions \cup {None} :
         delivery' = [delivery EXCEPT ![p.of].received = received, ![p.of].rejected = rejected,
                                      ![p.of].status = status]
  <2>1. /\ Written(loaded.received, p.received, delivery[p.of].received) \in Portions \cup {None}
        /\ Written(loaded.rejected, p.rejected, delivery[p.of].rejected) \in Portions \cup {None}
    BY <1>3, <1>6 DEF ProofRow, DeliveryRow
  <2>2. delivery' = [delivery EXCEPT
           ![p.of].received = Written(loaded.received, p.received, delivery[p.of].received),
           ![p.of].rejected = Written(loaded.rejected, p.rejected, delivery[p.of].rejected),
           ![p.of].status = status]
    BY <1>1, <1>2, <1>4 DEF CommitProof
  <2> QED
    BY <2>1, <2>2
<1> DEFINE row == [delivery[p.of] EXCEPT !.received = received, !.rejected = rejected, !.status = status]
<1>8. row \in DeliveryRow /\ row.cleared = delivery[p.of].cleared
  BY <1>3, <1>5 DEF DeliveryRow
<1>9. delivery' = [delivery EXCEPT ![p.of] = row]
  BY <1>3, <1>7 DEF ServingTypeOK
<1> HIDE DEF row
<1> QED
  BY <1>3, <1>8, <1>9, NoneIsNoRow DEF ServingTypeOK, Existing

\* Of a route it changes whether it arrived and where: not the stops, nor what
\* the route had read.
LEMMA ProofMarks ==
    ASSUME ServingTypeOK, Referenced, NEW s \in Session, CommitProof(s), NEW r \in Route,
           route[r] # None
    PROVE  /\ route'[r] \in RouteRow
           /\ route'[r].stops = route[r].stops /\ route'[r].before = route[r].before
           /\ route'[r].after = route[r].after
<1>1. PICK p : p = session[s].proof
  OBVIOUS
<1>2. p.of \in Delivery
  BY <1>1, Held DEF CommitProof, ProofRow
<1>3. PICK status : status = StatusOf(p.received, p.rejected, ShippedOf(session[s].loaded))
  OBVIOUS
<1>4. PICK row \in RouteRow : row = route[r]
  BY DEF ServingTypeOK
<1>5. row.status \in {"PLANNED", "ARRIVED"} /\ row.marked \in SUBSET Delivery
  BY DEF RouteRow
<1>6. ASSUME NEW new \in {"PLANNED", "ARRIVED"}, NEW marked \in SUBSET Delivery
      PROVE  LET written == [row EXCEPT !.status = new, !.marked = marked] IN
             /\ written \in RouteRow
             /\ written.stops = row.stops /\ written.before = row.before /\ written.after = row.after
  BY DEF RouteRow
<1> DEFINE new == IF r = p.route /\ status # "REJECTED" THEN "ARRIVED" ELSE row.status
           marked == IF r = p.stop THEN row.marked \cup {p.of} ELSE row.marked
<1>7. new \in {"PLANNED", "ARRIVED"} /\ marked \in SUBSET Delivery
  BY <1>2, <1>5
<1>8. route'[r] = IF p.route # None THEN [row EXCEPT !.status = new, !.marked = marked] ELSE row
  BY <1>1, <1>3, <1>4 DEF CommitProof
<1> HIDE DEF new, marked
<1>9. /\ [row EXCEPT !.status = new, !.marked = marked] \in RouteRow
      /\ [row EXCEPT !.status = new, !.marked = marked].stops = row.stops
      /\ [row EXCEPT !.status = new, !.marked = marked].before = row.before
      /\ [row EXCEPT !.status = new, !.marked = marked].after = row.after
  BY <1>6, <1>7
<1> QED
  BY <1>4, <1>8, <1>9
-----------------------------------------------------------------------------
LEMMA TypesStep == ServingTypeOK /\ Referenced /\ [Next]_vars => ServingTypeOK'
<1> SUFFICES ASSUME ServingTypeOK, Referenced, [Next]_vars PROVE ServingTypeOK'
  OBVIOUS
<1>1. ASSUME NEW o \in Order, NEW completion \in Completion, CompleteOrder(o, completion)
      PROVE  ServingTypeOK'
  <2>1. Shipped(completion) \in Portions \cup {Planned}
    BY DEF Shipped, Completion
  <2> QED
    BY <1>1, <2>1 DEF CompleteOrder, ServingTypeOK
<1>2. ASSUME NEW i \in Inspection, NEW o \in Order, NEW mandatory \in BOOLEAN,
             CreateInspection(i, o, mandatory)
      PROVE  ServingTypeOK'
  <2>1. [of |-> o, mandatory |-> mandatory, status |-> "DRAFT", lines |-> {}, late |-> FALSE]
          \in InspectionRow
    BY DEF InspectionRow, InspectionStatus
  <2> QED
    BY <1>2, <2>1 DEF CreateInspection, ServingTypeOK
<1>3. ASSUME NEW d \in Existing(delivery), NEW stop \in Route \cup {None}, RecordIncident(d, stop)
      PROVE  ServingTypeOK'
  <2>1. d \in Delivery /\ delivery[d] \in DeliveryRow
    BY DEF Existing, ServingTypeOK
  <2>2. [of |-> d, route |-> delivery[d].route, stop |-> stop] \in IncidentRow
    BY <2>1 DEF IncidentRow, DeliveryRow
  <2> QED
    BY <1>3, <2>2 DEF RecordIncident, ServingTypeOK
<1>4. ASSUME NEW s \in Session, NEW i \in Inspection, NEW result \in Result, BeginLine(s, i, result)
      PROVE  ServingTypeOK'
  <2>1. inspection[i].status = "DRAFT"
    BY <1>4 DEF BeginLine, ServingTypeOK, InspectionRow, InspectionStatus
  <2>2. [kind |-> "line", id |-> i, result |-> result, loaded |-> inspection[i].status] \in Pending
    BY <2>1 DEF Pending
  <2> QED
    BY <1>4, <2>2, OpensTypes DEF BeginLine
<1>5. ASSUME NEW s \in Session, NEW i \in Inspection, BeginFinalize(s, i) PROVE ServingTypeOK'
  <2> DEFINE verdict == IF "FAIL" \in inspection[i].lines THEN "FAILED" ELSE "PASSED"
  <2>1. inspection[i].status \in InspectionStatus
    BY <1>5 DEF BeginFinalize, ServingTypeOK, InspectionRow
  <2>2. verdict \in Verdict
    BY DEF Verdict
  <2> HIDE DEF verdict
  <2>3. [kind |-> "finalize", id |-> i, loaded |-> inspection[i].status, verdict |-> verdict] \in Pending
    BY <2>1, <2>2 DEF Pending
  <2> QED
    BY <1>5, <2>3, OpensTypes DEF BeginFinalize, verdict
<1>6. ASSUME NEW s \in Session, NEW o \in Order, BeginRelease(s, o) PROVE ServingTypeOK'
  <2>1. Mandatory(o) \in SUBSET Inspection
    BY DEF Mandatory, Existing, ServingTypeOK
  <2>2. [kind |-> "release", id |-> o, cleared |-> Mandatory(o)] \in Pending
    BY <2>1 DEF Pending
  <2> QED
    BY <1>6, <2>2, OpensTypes DEF BeginRelease
<1>7. ASSUME NEW s \in Session, NEW stops \in SUBSET Existing(delivery), BeginPlan(s, stops)
      PROVE  ServingTypeOK'
  <2> DEFINE loading == {d \in stops : delivery[d].status = "IN_TRANSIT"}
             held == [kind |-> "plan", stops |-> stops, before |-> Proofs, loading |-> loading]
  <2>1. stops \in SUBSET Delivery /\ loading \in SUBSET Delivery
    BY DEF Existing, ServingTypeOK
  <2>2. held \in Pending
    BY <2>1, ProofsAreIds DEF Pending
  <2> QED
    BY <1>7, <2>2, OpensTypes DEF BeginPlan
<1>8. ASSUME NEW s \in Session, NEW d \in Delivery, NEW received \in Portions, NEW rejected \in Portions,
             NEW stop \in Route \cup {None}, BeginProof(s, d, received, rejected, stop)
      PROVE  ServingTypeOK'
  <2>1. delivery[d] \in DeliveryRow
    BY <1>8 DEF BeginProof, ServingTypeOK
  <2> DEFINE row == [of |-> d, received |-> received, rejected |-> rejected,
                     route |-> delivery[d].route, stop |-> stop, before |-> Proofs]
             held == [kind |-> "proof", loaded |-> delivery[d], proof |-> row]
  <2>2. row \in ProofRow
    BY <2>1, ProofsAreIds DEF ProofRow, DeliveryRow
  <2>3. Opens(s, held) /\ UNCHANGED <<order, inspection, delivery, route, proof, incident>>
    BY <1>8 DEF BeginProof
  <2> HIDE DEF row
  <2>4. held \in Pending
    BY <2>1, <2>2 DEF Pending
  <2> QED
    BY <2>3, <2>4, OpensTypes
<1>9. ASSUME NEW s \in Session, CommitLine(s) PROVE ServingTypeOK'
  <2>1. PICK p : p = session[s]
    OBVIOUS
  <2>2. p.id \in Inspection /\ inspection[p.id] \in InspectionRow /\ p.result \in Result
    BY <1>9, <2>1, Held DEF CommitLine, Referenced, References, Existing, ServingTypeOK
  <2> DEFINE late == p.loaded = "DRAFT" /\ (inspection[p.id].status # "DRAFT" \/ Finalizing(p.id))
  <2>3. late \in BOOLEAN
    OBVIOUS
  <2>4. inspection' = [inspection EXCEPT ![p.id].lines = @ \cup {p.result}, ![p.id].late = @ \/ late]
    BY <1>9, <2>1 DEF CommitLine
  <2> HIDE DEF late
  <2>5. inspection' \in [Inspection -> InspectionRow \cup {None}]
    BY <2>2, <2>3, <2>4 DEF ServingTypeOK, InspectionRow
  <2> QED
    BY <1>9, <2>5, ClosesTypes DEF CommitLine, ServingTypeOK
<1>10. ASSUME NEW s \in Session, CommitFinalize(s) PROVE ServingTypeOK'
  <2>1. PICK p : p = session[s]
    OBVIOUS
  <2>2. p.id \in Inspection /\ inspection[p.id] \in InspectionRow /\ p.verdict \in InspectionStatus
    BY <1>10, <2>1, Held DEF CommitFinalize, InspectionStatus, Referenced, References, Existing,
                             ServingTypeOK
  <2>3. inspection' \in [Inspection -> InspectionRow \cup {None}]
    BY <1>10, <2>1, <2>2 DEF CommitFinalize, ServingTypeOK, InspectionRow
  <2> QED
    BY <1>10, <2>3, ClosesTypes DEF CommitFinalize, ServingTypeOK
<1>11. ASSUME NEW s \in Session, NEW d \in Delivery, CommitRelease(s, d) PROVE ServingTypeOK'
  <2>1. PICK p : p = session[s]
    OBVIOUS
  <2>2. p.id \in Order /\ p.cleared \in SUBSET Inspection /\ order[p.id] \in Portions \cup {Planned}
    BY <1>11, <2>1, Held DEF CommitRelease, Referenced, References, ServingTypeOK
  <2>3. [of |-> p.id, shipped |-> order[p.id], received |-> None, rejected |-> None,
         status |-> "IN_TRANSIT", route |-> None, cleared |-> p.cleared] \in DeliveryRow
    BY <2>2 DEF DeliveryRow, Active
  <2>4. delivery' \in [Delivery -> DeliveryRow \cup {None}]
    BY <1>11, <2>1, <2>3 DEF CommitRelease, ServingTypeOK
  <2> QED
    BY <1>11, <2>4, ClosesTypes DEF CommitRelease, ServingTypeOK
<1>12. ASSUME NEW s \in Session, NEW r \in Route, CommitPlan(s, r) PROVE ServingTypeOK'
  <2>1. PICK p : p = session[s]
    OBVIOUS
  <2>2. /\ p.stops \in SUBSET Delivery /\ p.before \in SUBSET ProofId
        /\ \A d \in p.stops : delivery[d] \in DeliveryRow
    BY <1>12, <2>1, Held DEF CommitPlan, Referenced, References, Existing, ServingTypeOK
  <2>3. [status |-> "PLANNED", stops |-> p.stops, marked |-> {}, before |-> p.before,
         after |-> Proofs] \in RouteRow
    BY <2>2, ProofsAreIds DEF RouteRow
  <2>4. route' \in [Route -> RouteRow \cup {None}]
    BY <1>12, <2>1, <2>3 DEF CommitPlan, ServingTypeOK
  <2> QED
    BY <1>12, <2>4, PlanWrites, ClosesTypes DEF CommitPlan, ServingTypeOK
<1>13. ASSUME NEW s \in Session, CommitProof(s) PROVE ServingTypeOK'
  <2>1. PICK p : p = session[s].proof
    OBVIOUS
  <2>2. PICK loaded : loaded = session[s].loaded
    OBVIOUS
  <2>3. /\ p \in ProofRow /\ loaded \in DeliveryRow /\ p.of \in Delivery
        /\ delivery[p.of] \in DeliveryRow
    BY <1>13, <2>1, <2>2, Held DEF CommitProof, Referenced, References, Existing, ServingTypeOK, ProofRow
  <2>4. proof' \in [ProofId -> ProofRow \cup {None}]
    BY <1>13, <2>1, <2>3 DEF CommitProof, ServingTypeOK
  <2>5. ASSUME NEW r \in Route PROVE route'[r] \in RouteRow \cup {None}
    BY <1>13, ProofMarks DEF CommitProof
  <2>6. route' \in [Route -> RouteRow \cup {None}]
    <3>1. DOMAIN route' = Route /\ route' = [r \in Route |-> route'[r]]
      BY <1>13 DEF CommitProof
    <3> QED
      BY <2>5, <3>1
  <2> QED
    BY <1>13, <2>4, <2>6, ProofWrites, ClosesTypes DEF CommitProof, ServingTypeOK
<1>14. ASSUME NEW s \in Session, Disconnect(s) PROVE ServingTypeOK'
  BY <1>14, ClosesTypes DEF Disconnect, ServingTypeOK
<1>15. CASE UNCHANGED vars
  BY <1>15 DEF vars, ServingTypeOK
<1> QED
  BY <1>1, <1>2, <1>3, <1>4, <1>5, <1>6, <1>7, <1>8, <1>9, <1>10, <1>11, <1>12, <1>13, <1>14, <1>15
     DEF Next
-----------------------------------------------------------------------------
LEMMA InitEstablishes == Init => ServingInv
<1> SUFFICES ASSUME Init PROVE ServingInv
  OBVIOUS
<1>1. ServingTypeOK
  BY ServingBounds DEF Init, ServingTypeOK
<1>2. Existing(inspection) = {} /\ Existing(delivery) = {} /\ \A s \in Session : session[s] = None
  BY DEF Init, Existing
<1> QED
  BY <1>1, <1>2 DEF ServingInv, Referenced, Loaded, AllCleared

\* Requests end and rows are added: no inspection is touched.
LEMMA InspectionsAlone ==
    ASSUME ServingInv, ServingTypeOK', UNCHANGED inspection,
           \A t \in Session : session'[t] \in {session[t], None},
           \A o \in Order : order[o] # None => order'[o] # None,
           Existing(delivery) \subseteq Existing(delivery)',
           \A d \in Existing(delivery)' : \A i \in delivery'[d].cleared : Cleared(i)
    PROVE  ServingInv'
<1>1. ASSUME NEW t \in Session, session'[t] # None
      PROVE  session'[t] = session[t] /\ session[t] # None
  BY <1>1
<1>2. Existing(inspection)' = Existing(inspection) /\ \A i : Cleared(i)' <=> Cleared(i)
  BY DEF Existing, Cleared
<1>3. Referenced'
  <2> SUFFICES ASSUME NEW t \in Session, session'[t] # None PROVE References(session[t])'
    BY DEF Referenced
  <2>1. PICK p : p = session[t]
    OBVIOUS
  <2>2. session'[t] = p /\ References(p) /\ (p.kind = "release" => p.id \in Order)
    BY <1>1, <2>1, Held DEF ServingInv, Referenced
  <2>3. References(p)'
    BY <1>2, <2>2 DEF References
  <2> QED
    BY <2>2, <2>3
<1>4. Loaded'
  BY <1>1 DEF ServingInv, Loaded
<1>5. ASSUME NEW i \in Existing(inspection) PROVE Judged(i)'
  BY <1>1, <1>5 DEF ServingInv, Judged
<1>6. AllCleared'
  BY <1>1, <1>2 DEF ServingInv, AllCleared
<1> QED
  BY <1>2, <1>3, <1>4, <1>5, <1>6 DEF ServingInv

\* A request is opened with what it read.
LEMMA RequestOpens ==
    ASSUME ServingInv, ServingTypeOK', NEW s \in Session, NEW held, Opens(s, held),
           UNCHANGED <<order, inspection, delivery, route, proof, incident>>,
           References(held),
           held.kind = "finalize" =>
              /\ held.verdict = VerdictOf(inspection[held.id].lines)
              /\ held.loaded \in Verdict => inspection[held.id].status \in Verdict,
           held.kind = "release" => \A i \in held.cleared : Cleared(i)
    PROVE  ServingInv'
<1>1. \A t \in Session : session'[t] = IF t = s THEN held ELSE session[t]
  BY DEF ServingInv, ServingTypeOK, Opens
<1>2. /\ Existing(inspection)' = Existing(inspection) /\ Existing(delivery)' = Existing(delivery)
      /\ \A i : Cleared(i)' <=> Cleared(i)
  BY DEF Existing, Cleared
<1>3. Referenced'
  <2> SUFFICES ASSUME NEW t \in Session, session'[t] # None PROVE References(session[t])'
    BY DEF Referenced
  <2>1. PICK p : p = session'[t]
    OBVIOUS
  <2>2. References(p)
    BY <1>1, <2>1 DEF ServingInv, Referenced
  <2>3. References(p)'
    BY <1>2, <2>2 DEF References
  <2> QED
    BY <2>1, <2>3
<1>4. Loaded'
  BY <1>1 DEF ServingInv, Loaded
<1>5. ASSUME NEW i \in Existing(inspection) PROVE Judged(i)'
  BY <1>1, <1>5 DEF ServingInv, Judged
<1>6. AllCleared'
  BY <1>1, <1>2 DEF ServingInv, AllCleared
<1> QED
  BY <1>2, <1>3, <1>4, <1>5, <1>6 DEF ServingInv

\* One inspection is written by the request of s: what must hold of its row.
LEMMA InspectionWritten ==
    ASSUME ServingInv, ServingTypeOK', NEW s \in Session, Closes(s),
           UNCHANGED <<order, delivery>>,
           NEW i \in Existing(inspection), NEW row \in InspectionRow,
           inspection' = [inspection EXCEPT ![i] = row],
           inspection[i].late => row.late,
           inspection[i].status \in Verdict => row.status = inspection[i].status \/ row.late,
           inspection[i].status \in Verdict => row.status \in Verdict,
           Judged(i)'
    PROVE  ServingInv'
<1>1. ASSUME NEW t \in Session, session'[t] # None
      PROVE  session'[t] = session[t] /\ session[t] # None
  BY <1>1 DEF ServingInv, ServingTypeOK, Closes
<1>2. /\ i \in Inspection /\ inspection'[i] = row /\ row # None
      /\ \A j \in Inspection \ {i} : inspection'[j] = inspection[j]
  BY NoneIsNoRow DEF ServingInv, ServingTypeOK, Existing
<1>3. Existing(inspection)' = Existing(inspection) /\ Existing(delivery)' = Existing(delivery)
  BY <1>2 DEF Existing, ServingInv, ServingTypeOK
<1>4. ASSUME NEW j \in Inspection, Cleared(j) PROVE Cleared(j)'
  BY <1>2, <1>4 DEF Cleared, Verdict
<1>5. Referenced'
  <2> SUFFICES ASSUME NEW t \in Session, session'[t] # None PROVE References(session[t])'
    BY DEF Referenced
  <2>1. PICK p : p = session[t]
    OBVIOUS
  <2>2. session'[t] = p /\ References(p)
    BY <1>1, <2>1 DEF ServingInv, Referenced
  <2>3. References(p)'
    BY <1>3, <2>2 DEF References
  <2> QED
    BY <2>2, <2>3
<1>6. Loaded'
  <2> SUFFICES ASSUME NEW t \in Session, session'[t] # None, session'[t].kind = "finalize",
                      session'[t].loaded \in Verdict
               PROVE  inspection'[session'[t].id].status \in Verdict
    BY DEF Loaded
  <2>1. session'[t].id \in Inspection /\ inspection[session'[t].id].status \in Verdict
    BY <1>1, Held DEF ServingInv, Loaded
  <2> QED
    BY <1>2, <2>1
<1>7. ASSUME NEW j \in Existing(inspection) PROVE Judged(j)'
  <2>1. CASE j = i
    BY <2>1
  <2>2. CASE j # i
    <3>1. inspection'[j] = inspection[j] /\ Judged(j)
      BY <1>2, <1>7, <2>2 DEF ServingInv, ServingTypeOK, Existing
    <3> QED
      BY <1>1, <3>1 DEF Judged
  <2> QED
    BY <2>1, <2>2
<1>8. AllCleared'
  <2>1. ASSUME NEW d \in Existing(delivery), NEW j \in delivery[d].cleared PROVE Cleared(j)'
    <3>1. j \in Inspection /\ Cleared(j)
      BY <2>1 DEF ServingInv, AllCleared, ServingTypeOK, Existing, DeliveryRow
    <3> QED
      BY <1>4, <3>1
  <2>2. ASSUME NEW t \in Session, session'[t] # None, session'[t].kind = "release",
               NEW j \in session'[t].cleared
        PROVE  Cleared(j)'
    <3>1. j \in Inspection /\ Cleared(j)
      BY <1>1, <2>2, Held DEF ServingInv, AllCleared
    <3> QED
      BY <1>4, <3>1
  <2> QED
    BY <1>3, <2>1, <2>2 DEF AllCleared
<1> QED
  BY <1>3, <1>5, <1>6, <1>7, <1>8 DEF ServingInv
-----------------------------------------------------------------------------
LEMMA CreateInspectionKeeps ==
    ASSUME ServingInv, ServingTypeOK', NEW i \in Inspection, NEW o \in Order, NEW mandatory \in BOOLEAN,
           CreateInspection(i, o, mandatory)
    PROVE  ServingInv'
<1> DEFINE row == [of |-> o, mandatory |-> mandatory, status |-> "DRAFT", lines |-> {}, late |-> FALSE]
<1>1. /\ inspection[i] = None /\ inspection' = [inspection EXCEPT ![i] = row]
      /\ UNCHANGED <<order, delivery, session>>
  BY DEF CreateInspection
<1>2. row.status = "DRAFT"
  OBVIOUS
<1> HIDE DEF row
<1>3. /\ inspection'[i] = row /\ \A j \in Inspection \ {i} : inspection'[j] = inspection[j]
      /\ Existing(inspection)' \subseteq Existing(inspection) \cup {i}
      /\ Existing(inspection) \subseteq Existing(inspection)'
      /\ Existing(inspection) \subseteq Inspection \ {i}
  BY <1>1 DEF ServingInv, ServingTypeOK, Existing
<1>4. Referenced'
  <2> SUFFICES ASSUME NEW t \in Session, session[t] # None PROVE References(session[t])'
    BY <1>1 DEF Referenced
  <2>1. PICK p : p = session[t]
    OBVIOUS
  <2>2. session'[t] = p /\ References(p) /\ Existing(delivery)' = Existing(delivery)
    BY <1>1, <2>1 DEF ServingInv, Referenced, Existing
  <2>3. References(p)'
    BY <1>1, <1>3, <2>2 DEF References
  <2> QED
    BY <2>2, <2>3
<1>5. ASSUME NEW t \in Session, session[t] # None, session[t].kind = "finalize"
      PROVE  session[t].id \in Inspection \ {i}
  BY <1>3, <1>5 DEF ServingInv, Referenced, References
<1>6. Loaded'
  BY <1>1, <1>3, <1>5 DEF ServingInv, Loaded
<1>7. ASSUME NEW j \in Existing(inspection)' PROVE Judged(j)'
  <2>1. CASE j = i
    BY <1>1, <1>2, <1>3, <1>5, <2>1 DEF Judged, Verdict
  <2>2. CASE j # i
    <3>1. inspection'[j] = inspection[j] /\ Judged(j)
      BY <1>3, <1>7, <2>2 DEF ServingInv
    <3> QED
      BY <1>1, <3>1 DEF Judged
  <2> QED
    BY <2>1, <2>2
<1>8. ASSUME NEW j \in Inspection, Cleared(j) PROVE Cleared(j)'
  BY <1>1, <1>3, <1>8 DEF Cleared
<1>9. AllCleared'
  <2>1. ASSUME NEW d \in Existing(delivery), NEW j \in delivery[d].cleared PROVE Cleared(j)'
    BY <1>8, <2>1 DEF ServingInv, AllCleared, ServingTypeOK, Existing, DeliveryRow
  <2>2. ASSUME NEW t \in Session, session[t] # None, session[t].kind = "release",
               NEW j \in session[t].cleared
        PROVE  Cleared(j)'
    <3>1. j \in Inspection /\ Cleared(j)
      BY <2>2, Held DEF ServingInv, AllCleared
    <3> QED
      BY <1>8, <3>1
  <2> QED
    BY <1>1, <2>1, <2>2 DEF AllCleared, Existing
<1> QED
  BY <1>4, <1>6, <1>7, <1>9 DEF ServingInv

\* Unless it comes late, the line is there before any finalisation.
LEMMA CommitLineKeeps ==
    ASSUME ServingInv, ServingTypeOK', NEW s \in Session, CommitLine(s)
    PROVE  ServingInv'
<1>1. PICK p : p = session[s]
  OBVIOUS
<1>2. PICK i : i = p.id
  OBVIOUS
<1>3. /\ i \in Existing(inspection) /\ i \in Inspection /\ inspection[i] \in InspectionRow
      /\ p.result \in Result /\ p.loaded = "DRAFT"
  BY <1>1, <1>2, Held DEF CommitLine, ServingInv, Referenced, References, Existing, ServingTypeOK
<1> DEFINE late == inspection[i].status # "DRAFT" \/ Finalizing(i)
           row == [inspection[i] EXCEPT !.lines = @ \cup {p.result}, !.late = @ \/ late]
<1>4. inspection' = [inspection EXCEPT ![i] = row] /\ Closes(s) /\ UNCHANGED <<order, delivery>>
  BY <1>1, <1>2, <1>3 DEF CommitLine, ServingInv, ServingTypeOK
<1>5. late \in BOOLEAN
  OBVIOUS
<1>6. ~late => /\ inspection[i].status \notin Verdict
               /\ \A t \in Session : ~(session[t] # None /\ session[t].kind = "finalize" /\ session[t].id = i)
  BY DEF Finalizing, Verdict
<1> HIDE DEF late
<1>7. /\ row \in InspectionRow /\ row.status = inspection[i].status
      /\ row.late = (inspection[i].late \/ late)
  BY <1>3, <1>5 DEF InspectionRow
<1> HIDE DEF row
<1>8. Judged(i)'
  <2>1. inspection'[i] = row
    BY <1>3, <1>4 DEF ServingInv, ServingTypeOK
  <2>2. \A t \in Session : session'[t] # None => session'[t] = session[t]
    BY <1>4 DEF Closes, ServingInv, ServingTypeOK
  <2> QED
    BY <1>6, <1>7, <2>1, <2>2 DEF Judged
<1> QED
  BY <1>3, <1>4, <1>7, <1>8, InspectionWritten

\* The verdict is that of the lines, or a line came late.
LEMMA FinalizeJudges ==
    ASSUME ServingInv, NEW s \in Session, CommitFinalize(s)
    PROVE  LET i == session[s].id IN
           /\ i \in Existing(inspection) /\ i \in Inspection /\ inspection[i] \in InspectionRow
           /\ \E status \in Verdict :
                 /\ inspection' = [inspection EXCEPT ![i] = [inspection[i] EXCEPT !.status = status]]
                 /\ ~inspection[i].late => status = VerdictOf(inspection[i].lines)
<1>1. PICK p : p = session[s]
  OBVIOUS
<1>2. PICK i : i = p.id
  OBVIOUS
<1>3. /\ i \in Existing(inspection) /\ i \in Inspection /\ inspection[i] \in InspectionRow
      /\ p.verdict \in Verdict
      /\ p.loaded \in Verdict => inspection[i].status \in Verdict
  BY <1>1, <1>2, Held DEF CommitFinalize, ServingInv, Referenced, References, Existing, ServingTypeOK,
                          Loaded
<1>4. ~inspection[i].late =>
         /\ p.verdict = VerdictOf(inspection[i].lines)
         /\ inspection[i].status \in Verdict => inspection[i].status = VerdictOf(inspection[i].lines)
  BY <1>1, <1>2, <1>3 DEF CommitFinalize, ServingInv, Judged
<1> DEFINE status == IF p.verdict # p.loaded THEN p.verdict ELSE inspection[i].status
<1>5. inspection' = [inspection EXCEPT ![i] = [inspection[i] EXCEPT !.status = status]]
  BY <1>1, <1>2, <1>3 DEF CommitFinalize, ServingInv, ServingTypeOK
<1>6. status \in Verdict /\ (~inspection[i].late => status = VerdictOf(inspection[i].lines))
  BY <1>3, <1>4
<1> QED
  BY <1>1, <1>2, <1>3, <1>5, <1>6

LEMMA CommitFinalizeKeeps ==
    ASSUME ServingInv, ServingTypeOK', NEW s \in Session, CommitFinalize(s)
    PROVE  ServingInv'
<1>1. PICK i : i = session[s].id
  OBVIOUS
<1>2. i \in Existing(inspection) /\ i \in Inspection /\ inspection[i] \in InspectionRow
  BY <1>1, FinalizeJudges
<1>3. PICK status \in Verdict :
         /\ inspection' = [inspection EXCEPT ![i] = [inspection[i] EXCEPT !.status = status]]
         /\ ~inspection[i].late => status = VerdictOf(inspection[i].lines)
  BY <1>1, FinalizeJudges
<1> DEFINE row == [inspection[i] EXCEPT !.status = status]
<1>4. /\ row \in InspectionRow /\ row.status = status /\ row.late = inspection[i].late
      /\ row.lines = inspection[i].lines
  BY <1>2, <1>3 DEF InspectionRow, InspectionStatus
<1> HIDE DEF row
<1>5. inspection' = [inspection EXCEPT ![i] = row] /\ Closes(s) /\ UNCHANGED <<order, delivery>>
  BY <1>3 DEF CommitFinalize, row
<1>6. Judged(i)
  BY <1>2 DEF ServingInv
<1>7. inspection[i].status \in Verdict => row.status = inspection[i].status \/ row.late
  BY <1>3, <1>4, <1>6 DEF Judged
<1>8. Judged(i)'
  <2>1. inspection'[i] = row
    BY <1>2, <1>5 DEF ServingInv, ServingTypeOK
  <2>2. \A t \in Session : session'[t] # None => session'[t] = session[t]
    BY <1>5 DEF Closes, ServingInv, ServingTypeOK
  <2> QED
    BY <1>3, <1>4, <1>6, <2>1, <2>2 DEF Judged
<1> QED
  BY <1>2, <1>3, <1>4, <1>5, <1>7, <1>8, InspectionWritten
-----------------------------------------------------------------------------
LEMMA InvStep == ServingInv /\ [Next]_vars => ServingInv'
<1> SUFFICES ASSUME ServingInv, [Next]_vars PROVE ServingInv'
  OBVIOUS
<1>0. ServingTypeOK'
  BY TypesStep DEF ServingInv
<1> USE <1>0
<1>1. ASSUME UNCHANGED <<inspection, delivery, session>>,
             \A o \in Order : order[o] # None => order'[o] # None
      PROVE  ServingInv'
  BY <1>1, InspectionsAlone DEF ServingInv, AllCleared, Existing
<1>2. ASSUME NEW o \in Order, NEW completion \in Completion, CompleteOrder(o, completion)
      PROVE  ServingInv'
  BY <1>1, <1>2 DEF CompleteOrder, ServingInv, ServingTypeOK
<1>3. ASSUME NEW d \in Existing(delivery), NEW stop \in Route \cup {None}, RecordIncident(d, stop)
      PROVE  ServingInv'
  BY <1>1, <1>3 DEF RecordIncident
<1>4. ASSUME NEW s \in Session, NEW i \in Inspection, NEW result \in Result, BeginLine(s, i, result)
      PROVE  ServingInv'
  BY <1>4, RequestOpens DEF BeginLine, References, Existing, ServingInv, ServingTypeOK
<1>5. ASSUME NEW s \in Session, NEW i \in Inspection, BeginFinalize(s, i) PROVE ServingInv'
  BY <1>5, RequestOpens DEF BeginFinalize, References, Existing, ServingInv, ServingTypeOK, VerdictOf
<1>6. ASSUME NEW s \in Session, NEW o \in Order, BeginRelease(s, o) PROVE ServingInv'
  <2>1. \A i \in Mandatory(o) : Cleared(i)
    BY <1>6 DEF BeginRelease, ReleaseAllowed, Mandatory, Existing, Cleared
  <2> QED
    BY <1>6, <2>1, RequestOpens DEF BeginRelease, References
<1>7. ASSUME NEW s \in Session, NEW stops \in SUBSET Existing(delivery), BeginPlan(s, stops)
      PROVE  ServingInv'
  BY <1>7, RequestOpens DEF BeginPlan, References
<1>8. ASSUME NEW s \in Session, NEW d \in Delivery, NEW received \in Portions, NEW rejected \in Portions,
             NEW stop \in Route \cup {None}, BeginProof(s, d, received, rejected, stop)
      PROVE  ServingInv'
  BY <1>8, RequestOpens DEF BeginProof, References, Existing, ServingInv, ServingTypeOK
<1>9. ASSUME NEW s \in Session, NEW d \in Delivery, CommitRelease(s, d) PROVE ServingInv'
  <2>1. PICK p : p = session[s]
    OBVIOUS
  <2>2. \A i \in p.cleared : Cleared(i)
    BY <1>9, <2>1 DEF CommitRelease, ServingInv, AllCleared
  <2> DEFINE row == [of |-> p.id, shipped |-> order[p.id], received |-> None, rejected |-> None,
                     status |-> "IN_TRANSIT", route |-> None, cleared |-> p.cleared]
  <2>3. delivery' = [delivery EXCEPT ![d] = row] /\ row.cleared = p.cleared
    BY <1>9, <2>1 DEF CommitRelease
  <2> HIDE DEF row
  <2>4. \A e \in Existing(delivery)' :
           \/ delivery'[e].cleared = p.cleared
           \/ e \in Existing(delivery) /\ delivery'[e] = delivery[e]
    BY <2>3 DEF ServingInv, ServingTypeOK, Existing
  <2>5. Existing(delivery) \subseteq Existing(delivery)'
    BY <1>9, <2>3 DEF CommitRelease, ServingInv, ServingTypeOK, Existing
  <2> QED
    BY <1>9, <2>2, <2>4, <2>5, InspectionsAlone DEF CommitRelease, Closes, ServingInv, ServingTypeOK, AllCleared
<1>10. ASSUME NEW s \in Session, Closes(s), UNCHANGED <<order, inspection>>,
              Existing(delivery)' = Existing(delivery),
              \A d \in Existing(delivery) : delivery'[d].cleared = delivery[d].cleared
       PROVE  ServingInv'
  <2>1. \A d \in Existing(delivery)' : \A i \in delivery'[d].cleared : Cleared(i)
    BY <1>10 DEF ServingInv, AllCleared
  <2>2. \A t \in Session : session'[t] \in {session[t], None}
    BY <1>10 DEF Closes, ServingInv, ServingTypeOK
  <2> QED
    BY <1>10, <2>1, <2>2, InspectionsAlone
<1>11. ASSUME NEW s \in Session, NEW r \in Route, CommitPlan(s, r) PROVE ServingInv'
  <2>1. /\ Existing(delivery)' = Existing(delivery)
        /\ \A d \in Existing(delivery) : delivery'[d].cleared = delivery[d].cleared
    BY <1>11, PlanWrites DEF ServingInv
  <2> QED
    BY <1>10, <1>11, <2>1 DEF CommitPlan
<1>12. ASSUME NEW s \in Session, CommitProof(s) PROVE ServingInv'
  <2>1. /\ Existing(delivery)' = Existing(delivery)
        /\ \A d \in Existing(delivery) : delivery'[d].cleared = delivery[d].cleared
    BY <1>12, ProofWrites DEF ServingInv
  <2> QED
    BY <1>10, <1>12, <2>1 DEF CommitProof
<1>13. ASSUME NEW s \in Session, Disconnect(s) PROVE ServingInv'
  BY <1>10, <1>13 DEF Disconnect, Existing
<1>14. CASE UNCHANGED vars
  BY <1>1, <1>14 DEF vars
<1> QED
  BY <1>2, <1>3, <1>4, <1>5, <1>6, <1>7, <1>8, <1>9, <1>11, <1>12, <1>13, <1>14,
     CreateInspectionKeeps, CommitLineKeeps, CommitFinalizeKeeps DEF Next

LEMMA Invariance == Spec => []ServingInv
<1> QED
  BY InitEstablishes, InvStep, PTL DEF Spec

(***************************************************************************)
(* Rows and requests keep their types: no request is left without its row, *)
(* no inspection takes a line it was not open for.                         *)
(***************************************************************************)
THEOREM ServingTypes == Spec => []ServingTypeOK
<1>1. ServingInv => ServingTypeOK
  BY DEF ServingInv
<1> QED
  BY <1>1, Invariance, PTL

(***************************************************************************)
(* Whatever leaves the kitchen was cleared by inspections that are PASSED  *)
(* for good, those with a late line excepted.                              *)
(***************************************************************************)
THEOREM CleanReleases == Spec => []ClearanceStands
<1>1. ServingInv => ClearanceStands
  BY DEF ServingInv, AllCleared, Cleared, ClearanceStands
<1> QED
  BY <1>1, Invariance, PTL

(***************************************************************************)
(* Finalising again gives the same verdict, unless a line came late: the   *)
(* only thing a second finalisation can see that the first did not.        *)
(***************************************************************************)
THEOREM VerdictsStay == Spec => VerdictStands
<1> DEFINE Stands(i) ==
      inspection[i] # None /\ inspection[i].status \in Verdict
          => inspection'[i].status = inspection[i].status \/ inspection[i].late
<1>1. ServingInv /\ [Next]_vars => [\A i \in Inspection : Stands(i)]_vars
  <2> SUFFICES ASSUME ServingInv, [Next]_vars, NEW i \in Inspection,
                      inspection[i] # None, inspection[i].status \in Verdict,
                      ~inspection[i].late
               PROVE  inspection'[i].status = inspection[i].status
    OBVIOUS
  <2>1. inspection[i] \in InspectionRow /\ inspection[i].status = VerdictOf(inspection[i].lines)
    BY DEF ServingInv, ServingTypeOK, Existing, Judged
  <2>2. ASSUME NEW s \in Session, CommitFinalize(s)
        PROVE  inspection'[i].status = inspection[i].status
    <3>1. PICK j : j = session[s].id
      OBVIOUS
    <3>2. CASE j = i
      BY <2>1, <2>2, <3>1, <3>2, FinalizeJudges DEF ServingInv, ServingTypeOK, InspectionRow
    <3>3. CASE j # i
      BY <2>2, <3>1, <3>3 DEF CommitFinalize, ServingInv, ServingTypeOK
    <3> QED
      BY <3>2, <3>3
  <2>3. ASSUME NEW s \in Session, CommitLine(s)
        PROVE  inspection'[i].status = inspection[i].status
    BY <2>1, <2>3 DEF CommitLine, ServingInv, ServingTypeOK, InspectionRow
  <2>4. ASSUME NEW j \in Inspection, NEW o \in Order, NEW mandatory \in BOOLEAN,
               CreateInspection(j, o, mandatory)
        PROVE  inspection'[i].status = inspection[i].status
    BY <2>4 DEF CreateInspection, ServingInv, ServingTypeOK
  <2>5. CASE UNCHANGED inspection
    BY <2>5
  <2> QED
    BY <2>2, <2>3, <2>4, <2>5 DEF Next, vars, CompleteOrder, RecordIncident, BeginLine, BeginFinalize,
       BeginRelease, BeginPlan, BeginProof, CommitRelease, CommitPlan, CommitProof, Disconnect
<1> QED
  BY <1>1, Invariance, PTL DEF Spec, VerdictStands
-----------------------------------------------------------------------------
\* The arrivals: what proofs and routes of any number of sessions do to the
\* portions a delivery shows.

ProofsOf(d) == {n \in Proofs : proof[n].of = d}

\* Proofs take their places one after the other, no place twice.
InOrder == \E k \in 0 .. MaxProofs : Proofs = 1 .. k

\* What was read was there, and is there still.
Remembered ==
    /\ \A n \in Proofs : proof[n].before \subseteq Proofs /\ proof[n].of \in Existing(delivery)
    /\ \A r \in Existing(route) : route[r].after \subseteq Proofs

\* A delivery is on its way as released before its first proof only; after
\* that, only a route sets it back.
Arrivals(d) ==
    /\ delivery[d].status = "IN_TRANSIT" => ProofsOf(d) = {}
    /\ delivery[d].status \in Active /\ ProofsOf(d) # {} => ReopenedByRoute(d)
    /\ delivery[d].received # None \/ delivery[d].rejected # None => ProofsOf(d) # {}

\* A proof still to be committed knows those of its delivery, or the delivery
\* may show other portions by now than it loaded.
ProofFits(p, loaded) ==
    /\ p.before \subseteq Proofs
    /\ ProofsOf(p.of) \cap p.before # {} => ReopenedByRoute(p.of)
    /\ loaded.received # None \/ loaded.rejected # None => ProofsOf(p.of) \cap p.before # {}
    /\ ProofsOf(p.of) \subseteq p.before =>
          delivery[p.of].received = loaded.received /\ delivery[p.of].rejected = loaded.rejected

\* A route still to be committed sets back deliveries that had no proof.
Fits(p) ==
    /\ p.kind = "plan" =>
          /\ p.loading \subseteq p.stops /\ p.before \subseteq Proofs
          /\ \A d \in p.loading : ProofsOf(d) \cap p.before = {}
    /\ p.kind = "proof" => ProofFits(p.proof, p.loaded)

\* A proof that knew another of the same delivery: a route came between.
Reopened ==
    \A n, m \in Proofs :
        n \in proof[m].before /\ proof[n].of = proof[m].of => ReopenedByRoute(proof[n].of)

\* PortionsOfOneProof, of one delivery.
OfOneProof(d) ==
    delivery[d].received # None =>
        \/ \E n \in Proofs :
              /\ proof[n].of = d
              /\ proof[n].received = delivery[d].received
              /\ proof[n].rejected = delivery[d].rejected
        \/ /\ ReopenedByRoute(d)
           /\ \E n, m \in Proofs : n # m /\ proof[n].of = d /\ proof[m].of = d /\ Overlap(n, m)

ArrivalInv ==
    /\ InOrder
    /\ Remembered
    /\ \A d \in Existing(delivery) : Arrivals(d) /\ OfOneProof(d)
    /\ \A s \in Session : session[s] # None => Fits(session[s])
    /\ Reopened
-----------------------------------------------------------------------------
\* Proofs and routes are only added, and so what a route reopened stays reopened.
Adds ==
    /\ \A n \in Proofs : n \in Proofs' /\ proof'[n] = proof[n]
    /\ \A r \in Existing(route) :
          /\ r \in Existing(route)' /\ route'[r].stops = route[r].stops
          /\ route'[r].before = route[r].before /\ route'[r].after = route[r].after

LEMMA StaysReopened ==
    ASSUME Remembered, Adds, NEW d, ReopenedByRoute(d)
    PROVE  ReopenedByRoute(d)'
<1>1. PICK r \in Existing(route) :
         d \in route[r].stops /\ \E n \in route[r].after \ route[r].before : proof[n].of = d
  BY DEF ReopenedByRoute
<1>2. PICK n \in route[r].after \ route[r].before : proof[n].of = d
  BY <1>1
<1>3. n \in Proofs
  BY DEF Remembered
<1>4. /\ r \in Existing(route)' /\ d \in route'[r].stops
      /\ n \in route'[r].after \ route'[r].before /\ proof'[n].of = d
  BY <1>1, <1>2, <1>3 DEF Adds
<1> QED
  BY <1>4 DEF ReopenedByRoute

LEMMA AddsNothing == UNCHANGED <<proof, route>> => Adds
BY DEF Adds, Proofs, Existing

\* Neither a proof nor a route nor a delivery is written.
LEMMA ArrivalsAlone ==
    ASSUME ArrivalInv, UNCHANGED <<proof, route, delivery>>,
           \A t \in Session : \A p : session'[t] = p /\ p # None => Fits(p)
    PROVE  ArrivalInv'
<1>1. /\ Proofs' = Proofs /\ Existing(delivery)' = Existing(delivery)
      /\ Existing(route)' = Existing(route)
      /\ \A d : ProofsOf(d)' = ProofsOf(d) /\ (ReopenedByRoute(d)' <=> ReopenedByRoute(d))
      /\ \A n, m : Overlap(n, m)' <=> Overlap(n, m)
  BY DEF Proofs, Existing, ProofsOf, ReopenedByRoute, Overlap
<1>2. InOrder' /\ Remembered' /\ Reopened'
  BY <1>1 DEF ArrivalInv, InOrder, Remembered, Reopened
<1>3. ASSUME NEW d \in Existing(delivery) PROVE Arrivals(d)' /\ OfOneProof(d)'
  <2>1. Arrivals(d)'
    BY <1>1 DEF ArrivalInv, Arrivals
  <2>2. OfOneProof(d)'
    BY <1>1 DEF ArrivalInv, OfOneProof
  <2> QED
    BY <2>1, <2>2
<1>4. ASSUME NEW t \in Session, session'[t] # None PROVE Fits(session[t])'
  <2>1. PICK p : p = session'[t]
    OBVIOUS
  <2>2. Fits(p)
    BY <1>4, <2>1
  <2>3. Fits(p)'
    BY <1>1, <2>2 DEF Fits, ProofFits
  <2> QED
    BY <2>1, <2>3
<1> QED
  BY <1>1, <1>2, <1>3, <1>4 DEF ArrivalInv

\* A released delivery has no proof.
LEMMA ReleaseArrives ==
    ASSUME ServingInv, ArrivalInv, NEW s \in Session, NEW d \in Delivery, CommitRelease(s, d)
    PROVE  ArrivalInv'
<1> DEFINE row == [of |-> session[s].id, shipped |-> order[session[s].id], received |-> None,
                   rejected |-> None, status |-> "IN_TRANSIT", route |-> None,
                   cleared |-> session[s].cleared]
<1>1. delivery' = [delivery EXCEPT ![d] = row] /\ Closes(s) /\ UNCHANGED <<proof, route>>
  BY DEF CommitRelease
<1>2. row.received = None /\ row.rejected = None /\ row.status = "IN_TRANSIT"
  OBVIOUS
<1> HIDE DEF row
<1>3. /\ d \notin Existing(delivery) /\ delivery'[d] = row
      /\ \A e \in Existing(delivery) : e \in Delivery /\ delivery'[e] = delivery[e]
      /\ Existing(delivery) \subseteq Existing(delivery)'
      /\ Existing(delivery)' \subseteq Existing(delivery) \cup {d}
  BY <1>1 DEF CommitRelease, ServingInv, ServingTypeOK, Existing
<1>4. /\ Proofs' = Proofs /\ Existing(route)' = Existing(route)
      /\ \A e : ProofsOf(e)' = ProofsOf(e) /\ (ReopenedByRoute(e)' <=> ReopenedByRoute(e))
      /\ \A n, m : Overlap(n, m)' <=> Overlap(n, m)
  BY <1>1 DEF Proofs, Existing, ProofsOf, ReopenedByRoute, Overlap
<1>5. InOrder' /\ Remembered' /\ Reopened'
  BY <1>1, <1>3, <1>4 DEF ArrivalInv, InOrder, Remembered, Reopened
<1>6. ASSUME NEW e \in Existing(delivery)' PROVE Arrivals(e)' /\ OfOneProof(e)'
  <2>1. CASE e = d
    <3>1. ProofsOf(d) = {}
      BY <1>3 DEF ArrivalInv, Remembered, ProofsOf
    <3> QED
      BY <1>2, <1>3, <1>4, <2>1, <3>1 DEF Arrivals, OfOneProof
  <2>2. CASE e # d
    <3>1. e \in Existing(delivery) /\ delivery'[e] = delivery[e]
      BY <1>3, <1>6, <2>2
    <3>2. Arrivals(e)'
      BY <1>4, <3>1 DEF ArrivalInv, Arrivals
    <3>3. OfOneProof(e)'
      BY <1>1, <1>4, <3>1 DEF ArrivalInv, OfOneProof
    <3> QED
      BY <3>2, <3>3
  <2> QED
    BY <2>1, <2>2
<1>7. ASSUME NEW t \in Session, session'[t] # None PROVE Fits(session[t])'
  <2>1. PICK p : p = session[t]
    OBVIOUS
  <2>2. session'[t] = p /\ Fits(p) /\ References(p)
    BY <1>1, <1>7, <2>1 DEF Closes, ArrivalInv, ServingInv, ServingTypeOK, Referenced
  <2>3. p.kind = "proof" => p.proof.of \in Existing(delivery)
    BY <2>2 DEF References
  <2>4. Fits(p)'
    BY <1>3, <1>4, <2>2, <2>3 DEF Fits, ProofFits
  <2> QED
    BY <2>2, <2>4
<1> QED
  BY <1>5, <1>6, <1>7 DEF ArrivalInv
-----------------------------------------------------------------------------
\* What a route writes: itself, and the status of the deliveries to load.
LEMMA PlanSetsBack ==
    ASSUME ServingInv, NEW s \in Session, NEW r \in Route, CommitPlan(s, r),
           NEW d \in Existing(delivery)
    PROVE  /\ d \in Existing(delivery)'
           /\ delivery'[d].received = delivery[d].received
           /\ delivery'[d].rejected = delivery[d].rejected
           /\ \/ delivery'[d].status = delivery[d].status
              \/ /\ d \in session[s].loading /\ d \in session[s].stops
                 /\ delivery'[d].status = "LOADING"
<1>1. PICK p : p = session[s]
  OBVIOUS
<1>2. Existing(delivery)' = Existing(delivery)
  BY PlanWrites DEF ServingInv
<1>3. d \in Delivery /\ delivery[d] \in DeliveryRow
  BY DEF ServingInv, ServingTypeOK, Existing
<1>4. delivery'[d] = IF d \in p.stops
                     THEN [delivery[d] EXCEPT !.route = r,
                              !.status = IF d \in p.loading THEN "LOADING" ELSE @]
                     ELSE delivery[d]
  BY <1>1, <1>3 DEF CommitPlan
<1>5. CASE d \in p.stops
  BY <1>1, <1>2, <1>3, <1>4, <1>5 DEF DeliveryRow
<1>6. CASE d \notin p.stops
  BY <1>2, <1>4, <1>6
<1> QED
  BY <1>5, <1>6

LEMMA PlanArrives ==
    ASSUME ServingInv, ArrivalInv, NEW s \in Session, NEW r \in Route, CommitPlan(s, r)
    PROVE  ArrivalInv'
<1>1. PICK p : p = session[s]
  OBVIOUS
<1>2. /\ p.loading \subseteq p.stops /\ p.before \subseteq Proofs
      /\ \A d \in p.loading : ProofsOf(d) \cap p.before = {}
  BY <1>1 DEF CommitPlan, ArrivalInv, Fits
<1> DEFINE row == [status |-> "PLANNED", stops |-> p.stops, marked |-> {}, before |-> p.before,
                   after |-> Proofs]
<1>3. route' = [route EXCEPT ![r] = row] /\ row # None /\ UNCHANGED proof
  <2>1. p.stops \in SUBSET Delivery /\ p.before \in SUBSET ProofId
    BY <1>1, Held DEF CommitPlan, ServingInv
  <2>2. row \in RouteRow
    BY <2>1, ProofsAreIds DEF RouteRow, ServingInv
  <2>3. row # None
    BY <2>2, NoneIsNoRow
  <2> QED
    BY <1>1, <2>3 DEF CommitPlan
<1>4. row.stops = p.stops /\ row.before = p.before /\ row.after = Proofs
  OBVIOUS
<1> HIDE DEF row
<1>5. /\ r \in Existing(route)' /\ route'[r] = row /\ r \notin Existing(route)
      /\ \A q \in Existing(route) : q \in Existing(route)' /\ route'[q] = route[q]
      /\ \A q \in Existing(route)' : q = r \/ q \in Existing(route)
  BY <1>3 DEF CommitPlan, ServingInv, ServingTypeOK, Existing
<1>6. /\ Proofs' = Proofs
      /\ \A d : ProofsOf(d)' = ProofsOf(d)
      /\ \A n, m : Overlap(n, m)' <=> Overlap(n, m)
  BY <1>3 DEF Proofs, Existing, ProofsOf, Overlap
<1>7. \A d : ReopenedByRoute(d) => ReopenedByRoute(d)'
  <2>1. Adds
    BY <1>3, <1>5, <1>6 DEF Adds
  <2> QED
    BY <2>1, StaysReopened DEF ArrivalInv
<1>8. Existing(delivery)' = Existing(delivery)
  BY PlanWrites DEF ServingInv
<1>9. InOrder' /\ Remembered' /\ Reopened'
  <2>1. InOrder' /\ Reopened'
    BY <1>3, <1>6, <1>7 DEF ArrivalInv, InOrder, Reopened
  <2>2. Remembered'
    BY <1>3, <1>4, <1>5, <1>6, <1>8 DEF ArrivalInv, Remembered
  <2> QED
    BY <2>1, <2>2
<1>10. ASSUME NEW d \in Existing(delivery) PROVE Arrivals(d)' /\ OfOneProof(d)'
  <2>1. /\ delivery'[d].received = delivery[d].received
        /\ delivery'[d].rejected = delivery[d].rejected
        /\ \/ delivery'[d].status = delivery[d].status
           \/ d \in p.loading /\ d \in p.stops /\ delivery'[d].status = "LOADING"
    BY <1>1, PlanSetsBack
  <2>2. Arrivals(d) /\ OfOneProof(d)
    BY DEF ArrivalInv
  <2>3. Arrivals(d)'
    <3>1. CASE delivery'[d].status = delivery[d].status
      BY <1>6, <1>7, <2>1, <2>2, <3>1 DEF Arrivals
    <3>2. CASE d \in p.loading /\ d \in p.stops /\ delivery'[d].status = "LOADING"
      <4>1. ASSUME NEW n \in ProofsOf(d) PROVE ReopenedByRoute(d)'
        <5>1. n \in Proofs /\ proof'[n].of = d /\ n \notin p.before
          BY <1>2, <1>3, <3>2, <4>1 DEF ProofsOf
        <5> QED
          BY <1>4, <1>5, <3>2, <5>1 DEF ReopenedByRoute
      <4> QED
        BY <1>6, <2>1, <2>2, <3>2, <4>1 DEF Arrivals
    <3> QED
      BY <2>1, <3>1, <3>2
  <2>4. OfOneProof(d)'
    BY <1>3, <1>6, <1>7, <2>1, <2>2 DEF OfOneProof
  <2> QED
    BY <2>3, <2>4
<1>11. ASSUME NEW t \in Session, session'[t] # None PROVE Fits(session[t])'
  <2>1. PICK q : q = session[t]
    OBVIOUS
  <2>2. session'[t] = q /\ Fits(q) /\ References(q)
    BY <1>11, <2>1 DEF CommitPlan, Closes, ArrivalInv, ServingInv, ServingTypeOK, Referenced
  <2>3. q.kind = "proof" =>
           /\ delivery'[q.proof.of].received = delivery[q.proof.of].received
           /\ delivery'[q.proof.of].rejected = delivery[q.proof.of].rejected
    BY <2>2, PlanSetsBack DEF References
  <2>4. Fits(q)'
    BY <1>6, <1>7, <2>2, <2>3 DEF Fits, ProofFits
  <2> QED
    BY <2>2, <2>4
<1> QED
  BY <1>8, <1>9, <1>10, <1>11 DEF ArrivalInv
-----------------------------------------------------------------------------
\* The place of the next proof.
LEMMA NextPlace ==
    ASSUME InOrder
    PROVE  /\ Cardinality(Proofs) \in Nat /\ Proofs = 1 .. Cardinality(Proofs)
           /\ Cardinality(Proofs) + 1 \notin Proofs
<1>1. PICK k \in 0 .. MaxProofs : Proofs = 1 .. k
  BY DEF InOrder
<1>2. Cardinality(1 .. k) = k
  BY FS_Interval
<1> QED
  BY <1>1, <1>2

\* What a proof writes: itself, the delivery, and on routes what no proof reads.
LEMMA ProofRecords ==
    ASSUME ServingInv, ArrivalInv, NEW s \in Session, CommitProof(s)
    PROVE  \E n \in ProofId \ Proofs :
              /\ Proofs' = Proofs \cup {n} /\ proof'[n] = session[s].proof
              /\ \A m \in Proofs : proof'[m] = proof[m]
              /\ InOrder'
<1>1. PICK p : p = session[s].proof
  OBVIOUS
<1>2. p # None
  BY <1>1, Held, NoneIsNoRow DEF CommitProof, ServingInv
<1>3. PICK k : k = Cardinality(Proofs)
  OBVIOUS
<1>4. k \in Nat /\ Proofs = 1 .. k /\ k + 1 \notin Proofs
  BY <1>3, NextPlace DEF ArrivalInv
<1>5. k < MaxProofs /\ proof' = [proof EXCEPT ![k + 1] = p]
  BY <1>1, <1>3 DEF CommitProof
<1>6. k + 1 \in ProofId
  BY <1>4, <1>5, ServingBounds DEF ProofId
<1>7. Proofs' = Proofs \cup {k + 1}
  BY <1>2, <1>5, <1>6 DEF Proofs, Existing, ServingInv, ServingTypeOK
<1>8. proof'[k + 1] = p /\ \A m \in Proofs : proof'[m] = proof[m]
  BY <1>4, <1>5, <1>6 DEF ServingInv, ServingTypeOK
<1>9. InOrder'
  <2>1. Proofs' = 1 .. k + 1
    BY <1>4, <1>7
  <2>2. k + 1 \in 0 .. MaxProofs
    BY <1>4, <1>5, ServingBounds
  <2> QED
    BY <2>1, <2>2 DEF InOrder
<1> QED
  BY <1>1, <1>4, <1>6, <1>7, <1>8, <1>9

LEMMA ProofKeepsRoutes ==
    ASSUME ServingInv, NEW s \in Session, CommitProof(s)
    PROVE  /\ Existing(route)' = Existing(route)
           /\ \A r \in Existing(route) :
                 /\ route'[r].stops = route[r].stops /\ route'[r].before = route[r].before
                 /\ route'[r].after = route[r].after
<1>1. DOMAIN route' = Route /\ DOMAIN route = Route
  BY DEF CommitProof, ServingInv, ServingTypeOK
<1>2. ASSUME NEW r \in Route, route[r] = None PROVE route'[r] = None
  BY <1>2 DEF CommitProof
<1>3. ASSUME NEW r \in Route, route[r] # None
      PROVE  /\ route'[r] # None
             /\ route'[r].stops = route[r].stops /\ route'[r].before = route[r].before
             /\ route'[r].after = route[r].after
  BY <1>3, ProofMarks, NoneIsNoRow DEF ServingInv
<1> QED
  BY <1>1, <1>2, <1>3 DEF Existing

\* What it writes on the delivery.
LEMMA ProofReceives ==
    ASSUME ServingInv, NEW s \in Session, CommitProof(s)
    PROVE  LET p == session[s].proof
               loaded == session[s].loaded
           IN
           /\ p \in ProofRow /\ loaded \in DeliveryRow /\ p.of \in Existing(delivery)
           /\ Existing(delivery)' = Existing(delivery)
           /\ delivery'[p.of].status \in Final
           /\ delivery'[p.of].received = Written(loaded.received, p.received, delivery[p.of].received)
           /\ delivery'[p.of].rejected = Written(loaded.rejected, p.rejected, delivery[p.of].rejected)
           /\ \A d \in Existing(delivery) \ {p.of} : delivery'[d] = delivery[d]
<1>1. PICK p : p = session[s].proof
  OBVIOUS
<1>2. PICK loaded : loaded = session[s].loaded
  OBVIOUS
<1>3. /\ p \in ProofRow /\ loaded \in DeliveryRow /\ p.of \in Existing(delivery) /\ p.of \in Delivery
      /\ delivery[p.of] \in DeliveryRow
  BY <1>1, <1>2, Held DEF CommitProof, ServingInv, Referenced, References, Existing, ServingTypeOK,
                          ProofRow
<1>4. PICK status : status = StatusOf(p.received, p.rejected, ShippedOf(loaded))
  OBVIOUS
<1>5. status \in Final
  BY <1>4 DEF StatusOf, Final
<1>6. PICK received, rejected :
         /\ received = Written(loaded.received, p.received, delivery[p.of].received)
         /\ rejected = Written(loaded.rejected, p.rejected, delivery[p.of].rejected)
  OBVIOUS
<1>7. delivery' = [delivery EXCEPT ![p.of].received = received, ![p.of].rejected = rejected,
                                   ![p.of].status = status]
  BY <1>1, <1>2, <1>4, <1>6 DEF CommitProof
<1> DEFINE row == [delivery[p.of] EXCEPT !.received = received, !.rejected = rejected, !.status = status]
<1>8. row.received = received /\ row.rejected = rejected /\ row.status = status
  BY <1>3 DEF DeliveryRow
<1>9. delivery' = [delivery EXCEPT ![p.of] = row]
  BY <1>3, <1>7 DEF ServingInv, ServingTypeOK
<1> HIDE DEF row
<1>10. delivery'[p.of] = row /\ \A d \in Existing(delivery) \ {p.of} : delivery'[d] = delivery[d]
  BY <1>3, <1>9 DEF ServingInv, ServingTypeOK, Existing
<1>11. Existing(delivery)' = Existing(delivery)
  BY ProofWrites DEF ServingInv
<1> QED
  BY <1>1, <1>2, <1>3, <1>5, <1>6, <1>8, <1>10, <1>11

\* The portions are those of the proof, unless another proof overlapped it.
LEMMA PortionsWritten ==
    ASSUME NEW p \in ProofRow, NEW loaded \in DeliveryRow, NEW received, NEW rejected
    PROVE  LET newReceived == Written(loaded.received, p.received, received)
               newRejected == Written(loaded.rejected, p.rejected, rejected)
           IN
           \/ newReceived = p.received /\ newRejected = p.rejected
           \/ /\ loaded.received # None \/ loaded.rejected # None
              /\ received # loaded.received \/ rejected # loaded.rejected
BY NoneIsNoRow DEF Written, ProofRow, DeliveryRow

LEMMA ProofArrives ==
    ASSUME ServingInv, ArrivalInv, NEW s \in Session, CommitProof(s)
    PROVE  ArrivalInv'
<1>1. PICK p : p = session[s].proof
  OBVIOUS
<1>2. PICK loaded : loaded = session[s].loaded
  OBVIOUS
<1>3. /\ p \in ProofRow /\ loaded \in DeliveryRow /\ p.of \in Existing(delivery)
      /\ ProofFits(p, loaded)
  BY <1>1, <1>2, ProofReceives DEF CommitProof, ArrivalInv, Fits
<1>4. PICK k \in ProofId \ Proofs :
         /\ Proofs' = Proofs \cup {k} /\ proof'[k] = p
         /\ \A m \in Proofs : proof'[m] = proof[m]
         /\ InOrder'
  BY <1>1, ProofRecords
<1>5. /\ Existing(route)' = Existing(route)
      /\ \A r \in Existing(route) :
            /\ route'[r].stops = route[r].stops /\ route'[r].before = route[r].before
            /\ route'[r].after = route[r].after
  BY ProofKeepsRoutes
<1>6. /\ Existing(delivery)' = Existing(delivery)
      /\ \A d \in Existing(delivery) \ {p.of} : delivery'[d] = delivery[d]
  BY <1>1, ProofReceives
<1>7. \A d : ReopenedByRoute(d) => ReopenedByRoute(d)'
  <2>1. Adds
    BY <1>4, <1>5 DEF Adds
  <2> QED
    BY <2>1, StaysReopened DEF ArrivalInv
<1>8. /\ ProofsOf(p.of)' = ProofsOf(p.of) \cup {k}
      /\ \A d : d # p.of => ProofsOf(d)' = ProofsOf(d)
  BY <1>4 DEF ProofsOf
<1>9. Remembered'
  <2>1. \A n \in Proofs' : proof'[n].before \subseteq Proofs' /\ proof'[n].of \in Existing(delivery)'
    BY <1>3, <1>4, <1>6 DEF ArrivalInv, Remembered, ProofFits
  <2>2. \A r \in Existing(route)' : route'[r].after \subseteq Proofs'
    BY <1>4, <1>5 DEF ArrivalInv, Remembered
  <2> QED
    BY <2>1, <2>2 DEF Remembered
<1>10. Reopened'
  <2> SUFFICES ASSUME NEW n \in Proofs', NEW m \in Proofs', n \in proof'[m].before,
                      proof'[n].of = proof'[m].of
               PROVE  ReopenedByRoute(proof[n].of)'
    BY DEF Reopened
  <2>1. PICK d : d = proof'[n].of
    OBVIOUS
  <2>2. n \in Proofs
    BY <1>3, <1>4 DEF ArrivalInv, Remembered, ProofFits
  <2>3. CASE m = k
    BY <1>3, <1>4, <1>7, <2>1, <2>2, <2>3 DEF ProofFits, ProofsOf
  <2>4. CASE m \in Proofs
    BY <1>4, <1>7, <2>1, <2>2, <2>4 DEF ArrivalInv, Reopened
  <2> QED
    BY <1>4, <2>3, <2>4
<1>11. ASSUME NEW n \in Proofs, NEW m \in Proofs, Overlap(n, m) PROVE Overlap(n, m)'
  BY <1>4, <1>11 DEF Overlap
<1>12. ASSUME NEW d \in Existing(delivery), d # p.of PROVE Arrivals(d)' /\ OfOneProof(d)'
  <2>1. delivery'[d] = delivery[d] /\ Arrivals(d) /\ OfOneProof(d)
    BY <1>6, <1>12 DEF ArrivalInv
  <2>2. Arrivals(d)'
    BY <1>7, <1>8, <1>12, <2>1 DEF Arrivals
  <2>3. OfOneProof(d)'
    <3>1. CASE delivery[d].received = None
      BY <2>1, <3>1 DEF OfOneProof
    <3>2. CASE \E n \in Proofs : /\ proof[n].of = d
                                 /\ proof[n].received = delivery[d].received
                                 /\ proof[n].rejected = delivery[d].rejected
      BY <1>4, <2>1, <3>2 DEF OfOneProof
    <3>3. CASE /\ ReopenedByRoute(d)
               /\ \E n, m \in Proofs : n # m /\ proof[n].of = d /\ proof[m].of = d /\ Overlap(n, m)
      BY <1>4, <1>7, <1>11, <3>3 DEF OfOneProof
    <3> QED
      BY <2>1, <3>1, <3>2, <3>3 DEF OfOneProof
  <2> QED
    BY <2>2, <2>3
<1>13. Arrivals(p.of)'
  <2>1. delivery'[p.of].status \notin Active /\ k \in ProofsOf(p.of)'
    BY <1>1, <1>8, ProofReceives DEF Final, Active
  <2> QED
    BY <2>1 DEF Arrivals, Active
<1>14. OfOneProof(p.of)'
  <2>1. /\ delivery'[p.of].received = Written(loaded.received, p.received, delivery[p.of].received)
        /\ delivery'[p.of].rejected = Written(loaded.rejected, p.rejected, delivery[p.of].rejected)
    BY <1>1, <1>2, ProofReceives
  <2>2. CASE delivery'[p.of].received = p.received /\ delivery'[p.of].rejected = p.rejected
    BY <1>4, <2>2 DEF OfOneProof
  <2>3. CASE /\ loaded.received # None \/ loaded.rejected # None
             /\ \/ delivery[p.of].received # loaded.received
                \/ delivery[p.of].rejected # loaded.rejected
    <3>1. ReopenedByRoute(p.of)'
      BY <1>3, <1>7, <2>3 DEF ProofFits
    <3>2. PICK n \in ProofsOf(p.of) : n \notin p.before
      BY <1>3, <2>3 DEF ProofFits
    <3>3. n \in Proofs /\ proof[n].of = p.of /\ k \notin proof[n].before
      BY <1>4, <3>2 DEF ProofsOf, ArrivalInv, Remembered
    <3>4. n # k /\ proof'[n].of = p.of /\ proof'[k].of = p.of /\ Overlap(n, k)'
      BY <1>4, <3>2, <3>3 DEF Overlap
    <3> QED
      BY <1>4, <3>1, <3>3, <3>4 DEF OfOneProof
  <2> QED
    BY <1>3, <2>1, <2>2, <2>3, PortionsWritten
<1>15. ASSUME NEW t \in Session, session'[t] # None PROVE Fits(session[t])'
  <2>1. PICK q : q = session[t]
    OBVIOUS
  <2>2. session'[t] = q /\ Fits(q) /\ References(q)
    BY <1>15, <2>1 DEF CommitProof, Closes, ArrivalInv, ServingInv, ServingTypeOK, Referenced
  <2>3. CASE q.kind = "plan"
    <3>1. /\ q.loading \subseteq q.stops /\ q.before \subseteq Proofs
          /\ \A d \in q.loading : ProofsOf(d) \cap q.before = {}
      BY <2>2, <2>3 DEF Fits
    <3>2. \A d : ProofsOf(d)' \subseteq ProofsOf(d) \cup {k}
      BY <1>8
    <3>3. k \notin q.before
      BY <1>4, <3>1
    <3>4. \A d \in q.loading : ProofsOf(d)' \cap q.before = {}
      BY <3>1, <3>2, <3>3
    <3>5. Fits(q)'
      BY <1>4, <2>3, <3>1, <3>4 DEF Fits
    <3> QED
      BY <2>2, <3>5
  <2>4. CASE q.kind = "proof"
    <3>1. PICK other : other = q.proof
      OBVIOUS
    <3>2. PICK held : held = q.loaded
      OBVIOUS
    <3>3. ProofFits(other, held) /\ other.of \in Existing(delivery)
      BY <2>2, <2>4, <3>1, <3>2 DEF Fits, References
    <3>4. k \notin other.before
      BY <1>4, <3>3 DEF ProofFits
    <3>5. ProofsOf(other.of)' \cap other.before = ProofsOf(other.of) \cap other.before
      BY <1>8, <3>4
    <3>6. ProofsOf(other.of)' \subseteq other.before =>
             /\ ProofsOf(other.of) \subseteq other.before
             /\ delivery'[other.of] = delivery[other.of]
      BY <1>6, <1>8, <3>3, <3>4
    <3>7. ProofFits(other, held)'
      BY <1>4, <1>7, <3>3, <3>5, <3>6 DEF ProofFits
    <3> QED
      BY <2>2, <2>4, <3>1, <3>2, <3>7 DEF Fits
  <2>5. CASE q.kind \notin {"plan", "proof"}
    BY <2>2, <2>5 DEF Fits
  <2> QED
    BY <2>3, <2>4, <2>5
<1> QED
  BY <1>4, <1>6, <1>9, <1>10, <1>12, <1>13, <1>14, <1>15 DEF ArrivalInv
-----------------------------------------------------------------------------
LEMMA ArrivalInit == Init => ArrivalInv
<1> SUFFICES ASSUME Init PROVE ArrivalInv
  OBVIOUS
<1>1. /\ Proofs = {} /\ Existing(delivery) = {} /\ Existing(route) = {}
      /\ \A s \in Session : session[s] = None
  BY DEF Init, Proofs, Existing
<1>2. InOrder
  <2>1. 0 \in 0 .. MaxProofs /\ 1 .. 0 = {}
    BY ServingBounds
  <2> QED
    BY <1>1, <2>1 DEF InOrder
<1> QED
  BY <1>1, <1>2 DEF ArrivalInv, Remembered, Reopened

LEMMA ArrivalStep == ServingInv /\ ArrivalInv /\ [Next]_vars => ArrivalInv'
<1> SUFFICES ASSUME ServingInv, ArrivalInv, [Next]_vars PROVE ArrivalInv'
  OBVIOUS
<1>1. ASSUME UNCHANGED <<proof, route, delivery>>,
             \A t \in Session : session'[t] \in {session[t], None}
      PROVE  ArrivalInv'
  BY <1>1, ArrivalsAlone DEF ArrivalInv
<1>2. ASSUME NEW s \in Session, Closes(s) PROVE \A t \in Session : session'[t] \in {session[t], None}
  BY <1>2 DEF Closes, ServingInv, ServingTypeOK
<1>3. ASSUME NEW s \in Session, NEW held, Opens(s, held), Fits(held),
             UNCHANGED <<proof, route, delivery>>
      PROVE  ArrivalInv'
  <2>1. \A t \in Session : session'[t] = held \/ session'[t] = session[t]
    BY <1>3 DEF Opens, ServingInv, ServingTypeOK
  <2> QED
    BY <1>3, <2>1, ArrivalsAlone DEF ArrivalInv
<1>4. ASSUME NEW s \in Session, NEW held, Opens(s, held), held.kind \notin {"plan", "proof"},
             UNCHANGED <<proof, route, delivery>>
      PROVE  ArrivalInv'
  BY <1>3, <1>4 DEF Fits
<1>5. ASSUME NEW s \in Session, NEW i \in Inspection, NEW result \in Result, BeginLine(s, i, result)
      PROVE  ArrivalInv'
  BY <1>4, <1>5 DEF BeginLine
<1>6. ASSUME NEW s \in Session, NEW i \in Inspection, BeginFinalize(s, i) PROVE ArrivalInv'
  BY <1>4, <1>6 DEF BeginFinalize
<1>7. ASSUME NEW s \in Session, NEW o \in Order, BeginRelease(s, o) PROVE ArrivalInv'
  BY <1>4, <1>7 DEF BeginRelease
<1>8. ASSUME NEW s \in Session, NEW stops \in SUBSET Existing(delivery), BeginPlan(s, stops)
      PROVE  ArrivalInv'
  <2> DEFINE loading == {d \in stops : delivery[d].status = "IN_TRANSIT"}
             held == [kind |-> "plan", stops |-> stops, before |-> Proofs, loading |-> loading]
  <2>1. \A d \in loading : ProofsOf(d) = {}
    BY DEF ArrivalInv, Arrivals
  <2>2. Fits(held)
    BY <2>1 DEF Fits
  <2>3. Opens(s, held) /\ UNCHANGED <<proof, route, delivery>>
    BY <1>8 DEF BeginPlan
  <2> QED
    BY <1>3, <2>2, <2>3
<1>9. ASSUME NEW s \in Session, NEW d \in Delivery, NEW received \in Portions, NEW rejected \in Portions,
             NEW stop \in Route \cup {None}, BeginProof(s, d, received, rejected, stop)
      PROVE  ArrivalInv'
  <2> DEFINE row == [of |-> d, received |-> received, rejected |-> rejected,
                     route |-> delivery[d].route, stop |-> stop, before |-> Proofs]
             held == [kind |-> "proof", loaded |-> delivery[d], proof |-> row]
  <2>1. Opens(s, held) /\ UNCHANGED <<proof, route, delivery>>
    BY <1>9 DEF BeginProof
  <2>2. Arrivals(d) /\ delivery[d].status \in Active /\ ProofsOf(d) \cap Proofs = ProofsOf(d)
    BY <1>9 DEF BeginProof, ArrivalInv, ServingInv, ServingTypeOK, Existing, ProofsOf
  <2>3. row.of = d /\ row.before = Proofs
    OBVIOUS
  <2>4. held.kind = "proof" /\ held.proof = row /\ held.loaded = delivery[d]
    OBVIOUS
  <2> HIDE DEF row, held
  <2>5. ProofFits(row, delivery[d])
    BY <2>2, <2>3 DEF ProofFits, Arrivals
  <2>6. Fits(held)
    BY <2>4, <2>5 DEF Fits
  <2> QED
    BY <1>3, <2>1, <2>6
<1>10. ASSUME NEW s \in Session, CommitLine(s) PROVE ArrivalInv'
  BY <1>1, <1>2, <1>10 DEF CommitLine
<1>11. ASSUME NEW s \in Session, CommitFinalize(s) PROVE ArrivalInv'
  BY <1>1, <1>2, <1>11 DEF CommitFinalize
<1>12. ASSUME NEW s \in Session, Disconnect(s) PROVE ArrivalInv'
  BY <1>1, <1>2, <1>12 DEF Disconnect
<1>13. CASE UNCHANGED <<proof, route, delivery, session>>
  BY <1>1, <1>13
<1> QED
  BY <1>5, <1>6, <1>7, <1>8, <1>9, <1>10, <1>11, <1>12, <1>13, ReleaseArrives, PlanArrives, ProofArrives
     DEF Next, CompleteOrder, CreateInspection, RecordIncident, vars

LEMMA ArrivalInvariance == Spec => []ArrivalInv
<1> QED
  BY ArrivalInit, ArrivalStep, Invariance, PTL DEF Spec

(***************************************************************************)
(* However many sessions and routes there are, a second proof for a        *)
(* delivery takes a request that overlapped the first, or a route planned  *)
(* while the first was recorded.                                           *)
(***************************************************************************)
THEOREM ReceivedOnceOnly == Spec => []ReceivedOnce
<1>1. ArrivalInv => ReceivedOnce
  BY DEF ArrivalInv, Reopened, ReceivedOnce, Overlap
<1> QED
  BY <1>1, ArrivalInvariance, PTL

(***************************************************************************)
(* And the portions a delivery shows are those of one proof, unless a      *)
(* route reopened it and two of its proofs overlapped.                     *)
(***************************************************************************)
THEOREM PortionsAreOfOneProof == Spec => []PortionsOfOneProof
<1>1. ArrivalInv => PortionsOfOneProof
  BY DEF ArrivalInv, OfOneProof, PortionsOfOneProof
<1> QED
  BY <1>1, ArrivalInvariance, PTL
=============================================================================
