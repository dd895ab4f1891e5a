----------------------------- MODULE ServingCycle -----------------------------
(***************************************************************************)
(* From a finished production order to the plate: the inspections that     *)
(* clear its release (QualityService), the deliveries released from it,    *)
(* the routes planned for them, and the proofs and incidents of the        *)
(* arrival (DeliveryService).  A request reads and checks first and writes *)
(* at its commit, with nothing locked in between; other sessions commit    *)
(* meanwhile.                                                              *)
(*                                                                         *)
(* Numbers (QC-, DO-, RT-date-sequence) are left out: the unique constraint*)
(* ends a request that loses its number as Disconnect ends one.            *)
(***************************************************************************)
EXTENDS Integers, FiniteSets, Tables

CONSTANTS
    Session,
    Order,          \* production orders of the meal plan
    Inspection,
    Delivery,
    Route,
    Planned,        \* planned_portions of every order
    Portions,       \* portions a client may report
    MaxProofs,      \* proofs ever recorded
    MaxIncidents,   \* incidents ever recorded
    MaxRequests     \* requests ever begun

ASSUME ServingBounds ==
    /\ Planned \in Nat \ {0} /\ Portions \subseteq Int
    /\ MaxProofs \in Nat /\ MaxIncidents \in Nat /\ MaxRequests \in Nat

VARIABLES
    order,      \* order[o]: None until completed, then the portions to ship
    inspection,
    delivery,
    route,
    proof,      \* proof[n]: the n-th proof committed
    incident,
    session,
    opened

vars == <<order, inspection, delivery, route, proof, incident, session, opened>>

Verdict == {"PASSED", "FAILED"}
InspectionStatus == {"DRAFT"} \cup Verdict
Result == {"PASS", "FAIL"}

Active == {"PLANNED", "LOADING", "IN_TRANSIT", "ARRIVED"}
Final == {"RECEIVED", "PARTIALLY_RECEIVED", "REJECTED"}

ProofId == 1 .. MaxProofs
IncidentId == 1 .. MaxIncidents

\* ProductionOrderComplete
Completion == [accepted : Portions, actual : Portions]

\* lines: the results among the lines; late is history: a line was committed
\* that a finalisation did not see.
InspectionRow ==
    [of : Order, mandatory : BOOLEAN, status : InspectionStatus, lines : SUBSET Result,
     late : BOOLEAN]

\* cleared is history: the mandatory inspections the release looked at.
DeliveryRow ==
    [of : Order, shipped : Portions \cup {Planned}, received : Portions \cup {None},
     rejected : Portions \cup {None}, status : Active \cup Final, route : Route \cup {None},
     cleared : SUBSET Inspection]

\* marked: the stops whose arrival was noted.  before and after are history:
\* the proofs committed when the route read its deliveries and when it was.
RouteRow ==
    [status : {"PLANNED", "ARRIVED"}, stops : SUBSET Delivery, marked : SUBSET Delivery,
     before : SUBSET ProofId, after : SUBSET ProofId]

\* stop: the route of the stop named by the client, if any; before as above.
ProofRow ==
    [of : Delivery, received : Portions, rejected : Portions, route : Route \cup {None},
     stop : Route \cup {None}, before : SUBSET ProofId]

IncidentRow == [of : Delivery, route : Route \cup {None}, stop : Route \cup {None}]

\* What a request holds between its reads and its commit: the rows as loaded.
Pending ==
    [kind : {"line"}, id : Inspection, result : Result, loaded : {"DRAFT"}] \cup
    [kind : {"finalize"}, id : Inspection, verdict : Verdict, loaded : InspectionStatus] \cup
    [kind : {"release"}, id : Order, cleared : SUBSET Inspection] \cup
    [kind : {"plan"}, loading : SUBSET Delivery, stops : SUBSET Delivery,
     before : SUBSET ProofId] \cup
    [kind : {"proof"}, proof : ProofRow, loaded : DeliveryRow]

ASSUME NoneIsNoRow ==
    /\ None \notin InspectionRow /\ None \notin DeliveryRow /\ None \notin RouteRow
    /\ None \notin ProofRow /\ None \notin Pending /\ None \notin Portions
-----------------------------------------------------------------------------
Existing(row) == {x \in DOMAIN row : row[x] # None}

Mandatory(o) ==
    {i \in Existing(inspection) : inspection[i].of = o /\ inspection[i].mandatory}

Proofs == Existing(proof)

Opens(s, pending) ==
    /\ session[s] = None /\ opened < MaxRequests
    /\ session' = [session EXCEPT ![s] = pending]
    /\ opened' = opened + 1

Closes(s) == session' = [session EXCEPT ![s] = None] /\ UNCHANGED opened

\* Mutant of ReleaseAllowed: only a failed inspection blocks.
ReleaseUnlessFailed(o) == \A i \in Mandatory(o) : inspection[i].status # "FAILED"

\* validate_release_for_reference
ReleaseAllowed(o) == \A i \in Mandatory(o) : inspection[i].status = "PASSED"

\* A stop named by a proof or an incident is one of the delivery's own, on
\* whichever route.
StopOf(d) == {r \in Existing(route) : d \in route[r].stops} \cup {None}

\* accepted or actual or planned: zero counts as not given.
Shipped(completion) ==
    IF completion.accepted # 0 THEN completion.accepted
    ELSE IF completion.actual # 0 THEN completion.actual ELSE Planned

\* shipped or planned
ShippedOf(d) == IF d.shipped # 0 THEN d.shipped ELSE Planned
-----------------------------------------------------------------------------
Init ==
    /\ order = [o \in Order |-> None]
    /\ inspection = [i \in Inspection |-> None]
    /\ delivery = [d \in Delivery |-> None]
    /\ route = [r \in Route |-> None]
    /\ proof = [n \in ProofId |-> None]
    /\ incident = [n \in IncidentId |-> None]
    /\ session = [s \in Session |-> None]
    /\ opened = 0

\* complete_production_order, with the portions as the client gives them.
CompleteOrder(o, completion) ==
    /\ order[o] = None
    /\ order' = [order EXCEPT ![o] = Shipped(completion)]
    /\ UNCHANGED <<inspection, delivery, route, proof, incident, session, opened>>

\* The order referred to need not be completed.
CreateInspection(i, o, mandatory) ==
    /\ inspection[i] = None
    /\ inspection' = [inspection EXCEPT ![i] =
          [of |-> o, mandatory |-> mandatory, status |-> "DRAFT", lines |-> {}, late |-> FALSE]]
    /\ UNCHANGED <<order, delivery, route, proof, incident, session, opened>>

\* Mutant of BeginLine: a final inspection still takes lines.
BeginLineAnyStatus(s, i, result) ==
    /\ inspection[i] # None
    /\ Opens(s, [kind |-> "line", id |-> i, result |-> result,
                   loaded |-> inspection[i].status])
    /\ UNCHANGED <<order, inspection, delivery, route, proof, incident>>

BeginLine(s, i, result) ==
    /\ inspection[i] # None
    /\ inspection[i].status \notin Verdict
    /\ Opens(s, [kind |-> "line", id |-> i, result |-> result,
                   loaded |-> inspection[i].status])
    /\ UNCHANGED <<order, inspection, delivery, route, proof, incident>>

Finalizing(i) ==
    \E s \in Session :
        session[s] # None /\ session[s].kind = "finalize" /\ session[s].id = i

CommitLine(s) ==
    /\ session[s] # None /\ session[s].kind = "line"
    /\ LET p == session[s] IN
       inspection' = [inspection EXCEPT
          ![p.id].lines = @ \cup {p.result},
          ![p.id].late = @ \/ (p.loaded = "DRAFT"
                                /\ (inspection[p.id].status # "DRAFT" \/ Finalizing(p.id)))]
    /\ Closes(s)
    /\ UNCHANGED <<order, delivery, route, proof, incident>>

\* finalize_inspection, whatever the status: the lines are read now.
BeginFinalize(s, i) ==
    /\ inspection[i] # None
    /\ inspection[i].lines # {}
    /\ Opens(s, [kind |-> "finalize", id |-> i, loaded |-> inspection[i].status,
                   verdict |-> IF "FAIL" \in inspection[i].lines THEN "FAILED" ELSE "PASSED"])
    /\ UNCHANGED <<order, inspection, delivery, route, proof, incident>>

\* The session writes a status that differs from the one it loaded.
CommitFinalize(s) ==
    /\ session[s] # None /\ session[s].kind = "finalize"
    /\ LET p == session[s] IN
       inspection' = [inspection EXCEPT ![p.id].status = IF p.verdict # p.loaded THEN p.verdict ELSE @]
    /\ Closes(s)
    /\ UNCHANGED <<order, delivery, route, proof, incident>>

\* create_from_production_order
BeginRelease(s, o) ==
    /\ order[o] # None
    /\ ReleaseAllowed(o)
    /\ Opens(s, [kind |-> "release", id |-> o, cleared |-> Mandatory(o)])
    /\ UNCHANGED <<order, inspection, delivery, route, proof, incident>>

CommitRelease(s, d) ==
    /\ session[s] # None /\ session[s].kind = "release"
    /\ delivery[d] = None
    /\ delivery' = [delivery EXCEPT ![d] =
          [of |-> session[s].id, shipped |-> order[session[s].id],
           received |-> None, rejected |-> None, status |-> "IN_TRANSIT", route |-> None,
           cleared |-> session[s].cleared]]
    /\ Closes(s)
    /\ UNCHANGED <<order, inspection, route, proof, incident>>

\* Mutant of BeginPlan: every delivery of the route goes to LOADING.
BeginPlanAll(s, stops) ==
    /\ stops # {}
    /\ Opens(s, [kind |-> "plan", stops |-> stops, before |-> Proofs, loading |-> stops])
    /\ UNCHANGED <<order, inspection, delivery, route, proof, incident>>

\* create_route, for deliveries of any status, routed already or not.
BeginPlan(s, stops) ==
    /\ stops # {}
    /\ Opens(s, [kind |-> "plan", stops |-> stops, before |-> Proofs,
                   loading |-> {d \in stops : delivery[d].status = "IN_TRANSIT"}])
    /\ UNCHANGED <<order, inspection, delivery, route, proof, incident>>

CommitPlan(s, r) ==
    /\ session[s] # None /\ session[s].kind = "plan"
    /\ route[r] = None
    /\ LET p == session[s] IN
       /\ route' = [route EXCEPT ![r] =
             [status |-> "PLANNED", stops |-> p.stops, marked |-> {},
              before |-> p.before, after |-> Proofs]]
       /\ delivery' = [d \in Delivery |->
             IF d \in p.stops
             THEN [delivery[d] EXCEPT !.route = r,
                                      !.status = IF d \in p.loading THEN "LOADING" ELSE @]
             ELSE delivery[d]]
    /\ Closes(s)
    /\ UNCHANGED <<order, inspection, proof, incident>>

\* record_proof: DeliveryProofCreate has no bounds of its own.
BeginProof(s, d, received, rejected, stop) ==
    /\ delivery[d] # None
    /\ delivery[d].status \in Active
    /\ received + rejected <= ShippedOf(delivery[d])
    /\ stop \in StopOf(d)
    /\ Opens(s, [kind |-> "proof", loaded |-> delivery[d],
          proof |-> [of |-> d, received |-> received, rejected |-> rejected,
                     route |-> delivery[d].route, stop |-> stop, before |-> Proofs]])
    /\ UNCHANGED <<order, inspection, delivery, route, proof, incident>>

StatusOf(received, rejected, shipped) ==
    IF received = 0 /\ rejected > 0 THEN "REJECTED"
    ELSE IF received < shipped THEN "PARTIALLY_RECEIVED" ELSE "RECEIVED"

\* Mutant of Written: a zero counts as not given.
WrittenIfAny(loaded, new, current) == IF new # 0 THEN new ELSE current

\* A column is written if the session changed it.
Written(loaded, new, current) == IF new # loaded THEN new ELSE current

CommitProof(s) ==
    /\ session[s] # None /\ session[s].kind = "proof"
    /\ Cardinality(Proofs) < MaxProofs
    /\ LET p == session[s].proof
           loaded == session[s].loaded
           status == StatusOf(p.received, p.rejected, ShippedOf(loaded))
       IN
       /\ proof' = [proof EXCEPT ![Cardinality(Proofs) + 1] = p]
       /\ delivery' = [delivery EXCEPT
             ![p.of].received = Written(loaded.received, p.received, @),
             ![p.of].rejected = Written(loaded.rejected, p.rejected, @),
             ![p.of].status = status]
       /\ route' = [r \in Route |->
             IF p.route # None /\ route[r] # None
             THEN [route[r] EXCEPT
                      !.status = IF r = p.route /\ status # "REJECTED" THEN "ARRIVED" ELSE @,
                      !.marked = IF r = p.stop THEN @ \cup {p.of} ELSE @]
             ELSE route[r]]
    /\ Closes(s)
    /\ UNCHANGED <<order, inspection, incident>>

\* record_incident changes nothing but the incidents.
RecordIncident(d, stop) ==
    /\ delivery[d] # None
    /\ stop \in StopOf(d)
    /\ Cardinality(Existing(incident)) < MaxIncidents
    /\ incident' = [incident EXCEPT ![Cardinality(Existing(incident)) + 1] =
          [of |-> d, route |-> delivery[d].route, stop |-> stop]]
    /\ UNCHANGED <<order, inspection, delivery, route, proof, session, opened>>

\* The client is lost, or the number is taken: nothing is committed.
Disconnect(s) ==
    /\ session[s] # None
    /\ Closes(s)
    /\ UNCHANGED <<order, inspection, delivery, route, proof, incident>>

Next ==
    \/ \E o \in Order, completion \in Completion : CompleteOrder(o, completion)
    \/ \E i \in Inspection, o \in Order, mandatory \in BOOLEAN : CreateInspection(i, o, mandatory)
    \/ \E d \in Existing(delivery), stop \in Route \cup {None} : RecordIncident(d, stop)
    \/ \E s \in Session :
          \/ \E i \in Inspection, result \in Result : BeginLine(s, i, result)
          \/ \E i \in Inspection : BeginFinalize(s, i)
          \/ \E o \in Order : BeginRelease(s, o)
          \/ \E stops \in SUBSET Existing(delivery) : BeginPlan(s, stops)
          \/ \E d \in Delivery, received, rejected \in Portions, stop \in Route \cup {None} :
                BeginProof(s, d, received, rejected, stop)
          \/ CommitLine(s)
          \/ CommitFinalize(s)
          \/ \E d \in Delivery : CommitRelease(s, d)
          \/ \E r \in Route : CommitPlan(s, r)
          \/ CommitProof(s)
          \/ Disconnect(s)

Spec == Init /\ [][Next]_vars
-----------------------------------------------------------------------------
ServingTypeOK ==
    /\ order \in [Order -> Portions \cup {Planned, None}]
    /\ inspection \in [Inspection -> InspectionRow \cup {None}]
    /\ delivery \in [Delivery -> DeliveryRow \cup {None}]
    /\ route \in [Route -> RouteRow \cup {None}]
    /\ proof \in [ProofId -> ProofRow \cup {None}]
    /\ incident \in [IncidentId -> IncidentRow \cup {None}]
    /\ session \in [Session -> Pending \cup {None}]
    /\ opened \in 0 .. MaxRequests

(***************************************************************************)
(* What left the kitchen had passed: every mandatory inspection that       *)
(* existed when the release of a delivery was checked is PASSED ever       *)
(* after, unless a line reached it that its finalisation had not seen.     *)
(***************************************************************************)
ClearanceStands ==
    \A d \in Existing(delivery) : \A i \in delivery[d].cleared :
        inspection[i].status = "PASSED" \/ inspection[i].late

(***************************************************************************)
(* A verdict, once given, is changed only where a line was committed       *)
(* behind the back of a finalisation: although finalize_inspection accepts *)
(* inspections that are final already.                                     *)
(***************************************************************************)
VerdictStands ==
    [][\A i \in Inspection :
          inspection[i] # None /\ inspection[i].status \in Verdict
              => inspection'[i].status = inspection[i].status \/ inspection[i].late]_vars

Overlap(n, m) == n \notin proof[m].before /\ m \notin proof[n].before

\* A proof of d was committed between the reads and the commit of a route.
ReopenedByRoute(d) ==
    \E r \in Existing(route) :
        d \in route[r].stops /\ \E n \in route[r].after \ route[r].before : proof[n].of = d

(***************************************************************************)
(* A delivery is received once: a second proof for it is recorded only by  *)
(* a request that overlapped the first, or after a route, planned while    *)
(* the first was recorded, set the delivery back to LOADING.               *)
(***************************************************************************)
ReceivedOnce ==
    \A n, m \in Proofs :
        n # m /\ proof[n].of = proof[m].of
            => Overlap(n, m) \/ ReopenedByRoute(proof[n].of)

(***************************************************************************)
(* The portions a delivery shows, which claims are paid by, are those of   *)
(* one of its proofs, never received from one and rejected from another.   *)
(* Three proofs are needed to mix them, a route between the first two.     *)
(***************************************************************************)
PortionsOfOneProof ==
    \A d \in Existing(delivery) :
        delivery[d].received # None =>
            \/ \E n \in Proofs :
                  /\ proof[n].of = d
                  /\ proof[n].received = delivery[d].received
                  /\ proof[n].rejected = delivery[d].rejected
            \/ /\ ReopenedByRoute(d)
               /\ \E n, m \in Proofs : n # m /\ proof[n].of = d /\ proof[m].of = d /\ Overlap(n, m)
=============================================================================
