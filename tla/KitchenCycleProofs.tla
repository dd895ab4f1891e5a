-------------------------- MODULE KitchenCycleProofs --------------------------
(***************************************************************************)
(* First ApprovalWorkflow: what it keeps for every tenant, whatever        *)
(* transitions its administrator defines and however many documents and    *)
(* requests it has.                                                        *)
(*                                                                         *)
(* Then what reservations and completions add to StockLedger's promises,   *)
(* for any plans, orders and needs.  The inductive invariant joins the     *)
(* types, the balance rows' own arithmetic and their distance to the       *)
(* ledger: completing an order needs the three together, as it lowers the  *)
(* promise, the balance and the ledger by different amounts.               *)
(***************************************************************************)
EXTENDS KitchenCycle, StockLedgerProofs, TablesProofs

\* What a definition may hold is a set of transitions.
LEMMA InstallableAreTransitions == Installable \subseteq Transition
<1>1. Submitting \in Transition
  BY DEF Transition, Submitting, Status
<1>2. Approving \in Transition
  BY DEF Transition, Approving, Status
<1>3. Reserving \in Transition
  BY DEF Transition, Reserving, Status
<1> QED
  BY <1>1, <1>2, <1>3, CustomTransitionsAreTransitions DEF Installable

\* The transitions the services install are among them.
LEMMA StandardIsInstallable == ASSUME NEW t PROVE Standard(t) \subseteq Installable
BY DEF Standard, Installable

\* Whatever transition is applied, instances and requests keep their types.
LEMMA ApplyTyped ==
  ASSUME WorkflowTypeOK, NEW d \in Document,
         NEW action \in {"SUBMIT", "APPROVE", "RESERVE_MATERIALS"}, NEW expected,
         Apply(d, action, expected)
  PROVE  /\ instance' \in [Document -> Status \cup {None}]
         /\ approval' \in [Approval -> ApprovalRow \cup {None}]
<1> DEFINE t == TypeOf(d)
<1>1. definition[t] \in SUBSET Installable
  BY DEF WorkflowTypeOK, Apply, DocType
<1>2. PICK tr \in Keyed(t, expected, action) :
         \/ /\ tr.gated
            /\ \E a \in Approval :
                  approval' = [approval EXCEPT ![a] =
                      [document |-> d, requested |-> tr.to,
                       action |-> action, status |-> "PENDING"]]
            /\ UNCHANGED instance
         \/ /\ ~tr.gated
            /\ instance' = [instance EXCEPT ![d] = tr.to]
            /\ UNCHANGED approval
  BY DEF Apply
<1>3. tr \in Transition /\ tr.to \in Status
  BY <1>1, InstallableAreTransitions DEF Keyed, Transition
<1>4. CASE tr.gated
  <2>1. PICK a \in Approval :
           approval' = [approval EXCEPT ![a] =
               [document |-> d, requested |-> tr.to, action |-> action, status |-> "PENDING"]]
    BY <1>2, <1>4
  <2>2. [document |-> d, requested |-> tr.to, action |-> action, status |-> "PENDING"]
           \in ApprovalRow
    BY <1>3 DEF ApprovalRow
  <2> QED
    BY <1>2, <1>4, <2>1, <2>2 DEF WorkflowTypeOK
<1>5. CASE ~tr.gated
  BY <1>2, <1>3, <1>5 DEF WorkflowTypeOK
<1> QED
  BY <1>4, <1>5

\* A new version, active or not, leaves a sequence of flags.
LEMMA VersionsStaySequences ==
  ASSUME NEW v \in Seq(BOOLEAN), NEW active \in BOOLEAN
  PROVE  /\ Append(v, active) \in Seq(BOOLEAN)
         /\ [n \in DOMAIN v |-> FALSE] \in Seq(BOOLEAN)
         /\ Append([n \in DOMAIN v |-> FALSE], active) \in Seq(BOOLEAN)
<1>1. [n \in 1 .. Len(v) |-> FALSE] \in Seq(BOOLEAN)
  OBVIOUS
<1>2. DOMAIN v = 1 .. Len(v)
  OBVIOUS
<1> QED
  BY <1>1, <1>2

\* The requests on documents and definitions keep the types.
LEMMA DocumentTyped == WorkflowTypeOK /\ DocumentNext => WorkflowTypeOK'
<1> SUFFICES ASSUME WorkflowTypeOK, DocumentNext
             PROVE  WorkflowTypeOK'
  OBVIOUS
<1> USE DEF WorkflowTypeOK
<1>1. ASSUME NEW t \in DocType, CreateDefinition(t)
      PROVE  WorkflowTypeOK'
  BY <1>1 DEF CreateDefinition
<1>2. ASSUME NEW t \in DocType, NEW active \in BOOLEAN, CreateVersion(t, active)
      PROVE  WorkflowTypeOK'
  <2>1. version[t] \in Seq(BOOLEAN)
    OBVIOUS
  <2>2. Append(version[t], FALSE) \in Seq(BOOLEAN)
    BY <2>1, VersionsStaySequences
  <2>3. Append([n \in DOMAIN version[t] |-> FALSE], TRUE) \in Seq(BOOLEAN)
    BY <2>1, VersionsStaySequences
  <2>4. version' \in [DocType -> Seq(BOOLEAN)]
    BY <1>2, <2>2, <2>3 DEF CreateVersion
  <2> QED
    BY <1>2, <2>4 DEF CreateVersion
<1>3. ASSUME NEW t \in DocType, NEW tr \in CustomTransition, AddTransition(t, tr)
      PROVE  WorkflowTypeOK'
  <2>1. definition[t] \in SUBSET Installable /\ tr \in Installable
    BY <1>3 DEF AddTransition, Installable
  <2> QED
    BY <1>3, <2>1 DEF AddTransition
<1>4. ASSUME NEW d \in Document, NEW s \in ClientStatus, CreateDocument(d, s)
      PROVE  WorkflowTypeOK'
  <2> DEFINE t == TypeOf(d)
             known == IF definition[t] = None THEN {} ELSE definition[t]
             missing == {tr \in Standard(t) :
                            \A k \in known : k.from # tr.from \/ k.action # tr.action}
  <2>1. t \in DocType
    BY DEF DocType
  <2>2. known \cup missing \in SUBSET Installable
    BY <2>1, StandardIsInstallable
  <2>3. definition' = [definition EXCEPT ![t] = known \cup missing]
    BY <1>4 DEF CreateDocument, EnsuredTransitions
  <2>4. definition' \in [DocType -> (SUBSET Installable) \cup {None}]
    BY <2>2, <2>3
  <2>5. Append(version[t], TRUE) \in Seq(BOOLEAN)
    BY <2>1, VersionsStaySequences
  <2>6. version' \in [DocType -> Seq(BOOLEAN)]
    BY <1>4, <2>5 DEF CreateDocument, EnsureVersion
  <2>7. status' \in [Document -> Status \cup {None}]
    BY <1>4, ClientStatusesAreStatuses DEF CreateDocument
  <2>8. instance' \in [Document -> Status \cup {None}]
    BY <1>4 DEF CreateDocument, EnsureInstance, Status
  <2>9. approval' = approval
    BY <1>4 DEF CreateDocument
  <2> QED
    BY <2>4, <2>6, <2>7, <2>8, <2>9
<1>5. ASSUME NEW d \in Document, Submit(d)
      PROVE  WorkflowTypeOK'
  <2>1. Apply(d, "SUBMIT", "DRAFT")
    BY <1>5 DEF Submit
  <2>2. /\ instance' \in [Document -> Status \cup {None}]
        /\ approval' \in [Approval -> ApprovalRow \cup {None}]
    BY <2>1, ApplyTyped
  <2> QED
    BY <1>5, <2>2 DEF Submit, Status
<1>6. ASSUME NEW d \in Document, Approve(d)
      PROVE  WorkflowTypeOK'
  <2>1. Apply(d, "APPROVE", "SUBMITTED")
    BY <1>6 DEF Approve
  <2>2. /\ instance' \in [Document -> Status \cup {None}]
        /\ approval' \in [Approval -> ApprovalRow \cup {None}]
    BY <2>1, ApplyTyped
  <2> QED
    BY <1>6, <2>2 DEF Approve, Status
<1>7. ASSUME NEW d \in Document, RequestManualApproval(d)
      PROVE  WorkflowTypeOK'
  <2>1. PICK a \in Approval :
          approval' = [approval EXCEPT ![a] =
              [document |-> d, requested |-> instance[d],
               action |-> "MANUAL_APPROVAL", status |-> "PENDING"]]
    BY <1>7 DEF RequestManualApproval
  <2>2. [document |-> d, requested |-> instance[d],
         action |-> "MANUAL_APPROVAL", status |-> "PENDING"] \in ApprovalRow
    BY <1>7 DEF RequestManualApproval, ApprovalRow
  <2> QED
    BY <1>7, <2>1, <2>2 DEF RequestManualApproval
<1>8. ASSUME NEW a \in Approval, NEW decision \in {"APPROVED", "REJECTED"},
             Decide(a, decision)
      PROVE  WorkflowTypeOK'
  <2>1. approval[a] \in ApprovalRow
    BY <1>8 DEF Decide
  <2>2. [approval[a] EXCEPT !.status = decision] \in ApprovalRow
    BY <2>1 DEF ApprovalRow
  <2>3. approval' \in [Approval -> ApprovalRow \cup {None}]
    BY <1>8, <2>2 DEF Decide
  <2>4. approval[a].requested \in Status
    BY <2>1 DEF ApprovalRow
  <2>5. instance' \in [Document -> Status \cup {None}]
    BY <1>8, <2>4 DEF Decide
  <2> QED
    BY <1>8, <2>3, <2>5 DEF Decide
<1> QED
  BY <1>1, <1>2, <1>3, <1>4, <1>5, <1>6, <1>7, <1>8 DEF DocumentNext

LEMMA ReservedTyped ==
  ASSUME WorkflowTypeOK, NEW p \in MealPlan, MarkReserved(p)
  PROVE  WorkflowTypeOK'
<1>1. p \in Document
  BY DEF Document
<1>2. Apply(p, "RESERVE_MATERIALS", "APPROVED")
  BY DEF MarkReserved
<1>3. /\ instance' \in [Document -> Status \cup {None}]
      /\ approval' \in [Approval -> ApprovalRow \cup {None}]
  BY <1>1, <1>2, ApplyTyped
<1> QED
  BY <1>1, <1>3 DEF MarkReserved, WorkflowTypeOK, Status

LEMMA WorkflowInitTyped == WorkflowInit => WorkflowTypeOK
  BY DEF WorkflowInit, WorkflowTypeOK

(***************************************************************************)
(* Statuses, definitions, versions, instances and approval requests keep   *)
(* their types under every request of WorkflowService and its callers.     *)
(***************************************************************************)
THEOREM WorkflowTypes == WorkflowSpec => []WorkflowTypeOK
<1>1. WorkflowTypeOK /\ [WorkflowNext]_workflowVars => WorkflowTypeOK'
  <2> SUFFICES ASSUME WorkflowTypeOK, [WorkflowNext]_workflowVars
               PROVE  WorkflowTypeOK'
    OBVIOUS
  <2>1. CASE DocumentNext
    BY <2>1, DocumentTyped
  <2>2. CASE \E p \in MealPlan : MarkReserved(p)
    BY <2>2, ReservedTyped
  <2>3. CASE UNCHANGED workflowVars
    BY <2>3 DEF WorkflowTypeOK, workflowVars
  <2> QED
    BY <2>1, <2>2, <2>3 DEF WorkflowNext
<1> QED
  BY <1>1, WorkflowInitTyped, PTL DEF WorkflowSpec

-----------------------------------------------------------------------------
(* One active version.                                                     *)

\* The active versions of a sequence of flags.
Active(v) == {n \in DOMAIN v : v[n]}

LEMMA ActiveAfterAppend ==
  ASSUME NEW v \in Seq(BOOLEAN)
  PROVE  /\ Active(Append(v, FALSE)) = Active(v)
         /\ Active(v) = {} => Active(Append(v, TRUE)) = {Len(v) + 1}
         /\ Active(Append([n \in DOMAIN v |-> FALSE], TRUE)) = {Len(v) + 1}
<1> DEFINE none == [n \in DOMAIN v |-> FALSE]
<1>1. DOMAIN v = 1 .. Len(v) /\ Len(v) \in Nat
  OBVIOUS
<1>2. none \in Seq(BOOLEAN) /\ Len(none) = Len(v)
  BY <1>1
<1>3. Active(Append(v, FALSE)) = Active(v)
  BY <1>1 DEF Active
<1>4. Active(v) = {} => Active(Append(v, TRUE)) = {Len(v) + 1}
  BY <1>1 DEF Active
<1>5. Active(Append(none, TRUE)) = {Len(v) + 1}
  <2>1. \A n \in 1 .. Len(v) : Append(none, TRUE)[n] = FALSE
    BY <1>1, <1>2
  <2>2. Append(none, TRUE)[Len(v) + 1] = TRUE
    BY <1>2
  <2>3. DOMAIN Append(none, TRUE) = 1 .. Len(v) + 1
    BY <1>2
  <2> QED
    BY <1>1, <2>1, <2>2, <2>3 DEF Active
<1> QED
  BY <1>3, <1>4, <1>5

\* The strengthening: no definition, no versions.
VersionInv ==
    \A t \in DocType :
        IF definition[t] = None THEN version[t] = <<>>
        ELSE \E n : Active(version[t]) = {n}

LEMMA VersionInvStep ==
  ASSUME WorkflowTypeOK, VersionInv, DocumentNext
  PROVE  VersionInv'
<1>1. ASSUME NEW t \in DocType, CreateDefinition(t)
      PROVE  VersionInv'
  <2>1. Active(<<TRUE>>) = {1}
    <3>1. DOMAIN <<TRUE>> = {1} /\ <<TRUE>>[1] = TRUE
      OBVIOUS
    <3> QED
      BY <3>1 DEF Active
  <2>2. definition'[t] # None => version'[t] = <<TRUE>>
    BY <1>1 DEF CreateDefinition, WorkflowTypeOK
  <2>3. definition'[t] = {}
    BY <1>1 DEF CreateDefinition, WorkflowTypeOK
  <2>4. \A u \in DocType \ {t} : definition'[u] = definition[u] /\ version'[u] = version[u]
    BY <1>1 DEF CreateDefinition, WorkflowTypeOK
  <2>5. version'[t] = <<TRUE>>
    BY <1>1 DEF CreateDefinition, WorkflowTypeOK
  <2>6. {} # None
    BY NoneIsNoState
  <2> QED
    BY <2>1, <2>3, <2>4, <2>5, <2>6 DEF VersionInv
<1>2. ASSUME NEW t \in DocType, NEW active \in BOOLEAN, CreateVersion(t, active)
      PROVE  VersionInv'
  <2>1. version[t] \in Seq(BOOLEAN)
    BY DEF WorkflowTypeOK
  <2>2. \E n : Active(version[t]) = {n}
    BY <1>2 DEF CreateVersion, VersionInv
  <2>3. version'[t] = IF active THEN Append([n \in DOMAIN version[t] |-> FALSE], TRUE)
                      ELSE Append(version[t], FALSE)
    BY <1>2 DEF CreateVersion, WorkflowTypeOK
  <2>4. \E n : Active(version'[t]) = {n}
    BY <2>1, <2>2, <2>3, ActiveAfterAppend
  <2>5. \A u \in DocType \ {t} : version'[u] = version[u]
    BY <1>2 DEF CreateVersion, WorkflowTypeOK
  <2>6. definition' = definition /\ definition[t] # None
    BY <1>2 DEF CreateVersion
  <2> QED
    BY <2>4, <2>5, <2>6 DEF VersionInv
<1>3. ASSUME NEW t \in DocType, NEW tr \in CustomTransition, AddTransition(t, tr)
      PROVE  VersionInv'
  <2>1. version' = version
    BY <1>3 DEF AddTransition
  <2>2. definition[t] # None /\ definition'[t] # None
    <3>1. definition'[t] = definition[t] \cup {tr}
      BY <1>3 DEF AddTransition, WorkflowTypeOK
    <3>2. definition'[t] \in SUBSET Installable
      BY <1>3, <3>1 DEF AddTransition, Installable, WorkflowTypeOK
    <3> QED
      BY <1>3, <3>2, NoneIsNoState DEF AddTransition
  <2>3. \A u \in DocType \ {t} : definition'[u] = definition[u]
    BY <1>3 DEF AddTransition, WorkflowTypeOK
  <2> QED
    BY <2>1, <2>2, <2>3 DEF VersionInv
<1>4. ASSUME NEW d \in Document, NEW s \in ClientStatus, CreateDocument(d, s)
      PROVE  VersionInv'
  <2> DEFINE t == TypeOf(d)
  <2>1. t \in DocType /\ version[t] \in Seq(BOOLEAN)
    BY DEF DocType, WorkflowTypeOK
  <2>2. version'[t] = IF Active(version[t]) = {} THEN Append(version[t], TRUE) ELSE version[t]
    BY <1>4, <2>1 DEF CreateDocument, EnsureVersion, WorkflowTypeOK, ActiveVersions, Active
  <2>3. \A u \in DocType \ {t} : version'[u] = version[u] /\ definition'[u] = definition[u]
    BY <1>4, <2>1 DEF CreateDocument, EnsureVersion, WorkflowTypeOK
  <2>4. CASE definition[t] = None
    <3>1. version[t] = <<>>
      BY <2>1, <2>4 DEF VersionInv
    <3>2. Active(version[t]) = {}
      BY <3>1 DEF Active
    <3>3. \E n : Active(version'[t]) = {n}
      BY <2>1, <2>2, <3>2, ActiveAfterAppend
    <3>4. definition'[t] # None
      <4>1. definition'[t] = {} \cup {tr \in Standard(t) :
                                    \A k \in {} : k.from # tr.from \/ k.action # tr.action}
        BY <1>4, <2>1, <2>4 DEF CreateDocument, EnsuredTransitions, WorkflowTypeOK
      <4>2. definition'[t] \in SUBSET Installable
        BY <4>1, StandardIsInstallable
      <4> QED
        BY <4>2, NoneIsNoState
    <3> QED
      BY <2>3, <3>3, <3>4 DEF VersionInv
  <2>5. CASE definition[t] # None
    <3>1. PICK n : Active(version[t]) = {n}
      BY <2>1, <2>5 DEF VersionInv
    <3>2. version'[t] = version[t]
      BY <2>2, <3>1
    <3>3. definition'[t] # None
      <4>1. definition[t] \in SUBSET Installable
        BY <2>1, <2>5 DEF WorkflowTypeOK
      <4>2. definition'[t] \in SUBSET Installable
        BY <1>4, <2>1, <2>5, <4>1, StandardIsInstallable
        DEF CreateDocument, EnsuredTransitions, WorkflowTypeOK
      <4> QED
        BY <4>2, NoneIsNoState
    <3> QED
      BY <2>1, <2>3, <3>1, <3>2, <3>3 DEF VersionInv
  <2> QED
    BY <2>4, <2>5
<1>5. CASE UNCHANGED <<definition, version>>
  BY <1>5 DEF VersionInv
<1> QED
  BY <1>1, <1>2, <1>3, <1>4, <1>5
  DEF DocumentNext, Submit, Approve, RequestManualApproval, Decide

LEMMA VersionInvNext ==
  ASSUME WorkflowTypeOK, VersionInv, [WorkflowNext]_workflowVars
  PROVE  VersionInv'
<1>1. CASE DocumentNext
  BY <1>1, VersionInvStep
<1>2. CASE \E p \in MealPlan : MarkReserved(p)
  BY <1>2 DEF MarkReserved, VersionInv
<1>3. CASE UNCHANGED workflowVars
  BY <1>3 DEF workflowVars, VersionInv
<1> QED
  BY <1>1, <1>2, <1>3 DEF WorkflowNext

(***************************************************************************)
(* However many versions administrators create, active or not, a           *)
(* definition has one active version: the query for it never finds two.    *)
(***************************************************************************)
THEOREM VersionsStaySingle == WorkflowSpec => []OneActiveVersion
<1>1. WorkflowInit => VersionInv
  BY DEF WorkflowInit, VersionInv
<1>2. VersionInv => OneActiveVersion
  <2> SUFFICES ASSUME VersionInv, NEW t \in DocType, definition[t] # None
               PROVE  Cardinality(ActiveVersions(t)) = 1
    BY DEF OneActiveVersion
  <2>1. PICK n : Active(version[t]) = {n}
    BY DEF VersionInv
  <2> QED
    BY <2>1, FS_Singleton DEF Active, ActiveVersions
<1> QED
  BY <1>1, <1>2, WorkflowTypes, VersionInvNext, PTL DEF WorkflowSpec

-----------------------------------------------------------------------------
(* Requests and rejections.                                                *)

\* At most one undecided request, said without counting.
OnePending ==
    \A d \in Document : \A a, b \in PendingFor(d) : a = b

\* Where a document stands while an APPROVE request of it is undecided or
\* rejected, and what may still be asked of it once it is rejected.
Gated(a) == approval[a] # None /\ approval[a].action = "APPROVE" /\ approval[a].status # "APPROVED"

Rejected(a) == Gated(a) /\ approval[a].status = "REJECTED"

StandsSubmitted ==
    \A a \in Approval : Gated(a) =>
        /\ instance[approval[a].document] = "SUBMITTED"
        /\ status[approval[a].document] = "APPROVED"

AskedAfterRejection ==
    \A a, b \in Approval :
        /\ Rejected(a)
        /\ approval[b] # None
        /\ approval[b].status = "PENDING"
        /\ approval[b].document = approval[a].document
        => approval[b].requested = "SUBMITTED"

RejectionInv == WorkflowTypeOK /\ OnePending /\ StandsSubmitted /\ AskedAfterRejection

\* A request that raises row a for document d, which has none undecided.
Raises(a, d, r) ==
    /\ PendingFor(d) = {}
    /\ approval[a] = None
    /\ r \in ApprovalRow
    /\ r.document = d
    /\ r.status = "PENDING"
    /\ approval' = [approval EXCEPT ![a] = r]

LEMMA RaisingKeepsOnePending ==
  ASSUME WorkflowTypeOK, OnePending, NEW a \in Approval, NEW d \in Document, NEW r,
         Raises(a, d, r)
  PROVE  OnePending'
<1> SUFFICES ASSUME NEW e \in Document, NEW b \in PendingFor(e)', NEW c \in PendingFor(e)'
             PROVE  b = c
  BY DEF OnePending
<1>1. \A x \in Approval \ {a} : approval'[x] = approval[x]
  BY DEF Raises, WorkflowTypeOK
<1>2. approval'[a] = r
  BY DEF Raises, WorkflowTypeOK
<1>3. \A x \in Approval \ {a} : x \in PendingFor(e)' => x \in PendingFor(e)
  BY <1>1 DEF PendingFor
<1>4. b \in Approval /\ c \in Approval
  BY DEF PendingFor
<1>5. a \in PendingFor(e)' => e = d
  BY <1>2 DEF PendingFor, Raises
<1>6. PendingFor(d) = {}
  BY DEF Raises
<1> QED
  BY <1>3, <1>4, <1>5, <1>6 DEF OnePending

\* A transition either raises a request or moves the instance.
LEMMA ApplyCases ==
  ASSUME WorkflowTypeOK, NEW d \in Document,
         NEW action \in {"SUBMIT", "APPROVE", "RESERVE_MATERIALS"}, NEW expected,
         Apply(d, action, expected)
  PROVE  \E s \in Status :
            \/ /\ \E a \in Approval :
                     Raises(a, d, [document |-> d, requested |-> s,
                                   action |-> action, status |-> "PENDING"])
               /\ UNCHANGED instance
            \/ /\ instance' = [instance EXCEPT ![d] = s]
               /\ UNCHANGED approval
<1>1. definition[TypeOf(d)] \in SUBSET Installable
  BY DEF WorkflowTypeOK, Apply, DocType
<1>2. PICK tr \in Keyed(TypeOf(d), expected, action) :
         \/ /\ PendingFor(d) = {}
            /\ \E a \in Approval :
                  /\ approval[a] = None
                  /\ approval' = [approval EXCEPT ![a] =
                      [document |-> d, requested |-> tr.to,
                       action |-> action, status |-> "PENDING"]]
            /\ UNCHANGED instance
         \/ /\ instance' = [instance EXCEPT ![d] = tr.to]
            /\ UNCHANGED approval
  BY DEF Apply
<1>3. tr.to \in Status
  BY <1>1, InstallableAreTransitions DEF Keyed, Transition
<1>4. [document |-> d, requested |-> tr.to, action |-> action, status |-> "PENDING"]
         \in ApprovalRow
  BY <1>3 DEF ApprovalRow
<1> QED
  BY <1>2, <1>3, <1>4 DEF Raises

\* A transition on a document that has no gated request undecided or
\* rejected, by a caller that writes the status the transition stands for.
LEMMA ApplyKeepsRejections ==
  ASSUME RejectionInv, NEW d \in Document, NEW s \in Status,
         NEW action \in {"SUBMIT", "APPROVE", "RESERVE_MATERIALS"}, NEW expected,
         Apply(d, action, expected),
         status' = [status EXCEPT ![d] = s],
         action = "APPROVE" => expected = "SUBMITTED" /\ s = "APPROVED",
         \A a \in Approval : Gated(a) => approval[a].document # d
  PROVE  OnePending' /\ StandsSubmitted' /\ AskedAfterRejection'
<1> USE DEF RejectionInv
<1>1. \A e \in Document \ {d} : status'[e] = status[e]
  BY DEF WorkflowTypeOK
<1>2. status'[d] = s /\ instance[d] = expected
  BY DEF WorkflowTypeOK, Apply
<1>3. \A a \in Approval : Gated(a) => approval[a].document \in Document \ {d}
  BY DEF Gated, WorkflowTypeOK, ApprovalRow
<1>4. ASSUME NEW to \in Status, instance' = [instance EXCEPT ![d] = to], UNCHANGED approval
      PROVE  OnePending' /\ StandsSubmitted' /\ AskedAfterRejection'
  <2>1. \A e \in Document \ {d} : instance'[e] = instance[e]
    BY <1>4 DEF WorkflowTypeOK
  <2>2. OnePending' /\ AskedAfterRejection'
    BY <1>4 DEF OnePending, PendingFor, AskedAfterRejection, Rejected, Gated
  <2>3. StandsSubmitted'
    BY <1>1, <1>3, <1>4, <2>1 DEF StandsSubmitted, Gated
  <2> QED
    BY <2>2, <2>3
<1>5. ASSUME NEW to \in Status, NEW a \in Approval,
             Raises(a, d, [document |-> d, requested |-> to,
                           action |-> action, status |-> "PENDING"]),
             UNCHANGED instance
      PROVE  OnePending' /\ StandsSubmitted' /\ AskedAfterRejection'
  <2> DEFINE r == [document |-> d, requested |-> to, action |-> action, status |-> "PENDING"]
  <2>1. approval'[a] = r /\ \A b \in Approval \ {a} : approval'[b] = approval[b]
    BY <1>5 DEF Raises, WorkflowTypeOK
  <2>2. OnePending'
    BY <1>5, RaisingKeepsOnePending
  <2>3. StandsSubmitted'
    <3> SUFFICES ASSUME NEW b \in Approval, Gated(b)'
                 PROVE  /\ instance'[approval'[b].document] = "SUBMITTED"
                        /\ status'[approval'[b].document] = "APPROVED"
      BY DEF StandsSubmitted
    <3>1. CASE b = a
      <4>1. action = "APPROVE"
        BY <2>1, <3>1 DEF Gated
      <4> QED
        BY <1>2, <1>5, <2>1, <3>1, <4>1
    <3>2. CASE b # a
      <4>1. Gated(b) /\ approval'[b] = approval[b]
        BY <2>1, <3>2 DEF Gated
      <4> QED
        BY <1>1, <1>3, <1>5, <4>1 DEF StandsSubmitted
    <3> QED
      BY <3>1, <3>2
  <2>4. AskedAfterRejection'
    <3> SUFFICES ASSUME NEW b \in Approval, NEW c \in Approval, Rejected(b)',
                        approval'[c] # None, approval'[c].status = "PENDING",
                        approval'[c].document = approval'[b].document
                 PROVE  approval'[c].requested = "SUBMITTED"
      BY DEF AskedAfterRejection
    <3>1. b # a
      BY <2>1 DEF Rejected
    <3>2. Rejected(b) /\ Gated(b) /\ approval'[b] = approval[b]
      BY <2>1, <3>1 DEF Rejected, Gated
    <3>3. c # a
      BY <1>3, <2>1, <3>2
    <3> QED
      BY <2>1, <3>2, <3>3 DEF AskedAfterRejection
  <2> QED
    BY <2>2, <2>3, <2>4
<1>6. PICK to \in Status :
         \/ /\ \E a \in Approval :
                  Raises(a, d, [document |-> d, requested |-> to,
                                action |-> action, status |-> "PENDING"])
            /\ UNCHANGED instance
         \/ /\ instance' = [instance EXCEPT ![d] = to]
            /\ UNCHANGED approval
  BY ApplyCases
<1> HIDE DEF RejectionInv
<1> QED
  BY <1>4, <1>5, <1>6

\* The requests on documents and definitions keep a rejection final.
LEMMA RejectionInvStep ==
  ASSUME RejectionInv, DocumentNext
  PROVE  OnePending' /\ StandsSubmitted' /\ AskedAfterRejection'
<1>1. ASSUME NEW d \in Document, NEW s \in ClientStatus, CreateDocument(d, s)
      PROVE  OnePending' /\ StandsSubmitted' /\ AskedAfterRejection'
  <2>1. approval' = approval
    BY <1>1 DEF CreateDocument
  <2>2. \A e \in Document \ {d} : status'[e] = status[e] /\ instance'[e] = instance[e]
    BY <1>1 DEF CreateDocument, EnsureInstance, RejectionInv, WorkflowTypeOK
  <2>3. \A a \in Approval : Gated(a) => approval[a].document \in Document \ {d}
    <3> SUFFICES ASSUME NEW a \in Approval, Gated(a)
                 PROVE  approval[a].document \in Document \ {d}
      OBVIOUS
    <3>1. approval[a].document \in Document
      BY DEF Gated, RejectionInv, WorkflowTypeOK, ApprovalRow
    <3>2. status[approval[a].document] = "APPROVED" /\ status[d] = None
      BY <1>1 DEF CreateDocument, RejectionInv, StandsSubmitted
    <3>3. "APPROVED" # None
      BY NoneIsNoState DEF Status
    <3> QED
      BY <3>1, <3>2, <3>3
  <2>4. OnePending' /\ AskedAfterRejection'
    BY <2>1 DEF RejectionInv, OnePending, PendingFor, AskedAfterRejection, Rejected, Gated
  <2>5. StandsSubmitted'
    BY <2>1, <2>2, <2>3 DEF RejectionInv, StandsSubmitted, Gated
  <2> QED
    BY <2>4, <2>5
<1>2. ASSUME NEW d \in Document, Submit(d)
      PROVE  OnePending' /\ StandsSubmitted' /\ AskedAfterRejection'
  <2>1. Apply(d, "SUBMIT", "DRAFT") /\ status' = [status EXCEPT ![d] = "SUBMITTED"]
    BY <1>2 DEF Submit
  <2>2. \A a \in Approval : Gated(a) => approval[a].document # d
    BY <1>2 DEF Submit, RejectionInv, StandsSubmitted
  <2>3. "SUBMITTED" \in Status
    BY DEF Status
  <2> QED
    BY <2>1, <2>2, <2>3, ApplyKeepsRejections
<1>3. ASSUME NEW d \in Document, Approve(d)
      PROVE  OnePending' /\ StandsSubmitted' /\ AskedAfterRejection'
  <2>1. Apply(d, "APPROVE", "SUBMITTED") /\ status' = [status EXCEPT ![d] = "APPROVED"]
    BY <1>3 DEF Approve
  <2>2. \A a \in Approval : Gated(a) => approval[a].document # d
    BY <1>3 DEF Approve, RejectionInv, StandsSubmitted
  <2>3. "APPROVED" \in Status
    BY DEF Status
  <2> QED
    BY <2>1, <2>2, <2>3, ApplyKeepsRejections
<1>4. ASSUME NEW d \in Document, RequestManualApproval(d)
      PROVE  OnePending' /\ StandsSubmitted' /\ AskedAfterRejection'
  <2> DEFINE r == [document |-> d, requested |-> instance[d],
                   action |-> "MANUAL_APPROVAL", status |-> "PENDING"]
  <2>1. r \in ApprovalRow
    BY <1>4 DEF RequestManualApproval, ApprovalRow, RejectionInv, WorkflowTypeOK
  <2>2. PICK a \in Approval : Raises(a, d, r)
    BY <1>4, <2>1 DEF RequestManualApproval, Raises
  <2>3. approval'[a] = r /\ \A b \in Approval \ {a} : approval'[b] = approval[b]
    BY <2>2 DEF Raises, RejectionInv, WorkflowTypeOK
  <2>4. status' = status /\ instance' = instance
    BY <1>4 DEF RequestManualApproval
  <2>5. OnePending'
    BY <2>2, RaisingKeepsOnePending DEF RejectionInv
  <2>6. \A b \in Approval : Gated(b)' => b # a /\ Gated(b)
    BY <2>3 DEF Gated
  <2>7. StandsSubmitted'
    BY <2>3, <2>4, <2>6 DEF RejectionInv, StandsSubmitted
  <2>8. AskedAfterRejection'
    <3> SUFFICES ASSUME NEW b \in Approval, NEW c \in Approval, Rejected(b)',
                        approval'[c] # None, approval'[c].status = "PENDING",
                        approval'[c].document = approval'[b].document
                 PROVE  approval'[c].requested = "SUBMITTED"
      BY DEF AskedAfterRejection
    <3>1. Rejected(b) /\ Gated(b) /\ approval'[b] = approval[b]
      BY <2>3, <2>6 DEF Rejected
    <3>2. CASE c = a
      BY <2>3, <3>1, <3>2 DEF RejectionInv, StandsSubmitted
    <3>3. CASE c # a
      BY <2>3, <3>1, <3>3 DEF RejectionInv, AskedAfterRejection
    <3> QED
      BY <3>2, <3>3
  <2> QED
    BY <2>5, <2>7, <2>8
<1>5. ASSUME NEW a \in Approval, NEW decision \in {"APPROVED", "REJECTED"}, Decide(a, decision)
      PROVE  OnePending' /\ StandsSubmitted' /\ AskedAfterRejection'
  <2> DEFINE e == approval[a].document
  <2>1. /\ \A b \in Approval \ {a} : approval'[b] = approval[b]
        /\ approval[a] \in ApprovalRow
        /\ approval'[a] = [approval[a] EXCEPT !.status = decision]
    BY <1>5 DEF Decide, RejectionInv, WorkflowTypeOK
  <2>2. /\ approval'[a].document = e
        /\ approval'[a].action = approval[a].action
        /\ approval'[a].status = decision
    BY <2>1 DEF ApprovalRow
  <2>3. e \in Document /\ a \in PendingFor(e)
    BY <1>5, <2>1 DEF Decide, PendingFor, ApprovalRow
  <2>4. \A b \in Approval \ {a} : b \notin PendingFor(e)
    BY <2>3 DEF RejectionInv, OnePending
  <2>5. status' = status
    BY <1>5 DEF Decide
  <2>6. OnePending'
    <3>1. \A d \in Document : PendingFor(d)' \subseteq PendingFor(d)
      BY <2>1, <2>2 DEF PendingFor
    <3> QED
      BY <3>1 DEF RejectionInv, OnePending
  <2>7. StandsSubmitted'
    <3> SUFFICES ASSUME NEW b \in Approval, Gated(b)'
                 PROVE  /\ instance'[approval'[b].document] = "SUBMITTED"
                        /\ status'[approval'[b].document] = "APPROVED"
      BY DEF StandsSubmitted
    <3>1. CASE b = a
      <4>1. decision = "REJECTED" /\ approval[a].action = "APPROVE"
        BY <2>2, <3>1 DEF Gated
      <4>2. Gated(a)
        BY <1>5, <4>1 DEF Gated, Decide
      <4>3. instance' = instance
        BY <1>5, <4>1 DEF Decide
      <4> QED
        BY <2>2, <2>5, <3>1, <4>2, <4>3 DEF RejectionInv, StandsSubmitted
    <3>2. CASE b # a
      <4>1. Gated(b) /\ approval'[b] = approval[b]
        BY <2>1, <3>2 DEF Gated
      <4>2. /\ instance[approval[b].document] = "SUBMITTED"
            /\ status[approval[b].document] = "APPROVED"
        BY <4>1 DEF RejectionInv, StandsSubmitted
      <4>3. CASE decision = "APPROVED" /\ approval[b].document = e
        <5>1. approval[b] \in ApprovalRow
          BY <4>1 DEF Gated, RejectionInv, WorkflowTypeOK
        <5>2. Rejected(b)
          BY <2>4, <3>2, <4>1, <4>3, <5>1 DEF PendingFor, Rejected, Gated, ApprovalRow
        <5>3. approval[a].requested = "SUBMITTED"
          BY <1>5, <4>3, <5>2 DEF RejectionInv, AskedAfterRejection, Decide
        <5>4. instance' = [instance EXCEPT ![e] = "SUBMITTED"]
          BY <1>5, <4>3, <5>3 DEF Decide
        <5> QED
          BY <2>3, <2>5, <4>1, <4>2, <4>3, <5>4 DEF RejectionInv, WorkflowTypeOK
      <4>4. CASE decision # "APPROVED" \/ approval[b].document # e
        <5>1. approval[b].document \in Document
          BY <4>1 DEF Gated, RejectionInv, WorkflowTypeOK, ApprovalRow
        <5>2. instance'[approval[b].document] = instance[approval[b].document]
          BY <1>5, <4>4, <5>1 DEF Decide, RejectionInv, WorkflowTypeOK
        <5> QED
          BY <2>5, <4>1, <4>2, <5>2
      <4> QED
        BY <4>3, <4>4
    <3> QED
      BY <3>1, <3>2
  <2>8. AskedAfterRejection'
    <3> SUFFICES ASSUME NEW b \in Approval, NEW c \in Approval, Rejected(b)',
                        approval'[c] # None, approval'[c].status = "PENDING",
                        approval'[c].document = approval'[b].document
                 PROVE  approval'[c].requested = "SUBMITTED"
      BY DEF AskedAfterRejection
    <3>1. c # a /\ approval'[c] = approval[c]
      BY <2>1, <2>2
    <3>2. b # a
      <4>1. c \notin PendingFor(e)
        BY <2>4, <3>1
      <4> QED
        BY <2>2, <3>1, <4>1 DEF PendingFor
    <3>3. Rejected(b) /\ approval'[b] = approval[b]
      BY <2>1, <3>2 DEF Rejected, Gated
    <3> QED
      BY <3>1, <3>3 DEF RejectionInv, AskedAfterRejection
  <2> QED
    BY <2>6, <2>7, <2>8
<1>6. CASE UNCHANGED <<status, instance, approval>>
  BY <1>6 DEF RejectionInv, OnePending, PendingFor, StandsSubmitted, AskedAfterRejection,
              Rejected, Gated
<1> QED
  BY <1>1, <1>2, <1>3, <1>4, <1>5, <1>6
  DEF DocumentNext, CreateDefinition, CreateVersion, AddTransition

LEMMA ReservedKeepsRejections ==
  ASSUME RejectionInv, NEW p \in MealPlan, MarkReserved(p)
  PROVE  OnePending' /\ StandsSubmitted' /\ AskedAfterRejection'
<1>1. /\ p \in Document
      /\ Apply(p, "RESERVE_MATERIALS", "APPROVED")
      /\ status' = [status EXCEPT ![p] = "MATERIAL_RESERVED"]
  BY DEF Document, MarkReserved
<1>2. \A a \in Approval : Gated(a) => approval[a].document # p
  BY <1>1 DEF Apply, RejectionInv, StandsSubmitted
<1>3. "MATERIAL_RESERVED" \in Status
  BY DEF Status
<1> QED
  BY <1>1, <1>2, <1>3, ApplyKeepsRejections

LEMMA RejectionInvNext == RejectionInv /\ [WorkflowNext]_workflowVars => RejectionInv'
<1> SUFFICES ASSUME RejectionInv, [WorkflowNext]_workflowVars
             PROVE  RejectionInv'
  OBVIOUS
<1>1. CASE DocumentNext
  <2>1. WorkflowTypeOK'
    BY <1>1, DocumentTyped DEF RejectionInv
  <2> QED
    BY <1>1, <2>1, RejectionInvStep DEF RejectionInv
<1>2. CASE \E p \in MealPlan : MarkReserved(p)
  <2>1. PICK p \in MealPlan : MarkReserved(p)
    BY <1>2
  <2>2. WorkflowTypeOK'
    BY <2>1, ReservedTyped DEF RejectionInv
  <2> QED
    BY <2>1, <2>2, ReservedKeepsRejections DEF RejectionInv
<1>3. CASE UNCHANGED workflowVars
  BY <1>3 DEF workflowVars, RejectionInv, WorkflowTypeOK, OnePending, PendingFor,
              StandsSubmitted, AskedAfterRejection, Rejected, Gated
<1> QED
  BY <1>1, <1>2, <1>3 DEF WorkflowNext

LEMMA RejectionInvAlways == WorkflowSpec => []RejectionInv
<1>1. WorkflowInit => RejectionInv
  <2> SUFFICES ASSUME WorkflowInit PROVE RejectionInv
    OBVIOUS
  <2>1. \A a \in Approval : approval[a] = None
    BY DEF WorkflowInit
  <2> QED
    BY <2>1, WorkflowInitTyped
    DEF RejectionInv, OnePending, PendingFor, StandsSubmitted, AskedAfterRejection,
        Rejected, Gated
<1> QED
  BY <1>1, RejectionInvNext, PTL DEF WorkflowSpec

(***************************************************************************)
(* A rejected approval is never undone by a later request or decision,     *)
(* whatever transitions, gated or not, the tenant has defined.             *)
(***************************************************************************)
THEOREM RejectionsStayFinal == WorkflowSpec => []RejectionIsFinal
<1>1. RejectionInv => RejectionIsFinal
  BY DEF RejectionInv, StandsSubmitted, Gated, RejectionIsFinal
<1> QED
  BY <1>1, RejectionInvAlways, PTL

(***************************************************************************)
(* No document ever has two undecided requests, so the query for the       *)
(* pending one never finds two.                                            *)
(***************************************************************************)
THEOREM OneRequestAtATime == WorkflowSpec => []OnePendingRequest
<1>1. RejectionInv => OnePendingRequest
  <2> SUFFICES ASSUME RejectionInv, NEW d \in Document
               PROVE  Cardinality(PendingFor(d)) <= 1
    BY DEF OnePendingRequest
  <2>1. CASE PendingFor(d) = {}
    BY <2>1, FS_EmptySet
  <2>2. CASE PendingFor(d) # {}
    <3>1. PICK a : PendingFor(d) = {a}
      BY <2>2 DEF RejectionInv, OnePending
    <3>2. Cardinality({a}) = 1
      BY FS_Singleton
    <3> QED
      BY <3>1, <3>2
  <2> QED
    BY <2>1, <2>2
<1> QED
  BY <1>1, RejectionInvAlways, PTL

-----------------------------------------------------------------------------
(* Where the workflow stands.                                              *)

\* The status a service writes when it applies a transition of an action, and
\* the state it expects the instance to be in.
StatusOf(action) ==
    CASE action = "SUBMIT"            -> "SUBMITTED"
      [] action = "APPROVE"           -> "APPROVED"
      [] action = "RESERVE_MATERIALS" -> "MATERIAL_RESERVED"

StateBefore(action) ==
    CASE action = "SUBMIT"            -> "DRAFT"
      [] action = "APPROVE"           -> "SUBMITTED"
      [] action = "RESERVE_MATERIALS" -> "APPROVED"

Action == {"SUBMIT", "APPROVE", "RESERVE_MATERIALS"}

\* What a tenant's own transitions may be like.  Nothing in the code asks it
\* of them: a transition that leads further than its service writes, or past
\* the approval, or back, makes what is proved from these conditions false.
LeadNoFurther == \A tr \in CustomTransition : Rank(tr.to) <= Rank(StatusOf(tr.action))

NoShortcut ==
    \A tr \in CustomTransition :
        tr.from = "DRAFT" /\ tr.action = "SUBMIT" => Rank(tr.to) < Rank("APPROVED")

LeadForward ==
    \A tr \in CustomTransition :
        tr.from = StateBefore(tr.action) => Rank(tr.from) <= Rank(tr.to)

LEMMA RanksAreNumbers ==
  /\ \A s \in Status : Rank(s) \in 0 .. 4
  /\ Rank("DRAFT") = 0 /\ Rank("SUBMITTED") = 1 /\ Rank("APPROVED") = 2
  /\ Rank("MATERIAL_RESERVED") = 3
  BY DEF Status, Rank

LEMMA InstalledLeadNoFurther ==
  ASSUME LeadNoFurther, NEW tr \in Installable
  PROVE  Rank(tr.to) <= Rank(StatusOf(tr.action))
<1>1. CASE tr \in CustomTransition
  BY <1>1 DEF LeadNoFurther
<1>2. CASE tr = Submitting
  BY <1>2, RanksAreNumbers DEF Submitting, StatusOf
<1>3. CASE tr = Approving
  BY <1>3, RanksAreNumbers DEF Approving, StatusOf
<1>4. CASE tr = Reserving
  BY <1>4, RanksAreNumbers DEF Reserving, StatusOf
<1> QED
  BY <1>1, <1>2, <1>3, <1>4 DEF Installable

LEMMA InstalledTakeNoShortcut ==
  ASSUME NoShortcut, NEW tr \in Installable, tr.from = "DRAFT", tr.action = "SUBMIT"
  PROVE  Rank(tr.to) < Rank("APPROVED")
  BY RanksAreNumbers DEF NoShortcut, Installable, Submitting, Approving, Reserving

LEMMA InstalledLeadForward ==
  ASSUME LeadForward, NEW tr \in Installable, tr.from = StateBefore(tr.action)
  PROVE  Rank(tr.from) <= Rank(tr.to)
<1>1. CASE tr \in CustomTransition
  BY <1>1 DEF LeadForward
<1>2. CASE tr = Submitting
  BY <1>2, RanksAreNumbers DEF Submitting
<1>3. CASE tr = Approving
  BY <1>3, RanksAreNumbers DEF Approving
<1>4. CASE tr = Reserving
  BY <1>4, RanksAreNumbers DEF Reserving
<1> QED
  BY <1>1, <1>2, <1>3, <1>4 DEF Installable

\* The request that a transition of its own type raises on a document.
RaisedBy(d, tr) ==
    [document |-> d, requested |-> tr.to, action |-> tr.action, status |-> "PENDING"]

\* What it takes to apply a transition, and what it does.
Fires(tr, d, action, expected) ==
    /\ tr \in Keyed(TypeOf(d), expected, action)
    /\ tr \in Installable
    /\ tr.from = expected /\ tr.action = action
    /\ tr.to \in Status
    /\ \/ /\ tr.gated
          /\ \E a \in Approval : Raises(a, d, RaisedBy(d, tr))
          /\ UNCHANGED instance
       \/ /\ ~tr.gated
          /\ instance' = [instance EXCEPT ![d] = tr.to]
          /\ UNCHANGED approval

LEMMA ApplyFires ==
  ASSUME WorkflowTypeOK, NEW d \in Document, NEW action \in Action, NEW expected,
         Apply(d, action, expected)
  PROVE  /\ instance[d] = expected
         /\ \E tr : Fires(tr, d, action, expected)
<1>1. definition[TypeOf(d)] \in SUBSET Installable
  BY DEF WorkflowTypeOK, Apply, DocType
<1>2. PICK tr \in Keyed(TypeOf(d), expected, action) :
         \/ /\ tr.gated
            /\ PendingFor(d) = {}
            /\ \E a \in Approval :
                  /\ approval[a] = None
                  /\ approval' = [approval EXCEPT ![a] =
                      [document |-> d, requested |-> tr.to,
                       action |-> action, status |-> "PENDING"]]
            /\ UNCHANGED instance
         \/ /\ ~tr.gated
            /\ instance' = [instance EXCEPT ![d] = tr.to]
            /\ UNCHANGED approval
  BY DEF Apply
<1>3. tr \in Installable /\ tr.from = expected /\ tr.action = action
  BY <1>1, <1>2 DEF Keyed
<1>4. tr.to \in Status
  BY <1>3, InstallableAreTransitions DEF Transition
<1>5. [document |-> d, requested |-> tr.to, action |-> action, status |-> "PENDING"]
         = RaisedBy(d, tr) /\ RaisedBy(d, tr) \in ApprovalRow
  BY <1>3, <1>4 DEF RaisedBy, ApprovalRow, Action
<1>6. ASSUME NEW a \in Approval, PendingFor(d) = {}, approval[a] = None,
             approval' = [approval EXCEPT ![a] = RaisedBy(d, tr)]
      PROVE  Raises(a, d, RaisedBy(d, tr))
  BY <1>5, <1>6 DEF Raises, RaisedBy
<1>7. Fires(tr, d, action, expected)
  BY <1>2, <1>3, <1>4, <1>5, <1>6 DEF Fires
<1> QED
  BY <1>7 DEF Apply

-----------------------------------------------------------------------------
(* The status leads.                                                       *)

\* A document in status st has been where an instance in state s stands.
AtLeast(st, s) == st # None /\ Rank(s) <= Rank(st)

Leads(st, s) == IF st = None THEN s = None ELSE s # None /\ Rank(s) <= Rank(st)

\* Requests, too, only ask for what the document has been in: the decision
\* may come late, and statuses only rise.
LeadInv ==
    /\ WorkflowTypeOK
    /\ \A d \in Document : Leads(status[d], instance[d])
    /\ \A a \in Approval :
          approval[a] # None => AtLeast(status[approval[a].document], approval[a].requested)

Rises == \A d \in Document : status[d] # None => AtLeast(status'[d], status[d])

\* A request that lets statuses rise, moves instances and raises requests
\* within them.
LEMMA LeadKept ==
  ASSUME LeadInv, WorkflowTypeOK', Rises,
         \A d \in Document :
            \/ instance'[d] = instance[d] /\ (status'[d] = None <=> status[d] = None)
            \/ Leads(status'[d], instance'[d]),
         \A a \in Approval : approval'[a] # None =>
            \/ /\ approval[a] # None
               /\ approval'[a].document = approval[a].document
               /\ approval'[a].requested = approval[a].requested
            \/ AtLeast(status'[approval'[a].document], approval'[a].requested)
  PROVE  LeadInv'
<1>1. \A s \in Status : Rank(s) \in Int
  BY RanksAreNumbers
<1>2. ASSUME NEW d \in Document
      PROVE  Leads(status'[d], instance'[d])
  <2>1. CASE Leads(status'[d], instance'[d])
    BY <2>1
  <2>2. CASE instance'[d] = instance[d] /\ (status'[d] = None <=> status[d] = None)
    <3>1. Leads(status[d], instance[d])
      BY DEF LeadInv
    <3>2. /\ status[d] \in Status \cup {None} /\ status'[d] \in Status \cup {None}
          /\ instance[d] \in Status \cup {None}
      BY DEF LeadInv, WorkflowTypeOK
    <3>3. status[d] # None => Rank(status[d]) <= Rank(status'[d])
      BY DEF Rises, AtLeast
    <3> QED
      BY <1>1, <2>2, <3>1, <3>2, <3>3 DEF Leads
  <2> QED
    BY <2>1, <2>2
<1>3. ASSUME NEW a \in Approval, approval'[a] # None
      PROVE  AtLeast(status'[approval'[a].document], approval'[a].requested)
  <2>1. CASE AtLeast(status'[approval'[a].document], approval'[a].requested)
    BY <2>1
  <2>2. CASE /\ approval[a] # None
             /\ approval'[a].document = approval[a].document
             /\ approval'[a].requested = approval[a].requested
    <3> DEFINE d == approval[a].document
               s == approval[a].requested
    <3>1. d \in Document /\ s \in Status
      BY <2>2 DEF LeadInv, WorkflowTypeOK, ApprovalRow
    <3>2. AtLeast(status[d], s)
      BY <2>2 DEF LeadInv
    <3>3. AtLeast(status'[d], status[d]) /\ status[d] \in Status /\ status'[d] \in Status
      BY <3>1, <3>2 DEF Rises, AtLeast, LeadInv, WorkflowTypeOK
    <3> HIDE DEF d, s
    <3>4. AtLeast(status'[d], s)
      BY <1>1, <3>1, <3>2, <3>3 DEF AtLeast
    <3> QED
      BY <2>2, <3>4 DEF d, s
  <2> QED
    BY <1>3, <2>1, <2>2
<1> QED
  BY <1>2, <1>3 DEF LeadInv

\* A service that writes its status and applies its transition.
LEMMA ApplyLeads ==
  ASSUME LeadInv, LeadNoFurther, NEW d \in Document, NEW action \in Action, NEW expected,
         Apply(d, action, expected), Rank(status[d]) <= Rank(StatusOf(action)),
         status' = [status EXCEPT ![d] = StatusOf(action)], WorkflowTypeOK'
  PROVE  LeadInv'
<1> DEFINE s == StatusOf(action)
<1>1. PICK tr : Fires(tr, d, action, expected)
  BY ApplyFires DEF LeadInv
<1>2. s \in Status /\ s # None
  BY NoneIsNoState DEF Action, StatusOf, Status
<1>3. status'[d] = s /\ \A e \in Document \ {d} : status'[e] = status[e]
  BY DEF LeadInv, WorkflowTypeOK
<1>4. \A r \in Status : Rank(r) \in Int
  BY RanksAreNumbers
<1>5. Rises
  <2>1. \A e \in Document : status[e] # None => status[e] \in Status
    BY DEF LeadInv, WorkflowTypeOK
  <2> HIDE DEF s
  <2> QED
    BY <1>2, <1>3, <1>4, <2>1 DEF Rises, AtLeast, s
<1>6. tr.to \in Status /\ tr.to # None /\ Rank(tr.to) <= Rank(s)
  BY <1>1, InstalledLeadNoFurther, NoneIsNoState DEF Fires
<1> HIDE DEF s
<1>7. AtLeast(status'[d], tr.to) /\ Leads(status'[d], tr.to)
  BY <1>2, <1>3, <1>6 DEF AtLeast, Leads
<1>8. CASE tr.gated
  <2>1. PICK a \in Approval : Raises(a, d, RaisedBy(d, tr))
    BY <1>1, <1>8 DEF Fires
  <2>2. /\ approval'[a] = RaisedBy(d, tr)
        /\ \A b \in Approval \ {a} : approval'[b] = approval[b]
        /\ instance' = instance
    BY <1>1, <1>8, <2>1 DEF Raises, LeadInv, WorkflowTypeOK, Fires
  <2>3. AtLeast(status'[approval'[a].document], approval'[a].requested)
    BY <1>7, <2>2 DEF RaisedBy
  <2>4. status[d] # None
    <3>1. instance[d] # None
      <4>1. instance[d] = expected /\ expected = tr.from
        BY <1>1, ApplyFires DEF LeadInv, Fires
      <4>2. tr.from \in Status
        BY <1>1, InstallableAreTransitions DEF Fires, Transition
      <4> QED
        BY <4>1, <4>2, NoneIsNoState
    <3> QED
      BY <3>1 DEF LeadInv, Leads
  <2>5. \A e \in Document : status'[e] = None <=> status[e] = None
    BY <1>2, <1>3, <2>4
  <2> QED
    BY <1>5, <2>2, <2>3, <2>5, LeadKept
<1>9. CASE ~tr.gated
  <2>1. approval' = approval
    BY <1>1, <1>9 DEF Fires
  <2>2. /\ instance'[d] = tr.to
        /\ \A e \in Document \ {d} : instance'[e] = instance[e]
    BY <1>1, <1>9 DEF Fires, LeadInv, WorkflowTypeOK
  <2> QED
    BY <1>3, <1>5, <1>7, <2>1, <2>2, LeadKept
<1> QED
  BY <1>8, <1>9

LEMMA LeadInvStep ==
  ASSUME LeadInv, LeadNoFurther, DocumentNext
  PROVE  LeadInv'
<1> USE DEF LeadInv
<1>1. WorkflowTypeOK'
  BY DocumentTyped
<1>2. \A s \in Status : Rank(s) \in 0 .. 4
  BY RanksAreNumbers
<1>3. ASSUME NEW d \in Document, NEW s \in ClientStatus, CreateDocument(d, s)
      PROVE  LeadInv'
  <2>1. status[d] = None /\ instance[d] = None
    BY <1>3 DEF CreateDocument, Leads
  <2>2. /\ status'[d] = s /\ \A e \in Document \ {d} : status'[e] = status[e]
        /\ instance'[d] = "DRAFT" /\ \A e \in Document \ {d} : instance'[e] = instance[e]
        /\ approval' = approval
    BY <1>3, <2>1 DEF CreateDocument, EnsureInstance, WorkflowTypeOK
  <2>3. s \in Status /\ s # None /\ "DRAFT" # None
    BY ClientStatusesAreStatuses, NoneIsNoState DEF Status
  <2>4. Leads(status'[d], instance'[d])
    BY <1>2, <2>2, <2>3, RanksAreNumbers DEF Leads
  <2>5. Rises
    BY <1>2, <2>1, <2>2 DEF Rises, AtLeast, WorkflowTypeOK
  <2> HIDE DEF LeadInv
  <2> QED
    BY <1>1, <2>2, <2>4, <2>5, LeadKept
<1>4. ASSUME NEW d \in Document, Submit(d)
      PROVE  LeadInv'
  <2>1. /\ Apply(d, "SUBMIT", "DRAFT") /\ status[d] = "DRAFT"
        /\ status' = [status EXCEPT ![d] = StatusOf("SUBMIT")]
    BY <1>4 DEF Submit, StatusOf
  <2>2. Rank(status[d]) <= Rank(StatusOf("SUBMIT")) /\ "SUBMIT" \in Action
    BY <2>1, RanksAreNumbers DEF StatusOf, Action
  <2> HIDE DEF LeadInv
  <2> QED
    BY <1>1, <2>1, <2>2, ApplyLeads
<1>5. ASSUME NEW d \in Document, Approve(d)
      PROVE  LeadInv'
  <2>1. /\ Apply(d, "APPROVE", "SUBMITTED") /\ status[d] = "SUBMITTED"
        /\ status' = [status EXCEPT ![d] = StatusOf("APPROVE")]
    BY <1>5 DEF Approve, StatusOf
  <2>2. Rank(status[d]) <= Rank(StatusOf("APPROVE")) /\ "APPROVE" \in Action
    BY <2>1, RanksAreNumbers DEF StatusOf, Action
  <2> HIDE DEF LeadInv
  <2> QED
    BY <1>1, <2>1, <2>2, ApplyLeads
<1>6. ASSUME NEW d \in Document, RequestManualApproval(d)
      PROVE  LeadInv'
  <2> DEFINE r == [document |-> d, requested |-> instance[d],
                   action |-> "MANUAL_APPROVAL", status |-> "PENDING"]
  <2>1. PICK a \in Approval : approval' = [approval EXCEPT ![a] = r]
    BY <1>6 DEF RequestManualApproval
  <2>2. approval'[a] = r /\ \A b \in Approval \ {a} : approval'[b] = approval[b]
    BY <2>1 DEF WorkflowTypeOK
  <2>3. status' = status /\ instance' = instance /\ instance[d] # None
    BY <1>6 DEF RequestManualApproval
  <2>4. AtLeast(status'[approval'[a].document], approval'[a].requested)
    BY <2>2, <2>3 DEF Leads, AtLeast
  <2>5. Rises
    BY <1>2, <2>3 DEF Rises, AtLeast, WorkflowTypeOK
  <2> HIDE DEF LeadInv
  <2> QED
    BY <1>1, <2>2, <2>3, <2>4, <2>5, LeadKept
<1>7. ASSUME NEW a \in Approval, NEW decision \in {"APPROVED", "REJECTED"}, Decide(a, decision)
      PROVE  LeadInv'
  <2> DEFINE d == approval[a].document
             s == approval[a].requested
  <2>1. approval[a] \in ApprovalRow /\ approval[a] # None
    BY <1>7 DEF Decide, WorkflowTypeOK
  <2>2. /\ approval'[a] = [approval[a] EXCEPT !.status = decision]
        /\ \A b \in Approval \ {a} : approval'[b] = approval[b]
    BY <1>7 DEF Decide, WorkflowTypeOK
  <2>3. /\ approval'[a].document = approval[a].document
        /\ approval'[a].requested = approval[a].requested
    BY <2>1, <2>2 DEF ApprovalRow
  <2>4. status' = status
    BY <1>7 DEF Decide
  <2>5. Rises
    BY <1>2, <2>4 DEF Rises, AtLeast, WorkflowTypeOK
  <2>6. d \in Document /\ s \in Status /\ s # None
    BY <2>1, NoneIsNoState DEF ApprovalRow
  <2>7. Leads(status'[d], s)
    BY <2>1, <2>4, <2>6 DEF AtLeast, Leads
  <2>8. \A e \in Document : instance'[e] = instance[e] \/ Leads(status'[e], instance'[e])
    BY <1>7, <2>6, <2>7 DEF Decide, WorkflowTypeOK
  <2> HIDE DEF LeadInv
  <2> QED
    BY <1>1, <2>1, <2>2, <2>3, <2>4, <2>5, <2>8, LeadKept
<1>8. CASE UNCHANGED <<status, instance, approval>>
  BY <1>1, <1>8
<1> QED
  BY <1>3, <1>4, <1>5, <1>6, <1>7, <1>8
  DEF DocumentNext, CreateDefinition, CreateVersion, AddTransition

LEMMA ReservedLeads ==
  ASSUME LeadInv, LeadNoFurther, NEW p \in MealPlan, MarkReserved(p)
  PROVE  LeadInv'
<1>1. /\ p \in Document /\ status[p] = "APPROVED"
      /\ Apply(p, "RESERVE_MATERIALS", "APPROVED")
      /\ status' = [status EXCEPT ![p] = StatusOf("RESERVE_MATERIALS")]
  BY DEF Document, MarkReserved, StatusOf
<1>2. /\ Rank(status[p]) <= Rank(StatusOf("RESERVE_MATERIALS"))
      /\ "RESERVE_MATERIALS" \in Action
  BY <1>1, RanksAreNumbers DEF StatusOf, Action
<1>3. WorkflowTypeOK'
  BY ReservedTyped DEF LeadInv
<1> QED
  BY <1>1, <1>2, <1>3, ApplyLeads

(***************************************************************************)
(* If no transition of the tenant's own leads further than its service     *)
(* writes, no sequence of requests and decisions takes a workflow ahead of *)
(* its document.                                                           *)
(***************************************************************************)
THEOREM WorkflowStaysBehind ==
  ASSUME LeadNoFurther
  PROVE  WorkflowSpec => []StatusLeadsWorkflow
<1>1. WorkflowInit => LeadInv
  <2> SUFFICES ASSUME WorkflowInit PROVE LeadInv
    OBVIOUS
  <2> QED
    BY WorkflowInitTyped DEF WorkflowInit, LeadInv, Leads
<1>2. LeadInv /\ [WorkflowNext]_workflowVars => LeadInv'
  <2> SUFFICES ASSUME LeadInv, [WorkflowNext]_workflowVars
               PROVE  LeadInv'
    OBVIOUS
  <2>1. CASE DocumentNext
    BY <2>1, LeadInvStep
  <2>2. CASE \E p \in MealPlan : MarkReserved(p)
    BY <2>2, ReservedLeads
  <2>3. CASE UNCHANGED workflowVars
    BY <2>3 DEF workflowVars, LeadInv, WorkflowTypeOK
  <2> QED
    BY <2>1, <2>2, <2>3 DEF WorkflowNext
<1>3. LeadInv => StatusLeadsWorkflow
  BY DEF LeadInv, Leads, StatusLeadsWorkflow
<1> QED
  BY <1>1, <1>2, <1>3, PTL DEF WorkflowSpec

-----------------------------------------------------------------------------
(* Approval is by decision.                                                *)

Granted(d) == DecidedApproved(d) \/ Ungated(TypeOf(d))

Past(s) == s # None /\ Rank(s) >= Rank("APPROVED")

\* A request that would take a workflow past the approval without being one
\* for it was raised past the approval.
GateInv ==
    /\ \A d \in Document : Past(instance[d]) => Granted(d)
    /\ \A a \in Approval :
          approval[a] # None /\ approval[a].action # "APPROVE" /\ Past(approval[a].requested)
             => Granted(approval[a].document)

\* Decisions stand and definitions only grow.
Lasts ==
    /\ \A a \in Approval :
          approval[a] # None /\ approval[a].status = "APPROVED" => approval'[a] = approval[a]
    /\ \A t \in DocType :
          definition[t] # None => definition'[t] # None /\ definition[t] \subseteq definition'[t]

LEMMA GrantLasts ==
  ASSUME Lasts, NEW d \in Document, Granted(d)
  PROVE  Granted(d)'
<1>1. CASE DecidedApproved(d)
  BY <1>1 DEF DecidedApproved, Lasts, Granted
<1>2. CASE Ungated(TypeOf(d))
  BY <1>2 DEF Ungated, Keyed, DocType, Lasts, Granted
<1> QED
  BY <1>1, <1>2 DEF Granted

\* A request that moves instances and raises requests past the approval only
\* for who was granted it.
LEMMA GateKept ==
  ASSUME WorkflowTypeOK, GateInv, Lasts,
         \A d \in Document : Past(instance'[d]) => Past(instance[d]) \/ Granted(d)',
         \A a \in Approval :
            approval'[a] # None /\ approval'[a].action # "APPROVE" /\ Past(approval'[a].requested)
               => \/ /\ approval[a] # None
                     /\ approval'[a].document = approval[a].document
                     /\ approval'[a].action = approval[a].action
                     /\ approval'[a].requested = approval[a].requested
                  \/ \E d \in Document : approval'[a].document = d /\ Granted(d)'
  PROVE  GateInv'
<1>1. \A d \in Document : Past(instance'[d]) => Granted(d)'
  BY GrantLasts DEF GateInv
<1>2. ASSUME NEW a \in Approval, approval'[a] # None, approval'[a].action # "APPROVE",
             Past(approval'[a].requested)
      PROVE  \E d \in Document : approval'[a].document = d /\ Granted(d)'
  <2>1. CASE /\ approval[a] # None
             /\ approval'[a].document = approval[a].document
             /\ approval'[a].action = approval[a].action
             /\ approval'[a].requested = approval[a].requested
    <3>1. approval[a].document \in Document
      BY <2>1 DEF WorkflowTypeOK, ApprovalRow
    <3>2. Granted(approval[a].document)
      BY <1>2, <2>1 DEF GateInv
    <3> QED
      BY <2>1, <3>1, <3>2, GrantLasts
  <2> QED
    BY <1>2, <2>1
<1> QED
  BY <1>1, <1>2 DEF GateInv, Past

LEMMA ApplyLasts ==
  ASSUME WorkflowTypeOK, NEW d \in Document, NEW tr, NEW action, NEW expected,
         Fires(tr, d, action, expected), UNCHANGED definition
  PROVE  Lasts
<1>1. \A a \in Approval : approval'[a] = approval[a] \/ approval[a] = None
  BY DEF Fires, Raises, WorkflowTypeOK
<1> QED
  BY <1>1 DEF Lasts

LEMMA ApplyIsGranted ==
  ASSUME WorkflowTypeOK, GateInv, NoShortcut, NEW d \in Document, NEW action \in Action,
         Apply(d, action, StateBefore(action)), UNCHANGED definition
  PROVE  GateInv'
<1> DEFINE from == StateBefore(action)
<1>1. PICK tr : Fires(tr, d, action, from)
  BY ApplyFires
<1>2. instance[d] = from
  BY ApplyFires
<1>3. Lasts
  BY <1>1, ApplyLasts
<1>4. tr.to \in Status /\ Past(tr.to) /\ (action = "APPROVE" => ~tr.gated) => Granted(d)'
  <2> SUFFICES ASSUME Past(tr.to), action = "APPROVE" => ~tr.gated, tr.to \in Status
               PROVE  Granted(d)'
    OBVIOUS
  <2>1. CASE action = "SUBMIT"
    <3>1. tr \in Installable /\ tr.from = "DRAFT" /\ tr.action = "SUBMIT"
      BY <1>1, <2>1 DEF Fires, StateBefore
    <3>2. Rank(tr.to) < Rank("APPROVED")
      BY <3>1, InstalledTakeNoShortcut
    <3> QED
      BY <3>2, RanksAreNumbers DEF Past
  <2>2. CASE action = "APPROVE"
    <3>1. tr \in Keyed(TypeOf(d), "SUBMITTED", "APPROVE") /\ ~tr.gated
      BY <1>1, <2>2 DEF Fires, StateBefore
    <3>2. definition[TypeOf(d)] # None
      BY DEF Apply
    <3>3. Granted(d)
      BY <3>1, <3>2 DEF Ungated, Granted
    <3> QED
      BY <1>3, <3>3, GrantLasts
  <2>3. CASE action = "RESERVE_MATERIALS"
    <3>1. instance[d] = "APPROVED"
      BY <1>2, <2>3 DEF StateBefore
    <3>2. Past(instance[d])
      BY <3>1, RanksAreNumbers, NoneIsNoState DEF Past, Status
    <3> QED
      BY <1>3, <3>2, GrantLasts DEF GateInv
  <2> QED
    BY <2>1, <2>2, <2>3 DEF Action
<1> HIDE DEF from
<1>5. CASE tr.gated
  <2>1. PICK a \in Approval : Raises(a, d, RaisedBy(d, tr))
    BY <1>1, <1>5 DEF Fires
  <2>2. /\ approval'[a] = RaisedBy(d, tr)
        /\ \A b \in Approval \ {a} : approval'[b] = approval[b]
        /\ instance' = instance
    BY <1>1, <1>5, <2>1 DEF Raises, WorkflowTypeOK, Fires
  <2>3. /\ approval'[a].document = d /\ approval'[a].requested = tr.to
        /\ approval'[a].action = action
    BY <1>1, <2>2 DEF RaisedBy, Fires
  <2>4. approval'[a].action # "APPROVE" /\ Past(approval'[a].requested) => Granted(d)'
    BY <1>1, <1>4, <2>3 DEF Fires
  <2> QED
    BY <1>3, <2>2, <2>3, <2>4, GateKept
<1>6. CASE ~tr.gated
  <2>1. /\ approval' = approval /\ instance'[d] = tr.to
        /\ \A e \in Document \ {d} : instance'[e] = instance[e]
    BY <1>1, <1>6 DEF Fires, WorkflowTypeOK
  <2>2. Past(instance'[d]) => Granted(d)'
    BY <1>1, <1>4, <1>6, <2>1 DEF Fires
  <2> QED
    BY <1>3, <2>1, <2>2, GateKept
<1> QED
  BY <1>5, <1>6

LEMMA GateInvStep ==
  ASSUME WorkflowTypeOK, GateInv, NoShortcut, DocumentNext
  PROVE  GateInv'
<1>1. ASSUME NEW t \in DocType, definition[t] = None \/ definition[t] \subseteq definition'[t],
             definition[t] # None => definition'[t] # None,
             \A u \in DocType \ {t} : definition'[u] = definition[u],
             \A d \in Document : instance'[d] = instance[d] \/ instance'[d] = "DRAFT",
             UNCHANGED approval
      PROVE  GateInv'
  <2>1. Lasts
    BY <1>1 DEF Lasts
  <2>2. \A d \in Document : Past(instance'[d]) => Past(instance[d])
    BY <1>1, RanksAreNumbers DEF Past
  <2> QED
    BY <1>1, <2>1, <2>2, GateKept
<1>2. ASSUME NEW t \in DocType, CreateDefinition(t)
      PROVE  GateInv'
  BY <1>1, <1>2 DEF CreateDefinition, WorkflowTypeOK
<1>3. ASSUME NEW t \in DocType, NEW tr \in CustomTransition, AddTransition(t, tr)
      PROVE  GateInv'
  <2>1. definition'[t] = definition[t] \cup {tr} /\ definition[t] \in SUBSET Installable
    BY <1>3 DEF AddTransition, WorkflowTypeOK
  <2>2. definition'[t] # None
    BY <2>1, NoneIsNoState DEF Installable
  <2> QED
    BY <1>1, <1>3, <2>1, <2>2 DEF AddTransition, WorkflowTypeOK
<1>4. ASSUME NEW d \in Document, NEW s \in ClientStatus, CreateDocument(d, s)
      PROVE  GateInv'
  <2> DEFINE t == TypeOf(d)
  <2>1. t \in DocType
    BY DEF DocType
  <2>2. definition[t] # None => definition[t] \in SUBSET Installable
    BY <2>1 DEF WorkflowTypeOK
  <2>3. definition' = [definition EXCEPT ![t] = EnsuredTransitions(t)]
    BY <1>4 DEF CreateDocument
  <2>4. definition[t] # None =>
           /\ definition[t] \subseteq definition'[t]
           /\ definition'[t] \in SUBSET Installable
    BY <2>1, <2>2, <2>3, StandardIsInstallable DEF EnsuredTransitions, WorkflowTypeOK
  <2>5. definition[t] # None => definition'[t] # None
    BY <2>4, NoneIsNoState
  <2>6. \A u \in DocType \ {t} : definition'[u] = definition[u]
    BY <2>3 DEF WorkflowTypeOK
  <2>7. /\ \A e \in Document : instance'[e] = instance[e] \/ instance'[e] = "DRAFT"
        /\ UNCHANGED approval
    BY <1>4 DEF CreateDocument, EnsureInstance, WorkflowTypeOK
  <2> HIDE DEF t
  <2> QED
    BY <1>1, <2>1, <2>4, <2>5, <2>6, <2>7
<1>5. ASSUME NEW d \in Document, Submit(d)
      PROVE  GateInv'
  BY <1>5, ApplyIsGranted DEF Submit, Action, StateBefore
<1>6. ASSUME NEW d \in Document, Approve(d)
      PROVE  GateInv'
  BY <1>6, ApplyIsGranted DEF Approve, Action, StateBefore
<1>7. ASSUME NEW d \in Document, RequestManualApproval(d)
      PROVE  GateInv'
  <2> DEFINE r == [document |-> d, requested |-> instance[d],
                   action |-> "MANUAL_APPROVAL", status |-> "PENDING"]
  <2>1. PICK a \in Approval : approval[a] = None /\ approval' = [approval EXCEPT ![a] = r]
    BY <1>7 DEF RequestManualApproval
  <2>2. approval'[a] = r /\ \A b \in Approval \ {a} : approval'[b] = approval[b]
    BY <2>1 DEF WorkflowTypeOK
  <2>3. instance' = instance /\ definition' = definition
    BY <1>7 DEF RequestManualApproval
  <2>4. Lasts
    BY <2>1, <2>2, <2>3 DEF Lasts
  <2>5. approval'[a].document = d /\ approval'[a].requested = instance[d]
    BY <2>2
  <2>6. Past(approval'[a].requested) => Granted(d)'
    BY <2>4, <2>5, GrantLasts DEF GateInv
  <2> QED
    BY <2>2, <2>3, <2>4, <2>5, <2>6, GateKept
<1>8. ASSUME NEW a \in Approval, NEW decision \in {"APPROVED", "REJECTED"}, Decide(a, decision)
      PROVE  GateInv'
  <2>1. approval[a] \in ApprovalRow /\ approval[a] # None /\ approval[a].status = "PENDING"
    BY <1>8 DEF Decide, WorkflowTypeOK
  <2>2. /\ approval'[a] = [approval[a] EXCEPT !.status = decision]
        /\ \A b \in Approval \ {a} : approval'[b] = approval[b]
    BY <1>8 DEF Decide, WorkflowTypeOK
  <2>3. /\ approval'[a] \in ApprovalRow
        /\ approval'[a].document = approval[a].document
        /\ approval'[a].requested = approval[a].requested
        /\ approval'[a].action = approval[a].action
        /\ approval'[a].status = decision
    BY <2>1, <2>2 DEF ApprovalRow
  <2>4. PICK d \in Document : d = approval[a].document
    BY <2>1 DEF ApprovalRow
  <2>5. Lasts
    BY <1>8, <2>1, <2>2 DEF Lasts, Decide
  <2>6. decision = "APPROVED" /\ Past(approval[a].requested) => Granted(d)'
    <3>1. CASE approval[a].action = "APPROVE" /\ decision = "APPROVED"
      <4>1. approval'[a] # None
        BY <2>3, NoneIsNoState
      <4> QED
        BY <2>3, <2>4, <3>1, <4>1 DEF DecidedApproved, Granted
    <3>2. CASE approval[a].action # "APPROVE"
      <4>1. Past(approval[a].requested) => Granted(d)
        BY <2>1, <2>4, <3>2 DEF GateInv
      <4>2. Granted(d) => Granted(d)'
        BY <2>4, <2>5, GrantLasts
      <4> QED
        BY <4>1, <4>2
    <3> QED
      BY <3>1, <3>2
  <2>7. \A e \in Document : Past(instance'[e]) => Past(instance[e]) \/ Granted(e)'
    BY <1>8, <2>4, <2>6 DEF Decide, WorkflowTypeOK
  <2> QED
    BY <2>1, <2>2, <2>3, <2>5, <2>7, GateKept
<1>9. CASE UNCHANGED <<definition, instance, approval>>
  <2>1. Lasts
    BY <1>9 DEF Lasts
  <2> QED
    BY <1>9, <2>1, GateKept
<1> QED
  BY <1>2, <1>3, <1>4, <1>5, <1>6, <1>7, <1>8, <1>9 DEF DocumentNext, CreateVersion

LEMMA ReservedIsGranted ==
  ASSUME WorkflowTypeOK, GateInv, NoShortcut, NEW p \in MealPlan, MarkReserved(p)
  PROVE  Granted(p) /\ GateInv'
<1>1. p \in Document /\ Apply(p, "RESERVE_MATERIALS", "APPROVED") /\ UNCHANGED definition
  BY DEF Document, MarkReserved
<1>2. Past(instance[p])
  BY <1>1, RanksAreNumbers, NoneIsNoState DEF Apply, Past, Status
<1>3. "RESERVE_MATERIALS" \in Action /\ StateBefore("RESERVE_MATERIALS") = "APPROVED"
  BY DEF Action, StateBefore
<1>4. GateInv'
  BY <1>1, <1>3, ApplyIsGranted
<1> QED
  BY <1>1, <1>2, <1>4 DEF GateInv

LEMMA GateInvInit == WorkflowInit => GateInv
  BY DEF WorkflowInit, GateInv, Past

(***************************************************************************)
(* If no transition of the tenant's own leads from DRAFT past the          *)
(* approval, a workflow gets there by a decision, or by the tenant's wish  *)
(* that none be made, whatever is requested by hand on the way.            *)
(***************************************************************************)
THEOREM ApprovalIsDecided ==
  ASSUME NoShortcut
  PROVE  WorkflowSpec => []ApprovedByDecision
<1>1. WorkflowTypeOK /\ GateInv /\ [WorkflowNext]_workflowVars => GateInv'
  <2> SUFFICES ASSUME WorkflowTypeOK, GateInv, [WorkflowNext]_workflowVars
               PROVE  GateInv'
    OBVIOUS
  <2>1. CASE DocumentNext
    BY <2>1, GateInvStep
  <2>2. CASE \E p \in MealPlan : MarkReserved(p)
    BY <2>2, ReservedIsGranted
  <2>3. CASE UNCHANGED workflowVars
    <3>1. Lasts
      BY <2>3 DEF Lasts, workflowVars
    <3> QED
      BY <2>3, <3>1, GateKept DEF workflowVars
  <2> QED
    BY <2>1, <2>2, <2>3 DEF WorkflowNext
<1>2. GateInv => ApprovedByDecision
  BY DEF GateInv, Past, Granted, ApprovedByDecision
<1> QED
  BY <1>1, <1>2, GateInvInit, WorkflowTypes, PTL DEF WorkflowSpec

-----------------------------------------------------------------------------
(* Back by hand only.                                                      *)

\* While the request of a gated transition is undecided its document stays
\* where the transition starts, and its service has written the status.
StandInv ==
    \A a \in Approval :
        approval[a] # None /\ approval[a].status = "PENDING" /\ approval[a].action \in Action
            => /\ instance[approval[a].document] = StateBefore(approval[a].action)
               /\ status[approval[a].document] = StatusOf(approval[a].action)
               /\ Rank(StateBefore(approval[a].action)) <= Rank(approval[a].requested)

\* What the requests on one document leave of StandInv: those undecided
\* before, of documents that did not move, and those that stand by themselves.
LEMMA StandKept ==
  ASSUME WorkflowTypeOK, StandInv,
         \A a \in Approval :
            approval'[a] # None /\ approval'[a].status = "PENDING"
                                /\ approval'[a].action \in Action
               => \/ /\ approval'[a] = approval[a]
                     /\ instance'[approval[a].document] = instance[approval[a].document]
                     /\ status'[approval[a].document] = status[approval[a].document]
                  \/ /\ instance'[approval'[a].document] = StateBefore(approval'[a].action)
                     /\ status'[approval'[a].document] = StatusOf(approval'[a].action)
                     /\ Rank(StateBefore(approval'[a].action)) <= Rank(approval'[a].requested)
  PROVE  StandInv'
  BY DEF StandInv

Forward(d) ==
    instance[d] # None => instance'[d] \in Status /\ Rank(instance[d]) <= Rank(instance'[d])

LEMMA StayingIsForward ==
  ASSUME WorkflowTypeOK, NEW d \in Document, instance'[d] = instance[d]
  PROVE  Forward(d)
  BY RanksAreNumbers DEF Forward, WorkflowTypeOK

\* A service that writes its status and applies its transition, to a document
\* no gated request waits for.
LEMMA ApplyStands ==
  ASSUME WorkflowTypeOK, StandInv, LeadForward, NEW d \in Document, NEW action \in Action,
         Apply(d, action, StateBefore(action)), status' = [status EXCEPT ![d] = StatusOf(action)],
         \A a \in Approval :
            approval[a] # None /\ approval[a].status = "PENDING" /\ approval[a].action \in Action
               => approval[a].document # d
  PROVE  StandInv' /\ \A e \in Document : Forward(e)
<1> DEFINE from == StateBefore(action)
<1>1. PICK tr : Fires(tr, d, action, from)
  BY ApplyFires
<1>2. instance[d] = from
  BY ApplyFires
<1>3. Rank(from) <= Rank(tr.to)
  BY <1>1, InstalledLeadForward DEF Fires
<1>4. /\ StatusOf(action) \in Status
      /\ status'[d] = StatusOf(action)
      /\ \A e \in Document \ {d} : status'[e] = status[e]
  BY DEF WorkflowTypeOK, StatusOf, Action, Status
<1>5. \A a \in Approval : approval[a] # None => approval[a].document \in Document
  BY DEF WorkflowTypeOK, ApprovalRow
<1> HIDE DEF from
<1>6. CASE tr.gated
  <2>1. PICK a \in Approval : Raises(a, d, RaisedBy(d, tr))
    BY <1>1, <1>6 DEF Fires
  <2>2. /\ approval'[a] = RaisedBy(d, tr)
        /\ \A b \in Approval \ {a} : approval'[b] = approval[b]
        /\ instance' = instance
    BY <1>1, <1>6, <2>1 DEF Raises, WorkflowTypeOK, Fires
  <2>3. /\ approval'[a].document = d /\ approval'[a].requested = tr.to
        /\ approval'[a].action = action
    BY <1>1, <2>2 DEF RaisedBy, Fires
  <2>4. /\ instance'[approval'[a].document] = StateBefore(approval'[a].action)
        /\ status'[approval'[a].document] = StatusOf(approval'[a].action)
        /\ Rank(StateBefore(approval'[a].action)) <= Rank(approval'[a].requested)
    BY <1>2, <1>3, <1>4, <2>2, <2>3 DEF from
  <2>5. ASSUME NEW b \in Approval \ {a}, approval'[b] # None, approval'[b].status = "PENDING",
               approval'[b].action \in Action
        PROVE  /\ approval'[b] = approval[b]
               /\ instance'[approval[b].document] = instance[approval[b].document]
               /\ status'[approval[b].document] = status[approval[b].document]
    BY <1>4, <1>5, <2>2, <2>5
  <2>6. StandInv'
    BY <2>4, <2>5, StandKept
  <2> QED
    BY <2>2, <2>6, StayingIsForward
<1>7. CASE ~tr.gated
  <2>1. /\ approval' = approval /\ instance'[d] = tr.to
        /\ \A e \in Document \ {d} : instance'[e] = instance[e]
    BY <1>1, <1>7 DEF Fires, WorkflowTypeOK
  <2>2. StandInv'
    BY <1>4, <1>5, <2>1, StandKept
  <2>3. Forward(d)
    BY <1>1, <1>2, <1>3, <2>1 DEF Forward, Fires
  <2> QED
    BY <2>1, <2>2, <2>3, StayingIsForward
<1> QED
  BY <1>6, <1>7

LEMMA StandInvStep ==
  ASSUME RejectionInv, StandInv, LeadForward, DocumentNext
  PROVE  /\ StandInv'
         /\ \A d \in Document : Forward(d) \/ \E a \in PendingFor(d) :
               approval[a].action = "MANUAL_APPROVAL" /\ approval'[a].status = "APPROVED"
<1>1. WorkflowTypeOK /\ OnePending
  BY DEF RejectionInv
<1>2. \A a \in Approval : approval[a] # None => approval[a] \in ApprovalRow
  BY <1>1 DEF WorkflowTypeOK
<1>3. ASSUME NEW d \in Document, NEW s \in ClientStatus, CreateDocument(d, s)
      PROVE  StandInv' /\ \A e \in Document : Forward(e)
  <2>1. /\ approval' = approval
        /\ status[d] = None
        /\ \A e \in Document \ {d} : status'[e] = status[e] /\ instance'[e] = instance[e]
    BY <1>1, <1>3 DEF CreateDocument, EnsureInstance, WorkflowTypeOK
  <2>2. \A action \in Action : StatusOf(action) \in Status
    BY DEF Action, StatusOf, Status
  <2>3. \A a \in Approval :
           approval[a] # None /\ approval[a].status = "PENDING" /\ approval[a].action \in Action
              => approval[a].document \in Document \ {d}
    BY <1>2, <2>1, <2>2, NoneIsNoState DEF StandInv, ApprovalRow
  <2>4. StandInv'
    BY <1>1, <2>1, <2>3, StandKept
  <2>5. instance[d] # None => instance'[d] = instance[d]
    BY <1>1, <1>3 DEF CreateDocument, EnsureInstance, WorkflowTypeOK
  <2> QED
    BY <1>1, <2>1, <2>4, <2>5, StayingIsForward DEF Forward
<1>4. ASSUME NEW d \in Document, Submit(d)
      PROVE  StandInv' /\ \A e \in Document : Forward(e)
  <2>1. /\ Apply(d, "SUBMIT", StateBefore("SUBMIT")) /\ status[d] = "DRAFT"
        /\ status' = [status EXCEPT ![d] = StatusOf("SUBMIT")] /\ "SUBMIT" \in Action
    BY <1>4 DEF Submit, StatusOf, StateBefore, Action
  <2>2. \A action \in Action : StatusOf(action) # "DRAFT"
    BY DEF Action, StatusOf
  <2>3. \A a \in Approval :
           approval[a] # None /\ approval[a].status = "PENDING" /\ approval[a].action \in Action
              => approval[a].document # d
    BY <2>1, <2>2 DEF StandInv
  <2> QED
    BY <1>1, <2>1, <2>3, ApplyStands
<1>5. ASSUME NEW d \in Document, Approve(d)
      PROVE  StandInv' /\ \A e \in Document : Forward(e)
  <2>1. /\ Apply(d, "APPROVE", StateBefore("APPROVE")) /\ status[d] = "SUBMITTED"
        /\ status' = [status EXCEPT ![d] = StatusOf("APPROVE")] /\ "APPROVE" \in Action
        /\ instance[d] = "SUBMITTED"
    BY <1>5 DEF Approve, StatusOf, StateBefore, Action, Apply
  <2>2. \A action \in Action : StatusOf(action) = "SUBMITTED" => StateBefore(action) = "DRAFT"
    BY DEF Action, StatusOf, StateBefore
  <2>3. \A a \in Approval :
           approval[a] # None /\ approval[a].status = "PENDING" /\ approval[a].action \in Action
              => approval[a].document # d
    BY <2>1, <2>2 DEF StandInv
  <2> QED
    BY <1>1, <2>1, <2>3, ApplyStands
<1>6. ASSUME NEW d \in Document, RequestManualApproval(d)
      PROVE  StandInv' /\ \A e \in Document : Forward(e)
  <2> DEFINE r == [document |-> d, requested |-> instance[d],
                   action |-> "MANUAL_APPROVAL", status |-> "PENDING"]
  <2>1. PICK a \in Approval : approval' = [approval EXCEPT ![a] = r]
    BY <1>6 DEF RequestManualApproval
  <2>2. approval'[a].action = "MANUAL_APPROVAL"
    BY <1>1, <2>1 DEF WorkflowTypeOK
  <2>3. \A b \in Approval \ {a} : approval'[b] = approval[b]
    BY <1>1, <2>1 DEF WorkflowTypeOK
  <2>4. status' = status /\ instance' = instance
    BY <1>6 DEF RequestManualApproval
  <2>5. "MANUAL_APPROVAL" \notin Action
    BY DEF Action
  <2>6. StandInv'
    BY <1>1, <2>2, <2>3, <2>4, <2>5, StandKept
  <2> QED
    BY <1>1, <2>4, <2>6, StayingIsForward
<1>7. ASSUME NEW a \in Approval, NEW decision \in {"APPROVED", "REJECTED"}, Decide(a, decision)
      PROVE  /\ StandInv'
             /\ \A d \in Document : Forward(d) \/ \E b \in PendingFor(d) :
                   approval[b].action = "MANUAL_APPROVAL" /\ approval'[b].status = "APPROVED"
  <2>1. approval[a] # None /\ approval[a].status = "PENDING" /\ approval[a] \in ApprovalRow
    BY <1>2, <1>7 DEF Decide
  <2>2. PICK e \in Document : e = approval[a].document
    BY <2>1 DEF ApprovalRow
  <2>3. /\ approval'[a].status = decision /\ decision # "PENDING"
        /\ \A b \in Approval \ {a} : approval'[b] = approval[b]
    BY <1>1, <1>7, <2>1 DEF Decide, WorkflowTypeOK, ApprovalRow
  <2>4. /\ status' = status
        /\ \A d \in Document \ {e} : instance'[d] = instance[d]
        /\ instance'[e] = IF decision = "APPROVED" THEN approval[a].requested ELSE instance[e]
    BY <1>1, <1>7, <2>2 DEF Decide, WorkflowTypeOK
  <2>5. a \in PendingFor(e)
    BY <2>1, <2>2 DEF PendingFor
  <2>6. \A b \in Approval \ {a} :
           approval[b] # None /\ approval[b].status = "PENDING" => approval[b].document # e
    BY <1>1, <2>5 DEF OnePending, PendingFor
  <2>7. \A b \in Approval : approval[b] # None => approval[b].document \in Document
    BY <1>2 DEF ApprovalRow
  <2>8. StandInv'
    BY <1>1, <2>3, <2>4, <2>6, <2>7, StandKept
  <2>9. CASE approval[a].action \in Action
    <3>1. instance[e] = StateBefore(approval[a].action)
          /\ Rank(StateBefore(approval[a].action)) <= Rank(approval[a].requested)
      BY <2>1, <2>2, <2>9 DEF StandInv
    <3>2. Forward(e)
      BY <1>1, <2>1, <2>4, <3>1, StayingIsForward DEF Forward, ApprovalRow
    <3> QED
      BY <1>1, <2>4, <2>8, <3>2, StayingIsForward
  <2>10. CASE approval[a].action \notin Action
    <3>1. approval[a].action = "MANUAL_APPROVAL"
      BY <2>1, <2>10 DEF ApprovalRow, Action
    <3>2. Forward(e) \/ approval'[a].status = "APPROVED"
      BY <1>1, <2>3, <2>4, StayingIsForward
    <3> QED
      BY <1>1, <2>4, <2>5, <2>8, <3>1, <3>2, StayingIsForward
  <2> QED
    BY <2>9, <2>10
<1>8. ASSUME UNCHANGED <<status, instance, approval>>
      PROVE  StandInv' /\ \A e \in Document : Forward(e)
  <2>1. StandInv'
    BY <1>8 DEF StandInv
  <2> QED
    BY <1>1, <1>8, <2>1, StayingIsForward
<1> QED
  BY <1>3, <1>4, <1>5, <1>6, <1>7, <1>8
  DEF DocumentNext, CreateDefinition, CreateVersion, AddTransition

LEMMA ReservedStands ==
  ASSUME RejectionInv, StandInv, LeadForward, NEW p \in MealPlan, MarkReserved(p)
  PROVE  StandInv' /\ \A d \in Document : Forward(d)
<1>1. /\ p \in Document /\ status[p] = "APPROVED" /\ instance[p] = "APPROVED"
      /\ Apply(p, "RESERVE_MATERIALS", StateBefore("RESERVE_MATERIALS"))
      /\ status' = [status EXCEPT ![p] = StatusOf("RESERVE_MATERIALS")]
      /\ "RESERVE_MATERIALS" \in Action
  BY DEF Document, MarkReserved, StatusOf, StateBefore, Action, Apply
<1>2. \A action \in Action : StatusOf(action) = "APPROVED" => StateBefore(action) = "SUBMITTED"
  BY DEF Action, StatusOf, StateBefore
<1>3. \A a \in Approval :
         approval[a] # None /\ approval[a].status = "PENDING" /\ approval[a].action \in Action
            => approval[a].document # p
  BY <1>1, <1>2 DEF StandInv
<1> QED
  BY <1>1, <1>3, ApplyStands DEF RejectionInv

(***************************************************************************)
(* If no transition a service applies leads back, a workflow goes back     *)
(* only when a request raised by hand is approved late.                    *)
(***************************************************************************)
THEOREM RewindsAreByHand ==
  ASSUME LeadForward
  PROVE  WorkflowSpec => RewoundOnlyByHand
<1> DEFINE Moves ==
             \A d \in Document : Forward(d) \/ \E a \in PendingFor(d) :
                approval[a].action = "MANUAL_APPROVAL" /\ approval'[a].status = "APPROVED"
<1>1. WorkflowInit => StandInv
  BY DEF WorkflowInit, StandInv
<1>2. RejectionInv /\ StandInv /\ [WorkflowNext]_workflowVars => StandInv' /\ Moves
  <2> SUFFICES ASSUME RejectionInv, StandInv, [WorkflowNext]_workflowVars
               PROVE  StandInv' /\ Moves
    OBVIOUS
  <2>1. CASE DocumentNext
    BY <2>1, StandInvStep
  <2>2. CASE \E p \in MealPlan : MarkReserved(p)
    BY <2>2, ReservedStands
  <2>3. CASE UNCHANGED workflowVars
    <3>1. StandInv'
      BY <2>3 DEF workflowVars, StandInv
    <3>2. \A d \in Document : Forward(d)
      BY <2>3, StayingIsForward DEF workflowVars, RejectionInv
    <3> QED
      BY <3>1, <3>2
  <2> QED
    BY <2>1, <2>2, <2>3 DEF WorkflowNext
<1>3. ASSUME RejectionInv, RejectionInv', Moves
      PROVE  \A d \in Document :
                instance[d] # None /\ Rank(instance'[d]) < Rank(instance[d])
                  => \E a \in PendingFor(d) :
                        approval[a].action = "MANUAL_APPROVAL" /\ approval'[a].status = "APPROVED"
  <2> SUFFICES ASSUME NEW d \in Document, instance[d] # None,
                      Rank(instance'[d]) < Rank(instance[d]), Forward(d)
               PROVE  FALSE
    BY <1>3
  <2>1. instance[d] \in Status /\ instance'[d] \in Status
    BY <1>3 DEF Forward, RejectionInv, WorkflowTypeOK
  <2> QED
    BY <2>1, RanksAreNumbers DEF Forward
<1> QED
  BY <1>1, <1>2, <1>3, RejectionInvAlways, PTL DEF WorkflowSpec, RewoundOnlyByHand

-----------------------------------------------------------------------------
(* The kitchen cycle.                                                      *)

CycleInv == TypeOK /\ Solvent /\ DriftIsProductionUse

-----------------------------------------------------------------------------
(* What each request does to one item.                                     *)

\* What reserve_materials may do to an item.
Promised(i) ==
    \E q \in Nat : /\ q <= balance[i].available
                   /\ balance'[i] = SetAside(balance[i], q)

\* What complete_production_order may do to an item.
Fulfilled(i) ==
    \E q \in Nat : /\ q <= balance[i].reserved
                   /\ q > 0 => q <= balance[i].available
                   /\ balance'[i] = IssuedToProduction(balance[i], q)
                   /\ posted'[i] = posted[i] - q
                   /\ consumed'[i] = consumed[i] + q

LEMMA RowIsTyped ==
  ASSUME TypeOK, NEW i \in Item
  PROVE  /\ balance[i] \in BalanceRow
         /\ posted[i] \in Int
         /\ consumed[i] \in Nat
  BY DEF TypeOK, StockTypeOK

LEMMA DrawIsNatural ==
  ASSUME NEW take \in Draw, NEW i \in Item
  PROVE  take[i] \in Nat
  BY BoundsAreNaturals DEF Draw

LEMMA ReservePromises ==
  ASSUME NEW p \in MealPlan, ReserveMaterials(p), NEW i \in Item
  PROVE  Promised(i)
<1>1. PICK take \in Draw : /\ Meets(take, AvailableStock, p)
                           /\ balance' = [j \in Item |-> SetAside(balance[j], take[j])]
  BY DEF ReserveMaterials
<1>2. take[i] \in Nat
  BY DrawIsNatural
<1>3. take[i] <= balance[i].available
  BY <1>1 DEF Meets, AvailableStock
<1>4. balance'[i] = SetAside(balance[i], take[i])
  BY <1>1
<1> QED
  BY <1>2, <1>3, <1>4 DEF Promised

LEMMA CompletionFulfils ==
  ASSUME NEW o \in Order, CompleteProductionOrder(o), NEW i \in Item
  PROVE  Fulfilled(i)
<1>1. PICK take \in Draw :
         /\ Meets(take, ReservedStock, order[o].plan)
         /\ \A j \in Item : take[j] > 0 => balance[j].available >= take[j]
         /\ balance' = [j \in Item |-> IssuedToProduction(balance[j], take[j])]
         /\ posted' = [j \in Item |-> posted[j] - take[j]]
         /\ consumed' = [j \in Item |-> consumed[j] + take[j]]
  BY DEF CompleteProductionOrder
<1>2. take[i] \in Nat
  BY DrawIsNatural
<1>3. take[i] <= balance[i].reserved
  BY <1>1 DEF Meets, ReservedStock
<1>4. take[i] > 0 => take[i] <= balance[i].available
  BY <1>1
<1>5. /\ balance'[i] = IssuedToProduction(balance[i], take[i])
      /\ posted'[i] = posted[i] - take[i]
      /\ consumed'[i] = consumed[i] + take[i]
  BY <1>1
<1> QED
  BY <1>2, <1>3, <1>4, <1>5 DEF Fulfilled

-----------------------------------------------------------------------------
(* The rows stay rows, and keep their arithmetic.                          *)

Covers(row) ==
    /\ row \in BalanceRow
    /\ row.available = row.onHand - row.reserved
    /\ row.reserved >= 0
    /\ row.available >= 0

LEMMA SetAsideCovers ==
  ASSUME NEW row, Covers(row), NEW q \in Nat, q <= row.available
  PROVE  /\ Covers(SetAside(row, q))
         /\ SetAside(row, q).onHand = row.onHand
         /\ SetAside(row, q).reserved = row.reserved + q
  BY DEF Covers, SetAside, BalanceRow

LEMMA IssueCovers ==
  ASSUME NEW row, Covers(row), NEW q \in Nat, q <= row.reserved, q > 0 => q <= row.available
  PROVE  /\ Covers(IssuedToProduction(row, q))
         /\ IssuedToProduction(row, q).onHand = row.onHand - q - q
         /\ IssuedToProduction(row, q).reserved = row.reserved - q
<1>1. CASE q = 0
  BY <1>1 DEF Covers, IssuedToProduction, BalanceRow
<1>2. CASE q > 0
  <2> DEFINE once == TakenFromReserve(row, q)
  <2>1. /\ once \in BalanceRow
        /\ once.onHand = row.onHand - q
        /\ once.reserved = row.reserved - q
        /\ once.available = row.available
    BY DEF TakenFromReserve, Covers, BalanceRow
  <2>2. IssuedToProduction(row, q) = Decreased(once, q)
    BY <1>2 DEF IssuedToProduction
  <2> HIDE DEF once
  <2>3. /\ Decreased(once, q) \in BalanceRow
        /\ Decreased(once, q).onHand = once.onHand - q
        /\ Decreased(once, q).reserved = once.reserved
        /\ Decreased(once, q).available = once.onHand - q - once.reserved
    BY <2>1 DEF Decreased, BalanceRow
  <2> QED
    BY <1>2, <2>1, <2>2, <2>3 DEF Covers, BalanceRow
<1> QED
  BY <1>1, <1>2

-----------------------------------------------------------------------------
(* The invariant.                                                          *)

Reconciles(i) == balance[i].onHand = posted[i] - consumed[i]

LEMMA CycleInvAtItem ==
  ASSUME CycleInv, NEW i \in Item
  PROVE  Covers(balance[i]) /\ Reconciles(i)
  BY RowIsTyped DEF CycleInv, Solvent, DriftIsProductionUse, Covers, Reconciles

LEMMA PromisedItem ==
  ASSUME CycleInv, NEW i \in Item, Promised(i), posted' = posted, consumed' = consumed
  PROVE  /\ Covers(balance'[i]) /\ Reconciles(i)'
         /\ balance'[i].reserved >= balance[i].reserved
<1>1. PICK q \in Nat : q <= balance[i].available /\ balance'[i] = SetAside(balance[i], q)
  BY DEF Promised
<1>2. Covers(balance[i]) /\ Reconciles(i)
  BY CycleInvAtItem
<1>3. /\ Covers(balance'[i])
      /\ balance'[i].onHand = balance[i].onHand
      /\ balance'[i].reserved = balance[i].reserved + q
  BY <1>1, <1>2, SetAsideCovers
<1>4. balance[i].reserved \in Int
  BY <1>2 DEF Covers, BalanceRow
<1> QED
  BY <1>2, <1>3, <1>4 DEF Reconciles

LEMMA FulfilledItem ==
  ASSUME CycleInv, NEW i \in Item, Fulfilled(i)
  PROVE  /\ Covers(balance'[i]) /\ Reconciles(i)'
         /\ posted'[i] \in Int /\ consumed'[i] \in Nat
         /\ balance'[i].reserved <= balance[i].reserved
         /\ posted[i] - posted'[i] = balance[i].reserved - balance'[i].reserved
<1>1. PICK q \in Nat : /\ q <= balance[i].reserved
                       /\ q > 0 => q <= balance[i].available
                       /\ balance'[i] = IssuedToProduction(balance[i], q)
                       /\ posted'[i] = posted[i] - q
                       /\ consumed'[i] = consumed[i] + q
  BY DEF Fulfilled
<1>2. Covers(balance[i]) /\ Reconciles(i)
  BY CycleInvAtItem
<1>3. /\ Covers(balance'[i])
      /\ balance'[i].onHand = balance[i].onHand - q - q
      /\ balance'[i].reserved = balance[i].reserved - q
  BY <1>1, <1>2, IssueCovers
<1>4. balance[i].reserved \in Int /\ balance[i].onHand \in Int
  BY <1>2 DEF Covers, BalanceRow
<1>5. posted[i] \in Int /\ consumed[i] \in Nat
  BY RowIsTyped DEF CycleInv
<1> QED
  BY <1>1, <1>2, <1>3, <1>4, <1>5 DEF Reconciles

LEMMA PostedItem ==
  ASSUME CycleInv, NEW i \in Item, Posted(i), balance'[i] \in BalanceRow,
         posted'[i] \in Int, consumed' = consumed
  PROVE  /\ Covers(balance'[i]) /\ Reconciles(i)'
         /\ balance'[i].reserved = balance[i].reserved
<1>1. Covers(balance[i]) /\ Reconciles(i) /\ posted[i] \in Int /\ consumed[i] \in Nat
  BY CycleInvAtItem, RowIsTyped DEF CycleInv
<1>2. /\ balance'[i].reserved = balance[i].reserved
      /\ balance'[i].onHand - posted'[i] = balance[i].onHand - posted[i]
      /\ balance'[i].available = balance'[i].onHand - balance'[i].reserved
      /\ balance'[i].available >= 0
  BY <1>1, PostedFigures DEF Covers
<1>3. balance[i].onHand \in Int /\ balance'[i].onHand \in Int
  BY <1>1 DEF Covers, BalanceRow
<1> QED
  BY <1>1, <1>2, <1>3 DEF Covers, Reconciles

LEMMA StockRequestKeeps ==
  ASSUME CycleInv, StockNext, UNCHANGED <<workflowVars, kitchenVars>>
  PROVE  CycleInv'
<1>1. StockTypeOK' /\ \A i \in Item : Posted(i)
  BY StockStep DEF CycleInv, TypeOK
<1>2. TypeOK'
  BY <1>1 DEF CycleInv, TypeOK, WorkflowTypeOK, workflowVars, kitchenVars
<1>3. ASSUME NEW i \in Item
      PROVE  Covers(balance'[i]) /\ Reconciles(i)'
  <2>1. balance'[i] \in BalanceRow /\ posted'[i] \in Int
    BY <1>1 DEF StockTypeOK
  <2>2. consumed' = consumed
    BY DEF kitchenVars
  <2> QED
    BY <1>1, <2>1, <2>2, PostedItem
<1> QED
  BY <1>2, <1>3 DEF CycleInv, Solvent, DriftIsProductionUse, Covers, Reconciles

LEMMA ReserveKeeps ==
  ASSUME CycleInv, NEW p \in MealPlan, ReserveMaterials(p)
  PROVE  CycleInv'
<1>1. \A i \in Item : Promised(i)
  BY ReservePromises
<1>2. posted' = posted /\ consumed' = consumed /\ batch' = batch /\ order' = order
  BY DEF ReserveMaterials
<1>3. \A i \in Item : Covers(balance'[i]) /\ Reconciles(i)'
  BY <1>1, <1>2, PromisedItem
<1>4. WorkflowTypeOK'
  BY ReservedTyped DEF ReserveMaterials, CycleInv, TypeOK
<1>5. balance' \in [Item -> BalanceRow]
  <2>1. PICK take \in Draw : balance' = [i \in Item |-> SetAside(balance[i], take[i])]
    BY DEF ReserveMaterials
  <2> QED
    BY <1>3, <2>1 DEF Covers
<1>6. audited' \in SUBSET MealPlan
  BY DEF ReserveMaterials, CycleInv, TypeOK
<1>7. TypeOK'
  BY <1>2, <1>4, <1>5, <1>6 DEF CycleInv, TypeOK, StockTypeOK
<1> QED
  BY <1>3, <1>7 DEF CycleInv, Solvent, DriftIsProductionUse, Covers, Reconciles

LEMMA CompletionKeeps ==
  ASSUME CycleInv, NEW o \in Order, CompleteProductionOrder(o)
  PROVE  CycleInv'
<1>1. \A i \in Item : Fulfilled(i)
  BY CompletionFulfils
<1>2. \A i \in Item : /\ Covers(balance'[i]) /\ Reconciles(i)'
                      /\ posted'[i] \in Int /\ consumed'[i] \in Nat
  BY <1>1, FulfilledItem
<1>3. StockTypeOK' /\ consumed' \in [Item -> Nat]
  <2>1. PICK take \in Draw :
           /\ balance' = [i \in Item |-> IssuedToProduction(balance[i], take[i])]
           /\ posted' = [i \in Item |-> posted[i] - take[i]]
           /\ consumed' = [i \in Item |-> consumed[i] + take[i]]
    BY DEF CompleteProductionOrder
  <2>2. batch' = batch
    BY DEF CompleteProductionOrder
  <2> QED
    BY <1>2, <2>1, <2>2 DEF Covers, CycleInv, TypeOK, StockTypeOK
<1>4. order[o] \in OrderRow
  BY DEF CompleteProductionOrder, CycleInv, TypeOK
<1>5. order' \in [Order -> OrderRow \cup {None}]
  <2>1. [order[o] EXCEPT !.status = "COMPLETED"] \in OrderRow
    BY <1>4 DEF OrderRow
  <2>2. order' = [order EXCEPT ![o] = [order[o] EXCEPT !.status = "COMPLETED"]]
    BY DEF CompleteProductionOrder, CycleInv, TypeOK
  <2> QED
    BY <2>1, <2>2 DEF CycleInv, TypeOK
<1>6. WorkflowTypeOK'
  <2>1. order[o].plan \in Document
    BY <1>4 DEF OrderRow, Document
  <2> QED
    BY <2>1 DEF CompleteProductionOrder, CycleInv, TypeOK, WorkflowTypeOK, Status
<1>7. audited' = audited
  BY DEF CompleteProductionOrder
<1>8. TypeOK'
  BY <1>3, <1>5, <1>6, <1>7 DEF CycleInv, TypeOK
<1> QED
  BY <1>2, <1>8 DEF CycleInv, Solvent, DriftIsProductionUse, Covers, Reconciles

LEMMA CycleInvNext == CycleInv /\ [Next]_vars => CycleInv'
<1> SUFFICES ASSUME CycleInv, [Next]_vars
             PROVE  CycleInv'
  OBVIOUS
<1>1. CASE StockNext /\ UNCHANGED <<workflowVars, kitchenVars>>
  BY <1>1, StockRequestKeeps
<1>2. CASE DocumentNext /\ UNCHANGED <<stockVars, kitchenVars>>
  <2>1. WorkflowTypeOK'
    BY <1>2, DocumentTyped DEF CycleInv, TypeOK
  <2> QED
    BY <1>2, <2>1 DEF CycleInv, TypeOK, StockTypeOK, Solvent, DriftIsProductionUse,
                      stockVars, kitchenVars
<1>3. CASE \E p \in MealPlan : ReserveMaterials(p)
  BY <1>3, ReserveKeeps
<1>4. ASSUME NEW o \in Order, NEW p \in MealPlan, CreateProductionOrder(o, p)
      PROVE  CycleInv'
  <2>1. order' \in [Order -> OrderRow \cup {None}]
    <3>1. [plan |-> p, status |-> "PLANNED"] \in OrderRow
      BY DEF OrderRow
    <3> QED
      BY <1>4, <3>1 DEF CreateProductionOrder, CycleInv, TypeOK
  <2> QED
    BY <1>4, <2>1 DEF CreateProductionOrder, CycleInv, TypeOK, StockTypeOK, WorkflowTypeOK,
                      Solvent, DriftIsProductionUse, stockVars, workflowVars
<1>5. CASE \E o \in Order : CompleteProductionOrder(o)
  BY <1>5, CompletionKeeps
<1>6. CASE UNCHANGED vars
  BY <1>6 DEF CycleInv, TypeOK, StockTypeOK, WorkflowTypeOK, Solvent, DriftIsProductionUse,
              vars, stockVars, workflowVars, kitchenVars
<1> QED
  BY <1>1, <1>2, <1>3, <1>4, <1>5, <1>6 DEF Next

LEMMA CycleInvInit == Init => CycleInv
<1> SUFFICES ASSUME Init PROVE CycleInv
  OBVIOUS
<1>1. TypeOK
  BY StockInitTyped, WorkflowInitTyped DEF Init, TypeOK
<1>2. ASSUME NEW i \in Item
      PROVE  Covers(balance[i]) /\ Reconciles(i)
  <2>1. balance[i] = [onHand |-> 0, reserved |-> 0, available |-> 0]
    BY DEF Init, StockInit
  <2>2. posted[i] = 0 /\ consumed[i] = 0
    BY DEF Init, StockInit
  <2> QED
    BY <2>1, <2>2 DEF Covers, Reconciles, BalanceRow
<1> QED
  BY <1>1, <1>2 DEF CycleInv, Solvent, DriftIsProductionUse, Covers, Reconciles

LEMMA CycleInvAlways == Spec => []CycleInv
  BY CycleInvInit, CycleInvNext, PTL DEF Spec

(***************************************************************************)
(* Stock, workflow, orders and audit keep their types through the whole    *)
(* cycle.                                                                  *)
(***************************************************************************)
THEOREM CycleTypes == Spec => []TypeOK
<1>1. CycleInv => TypeOK
  BY DEF CycleInv
<1> QED
  BY <1>1, CycleInvAlways, PTL

(***************************************************************************)
(* For any number of warehouses, plans and orders, reserved and available  *)
(* stock never fall below zero and always add up to the stock on hand.     *)
(***************************************************************************)
THEOREM CycleStaysSolvent == Spec => []Solvent
<1>1. CycleInv => Solvent
  BY DEF CycleInv
<1> QED
  BY <1>1, CycleInvAlways, PTL

(***************************************************************************)
(* The distance between a balance and the ledger is exactly what           *)
(* production consumed.                                                    *)
(***************************************************************************)
THEOREM DriftIsExact == Spec => []DriftIsProductionUse
<1>1. CycleInv => DriftIsProductionUse
  BY DEF CycleInv
<1> QED
  BY <1>1, CycleInvAlways, PTL

-----------------------------------------------------------------------------
(* Stock is set aside after a decision.                                    *)

LEMMA OnlyReservationsPromise ==
  ASSUME CycleInv, [Next]_vars, NEW i \in Item, balance'[i].reserved > balance[i].reserved
  PROVE  \E p \in MealPlan : ReserveMaterials(p)
<1>1. balance[i].reserved \in Int
  BY DEF CycleInv, TypeOK, StockTypeOK, BalanceRow
<1>2. CASE StockNext /\ UNCHANGED <<workflowVars, kitchenVars>>
  <2>1. Posted(i) /\ StockTypeOK'
    BY <1>2, StockStep DEF CycleInv, TypeOK
  <2>2. balance'[i] \in BalanceRow /\ posted'[i] \in Int /\ consumed' = consumed
    BY <1>2, <2>1 DEF StockTypeOK, kitchenVars
  <2>3. balance'[i].reserved = balance[i].reserved
    BY <2>1, <2>2, PostedItem
  <2> QED
    BY <1>1, <2>3
<1>3. CASE \E o \in Order : CompleteProductionOrder(o)
  <2>1. Fulfilled(i)
    BY <1>3, CompletionFulfils
  <2>2. /\ balance'[i].reserved <= balance[i].reserved
        /\ balance'[i] \in BalanceRow
    BY <2>1, FulfilledItem DEF Covers
  <2> QED
    BY <1>1, <2>2 DEF BalanceRow
<1>4. CASE UNCHANGED balance
  BY <1>1, <1>4
<1> QED
  BY <1>2, <1>3, <1>4 DEF Next, CreateProductionOrder, stockVars, vars

LEMMA GateInvKitchen ==
  ASSUME CycleInv, GateInv, NoShortcut, [Next]_vars
  PROVE  GateInv'
<1>1. WorkflowTypeOK
  BY DEF CycleInv, TypeOK
<1>2. CASE DocumentNext
  BY <1>1, <1>2, GateInvStep
<1>3. CASE \E p \in MealPlan : ReserveMaterials(p)
  BY <1>1, <1>3, ReservedIsGranted DEF ReserveMaterials
<1>4. CASE UNCHANGED <<definition, instance, approval>>
  <2>1. Lasts
    BY <1>4 DEF Lasts
  <2> QED
    BY <1>1, <1>4, <2>1, GateKept
<1> QED
  BY <1>2, <1>3, <1>4
  DEF Next, CreateProductionOrder, CompleteProductionOrder, workflowVars, vars

(***************************************************************************)
(* If no transition of the tenant's own leads from DRAFT past the          *)
(* approval, stock is set aside only for a plan somebody approved, or      *)
(* where nobody has to.                                                    *)
(***************************************************************************)
THEOREM StockWaitsForDecision ==
  ASSUME NoShortcut
  PROVE  Spec => ReserveNeedsDecision
<1>1. CycleInv /\ GateInv /\ [Next]_vars =>
         [(\E i \in Item : balance'[i].reserved > balance[i].reserved)
            => \E p \in MealPlan :
                  /\ status[p] = "APPROVED" /\ status'[p] = "MATERIAL_RESERVED"
                  /\ DecidedApproved(p) \/ Ungated("meal_plan")]_vars
  <2> SUFFICES ASSUME CycleInv, GateInv, [Next]_vars, NEW i \in Item,
                      balance'[i].reserved > balance[i].reserved
               PROVE  \E p \in MealPlan :
                         /\ status[p] = "APPROVED" /\ status'[p] = "MATERIAL_RESERVED"
                         /\ DecidedApproved(p) \/ Ungated("meal_plan")
    OBVIOUS
  <2>1. PICK p \in MealPlan : ReserveMaterials(p)
    BY OnlyReservationsPromise
  <2>2. WorkflowTypeOK
    BY DEF CycleInv, TypeOK
  <2>3. MarkReserved(p)
    BY <2>1 DEF ReserveMaterials
  <2>4. Granted(p) /\ TypeOf(p) = "meal_plan"
    BY <2>2, <2>3, ReservedIsGranted DEF TypeOf
  <2>5. status[p] = "APPROVED" /\ status'[p] = "MATERIAL_RESERVED"
    BY <2>2, <2>3 DEF MarkReserved, WorkflowTypeOK, Document
  <2> QED
    BY <2>4, <2>5 DEF Granted
<1>2. Init => GateInv
  BY GateInvInit DEF Init
<1> QED
  BY <1>1, <1>2, GateInvKitchen, CycleInvAlways, PTL DEF Spec, ReserveNeedsDecision

-----------------------------------------------------------------------------
(* The account of reservations.                                            *)

\* The columns that are summed.
ReservedOf(x) == [w \in Warehouse |-> balance[<<w, x>>].reserved]
NeededBy(x) == [p \in audited |-> Need[p][x]]
UsedBy(x) == [o \in CompletedOrders |-> Need[order[o].plan][x]]

\* A plan is audited once: it never returns to the status reserve_materials
\* asks for.
AccountInv ==
    /\ CycleInv
    /\ IsFiniteSet(audited)
    /\ IsFiniteSet(CompletedOrders)
    /\ \A p \in audited : status[p] \in {"MATERIAL_RESERVED", "IN_PRODUCTION"}
    /\ ReservationsAccounted

LEMMA ColumnsAreTyped ==
  ASSUME TypeOK, NEW x \in Product
  PROVE  /\ \A w \in Warehouse : ReservedOf(x)[w] \in Int
         /\ \A p \in audited : NeededBy(x)[p] \in Int
         /\ \A o \in CompletedOrders : UsedBy(x)[o] \in Int
         /\ \A p \in MealPlan : Need[p][x] \in Int
<1>1. \A p \in MealPlan : Need[p][x] \in Int
  BY NeedIsBounded, BoundsAreNaturals
<1>2. \A w \in Warehouse : ReservedOf(x)[w] \in Int
  BY DEF ReservedOf, TypeOK, StockTypeOK, BalanceRow, Item
<1>3. \A p \in audited : NeededBy(x)[p] \in Int
  BY <1>1 DEF NeededBy, TypeOK
<1>4. \A o \in CompletedOrders : UsedBy(x)[o] \in Int
  BY <1>1 DEF UsedBy, CompletedOrders, TypeOK, OrderRow
<1> QED
  BY <1>1, <1>2, <1>3, <1>4

LEMMA ColumnsAreTypedNext ==
  ASSUME TypeOK', NEW x \in Product
  PROVE  /\ \A w \in Warehouse : ReservedOf(x)'[w] \in Int
         /\ \A p \in audited' : NeededBy(x)'[p] \in Int
         /\ \A o \in CompletedOrders' : UsedBy(x)'[o] \in Int
<1>1. \A p \in MealPlan : Need[p][x] \in Int
  BY NeedIsBounded, BoundsAreNaturals
<1>2. \A w \in Warehouse : ReservedOf(x)'[w] \in Int
  BY DEF ReservedOf, TypeOK, StockTypeOK, BalanceRow, Item
<1>3. \A p \in audited' : NeededBy(x)'[p] \in Int
  BY <1>1 DEF NeededBy, TypeOK
<1>4. \A o \in CompletedOrders' : UsedBy(x)'[o] \in Int
  BY <1>1 DEF UsedBy, CompletedOrders, TypeOK, OrderRow
<1> QED
  BY <1>2, <1>3, <1>4

\* What walks over the warehouses draw of a product is what was needed.
LEMMA DrawMeetsNeed ==
  ASSUME NEW take \in Draw, NEW pool, NEW p \in MealPlan, Meets(take, pool, p), NEW x \in Product
  PROVE  /\ \A w \in Warehouse : [v \in Warehouse |-> take[<<v, x>>]][w] \in Int
         /\ Total([v \in Warehouse |-> take[<<v, x>>]], Warehouse) = Need[p][x]
<1>1. \A w \in Warehouse : <<w, x>> \in Item
  BY DEF Item
<1>2. \A w \in Warehouse : take[<<w, x>>] \in Nat
  BY <1>1, DrawIsNatural
<1>3. \A w \in Warehouse : [v \in Warehouse |-> take[<<v, x>>]][w] \in Int
  BY <1>2
<1> QED
  BY <1>3 DEF Meets

LEMMA ReserveIsAccounted ==
  ASSUME AccountInv, NEW p \in MealPlan, ReserveMaterials(p), TypeOK', NEW x \in Product
  PROVE  /\ Total(ReservedOf(x)', Warehouse) = Total(ReservedOf(x), Warehouse) + Need[p][x]
         /\ Total(NeededBy(x)', audited') = Total(NeededBy(x), audited) + Need[p][x]
<1>1. PICK take \in Draw : /\ Meets(take, AvailableStock, p)
                           /\ balance' = [i \in Item |-> SetAside(balance[i], take[i])]
  BY DEF ReserveMaterials
<1> DEFINE drawn == [w \in Warehouse |-> take[<<w, x>>]]
<1>2. Total(drawn, Warehouse) = Need[p][x] /\ \A w \in Warehouse : drawn[w] \in Int
  BY <1>1, DrawMeetsNeed
<1>3. \A w \in Warehouse : ReservedOf(x)[w] \in Int
  BY ColumnsAreTyped DEF AccountInv, CycleInv
<1>4. ASSUME NEW w \in Warehouse
      PROVE  ReservedOf(x)'[w] = ReservedOf(x)[w] + drawn[w]
  <2>1. <<w, x>> \in Item
    BY DEF Item
  <2>2. balance'[<<w, x>>].reserved = balance[<<w, x>>].reserved + take[<<w, x>>]
    BY <1>1, <2>1 DEF SetAside
  <2> QED
    BY <2>2 DEF ReservedOf
<1> HIDE DEF drawn
<1>5. Total(ReservedOf(x)', Warehouse) = Total(ReservedOf(x), Warehouse) + Total(drawn, Warehouse)
  BY <1>2, <1>3, <1>4, WarehousesAreFinite, TotalPlus
<1>6. audited' = audited \cup {p}
  BY DEF ReserveMaterials
<1>7. p \notin audited
  <2>1. status[p] = "APPROVED"
    BY DEF ReserveMaterials, MarkReserved
  <2> QED
    BY <2>1 DEF AccountInv
<1>8. /\ \A q \in audited : NeededBy(x)[q] \in Int /\ NeededBy(x)'[q] = NeededBy(x)[q]
      /\ NeededBy(x)'[p] = Need[p][x] /\ Need[p][x] \in Int
  BY <1>6, ColumnsAreTyped DEF NeededBy, AccountInv, CycleInv
<1>9. Total(NeededBy(x)', audited \cup {p}) = NeededBy(x)'[p] + Total(NeededBy(x), audited)
  BY <1>7, <1>8, TotalGrows DEF AccountInv
<1>10. Total(NeededBy(x), audited) \in Int
  BY <1>8, TotalIsInt DEF AccountInv
<1> QED
  BY <1>2, <1>5, <1>6, <1>8, <1>9, <1>10

LEMMA IssueReserved ==
  ASSUME NEW row \in BalanceRow, NEW q \in Nat
  PROVE  IssuedToProduction(row, q).reserved = row.reserved - q
  BY DEF IssuedToProduction, TakenFromReserve, Decreased, BalanceRow

LEMMA CompletedGrow ==
  ASSUME TypeOK, NEW o \in Order, CompleteProductionOrder(o)
  PROVE  /\ order'[o].plan = order[o].plan
         /\ \A k \in Order \ {o} : order'[k] = order[k]
         /\ CompletedOrders' = CompletedOrders \cup {o} /\ o \notin CompletedOrders
<1>1. order[o] \in OrderRow /\ order[o].status # "COMPLETED"
  BY DEF CompleteProductionOrder, TypeOK
<1>2. order' = [order EXCEPT ![o].status = "COMPLETED"]
  BY DEF CompleteProductionOrder
<1>3. order'[o] = [order[o] EXCEPT !.status = "COMPLETED"]
  BY <1>2 DEF TypeOK
<1>4. order'[o].plan = order[o].plan /\ order'[o].status = "COMPLETED" /\ order'[o] # None
  BY <1>1, <1>3, NoneIsNoOrder DEF OrderRow
<1>5. \A k \in Order \ {o} : order'[k] = order[k]
  BY <1>2 DEF TypeOK
<1> QED
  BY <1>1, <1>4, <1>5 DEF CompletedOrders

LEMMA CompletionIsAccounted ==
  ASSUME AccountInv, NEW o \in Order, CompleteProductionOrder(o), TypeOK', NEW x \in Product
  PROVE  \E q \in Int :
            /\ Total(ReservedOf(x), Warehouse) = Total(ReservedOf(x)', Warehouse) + q
            /\ Total(UsedBy(x)', CompletedOrders') = Total(UsedBy(x), CompletedOrders) + q
<1>1. PICK take \in Draw :
         /\ Meets(take, ReservedStock, order[o].plan)
         /\ balance' = [i \in Item |-> IssuedToProduction(balance[i], take[i])]
  BY DEF CompleteProductionOrder
<1>2. order[o] \in OrderRow /\ order[o].plan \in MealPlan /\ order[o].status # "COMPLETED"
  BY DEF CompleteProductionOrder, AccountInv, CycleInv, TypeOK, OrderRow
<1> DEFINE drawn == [w \in Warehouse |-> take[<<w, x>>]]
           q == Need[order[o].plan][x]
<1>3. Total(drawn, Warehouse) = q /\ \A w \in Warehouse : drawn[w] \in Int
  BY <1>1, <1>2, DrawMeetsNeed
<1>4. \A w \in Warehouse : ReservedOf(x)'[w] \in Int
  BY ColumnsAreTypedNext
<1>5. ASSUME NEW w \in Warehouse
      PROVE  ReservedOf(x)[w] = ReservedOf(x)'[w] + drawn[w]
  <2>1. <<w, x>> \in Item
    BY DEF Item
  <2>2. take[<<w, x>>] \in Nat /\ balance[<<w, x>>] \in BalanceRow
    BY <2>1, DrawIsNatural, RowIsTyped DEF AccountInv, CycleInv
  <2>3. balance'[<<w, x>>].reserved = balance[<<w, x>>].reserved - take[<<w, x>>]
    BY <1>1, <2>1, <2>2, IssueReserved
  <2>4. balance[<<w, x>>].reserved \in Int
    BY <2>2 DEF BalanceRow
  <2> QED
    BY <2>2, <2>3, <2>4 DEF ReservedOf
<1> HIDE DEF drawn
<1>6. Total(ReservedOf(x), Warehouse) = Total(ReservedOf(x)', Warehouse) + Total(drawn, Warehouse)
  BY <1>3, <1>4, <1>5, WarehousesAreFinite, TotalPlus
<1>7. /\ order'[o].plan = order[o].plan
      /\ \A k \in Order \ {o} : order'[k] = order[k]
  BY CompletedGrow DEF AccountInv, CycleInv
<1>8. CompletedOrders' = CompletedOrders \cup {o} /\ o \notin CompletedOrders
  BY CompletedGrow DEF AccountInv, CycleInv
<1>9. \A k \in CompletedOrders : UsedBy(x)[k] \in Int /\ UsedBy(x)'[k] = UsedBy(x)[k]
  <2>1. \A k \in CompletedOrders : k \in Order \ {o} /\ UsedBy(x)[k] \in Int
    BY <1>8, ColumnsAreTyped DEF AccountInv, CycleInv, CompletedOrders
  <2> QED
    BY <1>7, <1>8, <2>1 DEF UsedBy
<1>10. UsedBy(x)'[o] = q /\ q \in Int
  BY <1>2, <1>7, <1>8, ColumnsAreTyped DEF UsedBy, AccountInv, CycleInv
<1> HIDE DEF q
<1>11. Total(UsedBy(x)', CompletedOrders \cup {o}) = UsedBy(x)'[o] + Total(UsedBy(x), CompletedOrders)
  BY <1>8, <1>9, <1>10, TotalGrows DEF AccountInv
<1>12. Total(UsedBy(x), CompletedOrders) \in Int
  BY <1>9, TotalIsInt DEF AccountInv
<1>13. Total(UsedBy(x)', CompletedOrders') = Total(UsedBy(x), CompletedOrders) + q
  BY <1>8, <1>10, <1>11, <1>12
<1> QED
  BY <1>3, <1>6, <1>10, <1>13

\* Where neither figure changes, the account stands.
LEMMA AccountStands ==
  ASSUME AccountInv, CycleInv', UNCHANGED <<audited, order>>,
         \A i \in Item : balance'[i].reserved = balance[i].reserved,
         \A p \in audited : status'[p] = status[p]
  PROVE  AccountInv'
<1>1. \A x \in Product, w \in Warehouse : <<w, x>> \in Item
  BY DEF Item
<1>2. \A x \in Product : ReservedOf(x)' = ReservedOf(x)
  BY <1>1 DEF ReservedOf
<1>3. CompletedOrders' = CompletedOrders
  BY DEF CompletedOrders
<1>4. ReservationsAccounted'
  BY <1>2, <1>3 DEF ReservationsAccounted, AccountInv, ReservedOf
<1> QED
  BY <1>3, <1>4 DEF AccountInv

LEMMA AccountKept ==
  ASSUME AccountInv, CycleInv', [Next]_vars
  PROVE  AccountInv'
<1>1. TypeOK' /\ TypeOK
  BY DEF CycleInv, AccountInv
<1>2. \A x \in Product :
         /\ Total(ReservedOf(x), Warehouse) \in Int
         /\ Total(NeededBy(x), audited) \in Int
         /\ Total(UsedBy(x), CompletedOrders) \in Int
         /\ Total(ReservedOf(x), Warehouse)
               = Total(NeededBy(x), audited) - Total(UsedBy(x), CompletedOrders)
  <2> SUFFICES ASSUME NEW x \in Product
               PROVE  /\ Total(ReservedOf(x), Warehouse) \in Int
                      /\ Total(NeededBy(x), audited) \in Int
                      /\ Total(UsedBy(x), CompletedOrders) \in Int
                      /\ Total(ReservedOf(x), Warehouse)
                            = Total(NeededBy(x), audited) - Total(UsedBy(x), CompletedOrders)
    OBVIOUS
  <2>1. /\ \A w \in Warehouse : ReservedOf(x)[w] \in Int
        /\ \A p \in audited : NeededBy(x)[p] \in Int
        /\ \A o \in CompletedOrders : UsedBy(x)[o] \in Int
    BY <1>1, ColumnsAreTyped
  <2>2. Total(ReservedOf(x), Warehouse) \in Int
    BY <2>1, WarehousesAreFinite, TotalIsInt
  <2>3. Total(NeededBy(x), audited) \in Int
    BY <2>1, TotalIsInt DEF AccountInv
  <2>4. Total(UsedBy(x), CompletedOrders) \in Int
    BY <2>1, TotalIsInt DEF AccountInv
  <2>5. Total(ReservedOf(x), Warehouse)
           = Total(NeededBy(x), audited) - Total(UsedBy(x), CompletedOrders)
    BY DEF AccountInv, ReservationsAccounted, ReservedOf, NeededBy, UsedBy
  <2> QED
    BY <2>2, <2>3, <2>4, <2>5
<1>3. CASE StockNext /\ UNCHANGED <<workflowVars, kitchenVars>>
  <2>1. StockTypeOK' /\ \A i \in Item : Posted(i)
    BY <1>1, <1>3, StockStep DEF TypeOK
  <2>2. ASSUME NEW i \in Item
        PROVE  balance'[i].reserved = balance[i].reserved
    <3>1. balance'[i] \in BalanceRow /\ posted'[i] \in Int /\ consumed' = consumed
      BY <1>3, <2>1 DEF StockTypeOK, kitchenVars
    <3> QED
      BY <2>1, <3>1, PostedItem DEF AccountInv
  <2> QED
    BY <1>3, <2>2, AccountStands DEF workflowVars, kitchenVars
<1>4. CASE DocumentNext /\ UNCHANGED <<stockVars, kitchenVars>>
  <2>1. ASSUME NEW p \in audited
        PROVE  status'[p] = status[p]
    <3>1. status[p] \in {"MATERIAL_RESERVED", "IN_PRODUCTION"} /\ status[p] # None
      BY NoneIsNoState DEF AccountInv, Status
    <3>2. p \in Document
      BY <1>1 DEF TypeOK, Document
    <3> QED
      BY <1>1, <1>4, <3>1, <3>2
      DEF DocumentNext, CreateDefinition, CreateVersion, AddTransition, CreateDocument, Submit,
          Approve, RequestManualApproval, Decide, TypeOK, WorkflowTypeOK
  <2> QED
    BY <1>4, <2>1, AccountStands DEF stockVars, kitchenVars
<1>5. ASSUME NEW p \in MealPlan, ReserveMaterials(p)
      PROVE  AccountInv'
  <2>1. /\ audited' = audited \cup {p} /\ order' = order
        /\ status' = [status EXCEPT ![p] = "MATERIAL_RESERVED"]
    BY <1>5 DEF ReserveMaterials, MarkReserved
  <2>2. IsFiniteSet(audited') /\ CompletedOrders' = CompletedOrders
    BY <2>1, FS_AddElement DEF AccountInv, CompletedOrders
  <2>3. \A q \in audited' : status'[q] \in {"MATERIAL_RESERVED", "IN_PRODUCTION"}
    BY <1>1, <2>1 DEF AccountInv, TypeOK, WorkflowTypeOK, Document
  <2>4. ASSUME NEW x \in Product
        PROVE  Total(ReservedOf(x)', Warehouse)
                  = Total(NeededBy(x)', audited') - Total(UsedBy(x)', CompletedOrders')
    <3>1. /\ Total(ReservedOf(x)', Warehouse) = Total(ReservedOf(x), Warehouse) + Need[p][x]
          /\ Total(NeededBy(x)', audited') = Total(NeededBy(x), audited) + Need[p][x]
          /\ Need[p][x] \in Int
      BY <1>1, <1>5, ReserveIsAccounted, ColumnsAreTyped
    <3>2. UsedBy(x)' = UsedBy(x)
      BY <2>1, <2>2 DEF UsedBy
    <3> QED
      BY <1>2, <2>2, <3>1, <3>2
  <2>5. ReservationsAccounted'
    BY <2>4 DEF ReservationsAccounted, ReservedOf, NeededBy, UsedBy
  <2> QED
    BY <2>2, <2>3, <2>5 DEF AccountInv
<1>6. ASSUME NEW o \in Order, NEW p \in MealPlan, CreateProductionOrder(o, p)
      PROVE  AccountInv'
  <2>1. /\ balance' = balance /\ audited' = audited /\ status' = status
        /\ order' = [order EXCEPT ![o] = [plan |-> p, status |-> "PLANNED"]]
        /\ order[o] = None
    BY <1>6 DEF CreateProductionOrder, stockVars, workflowVars
  <2>2. /\ order'[o].status # "COMPLETED"
        /\ \A k \in Order \ {o} : order'[k] = order[k]
    BY <1>1, <2>1 DEF TypeOK
  <2>3. CompletedOrders' = CompletedOrders /\ o \notin CompletedOrders
    BY <2>1, <2>2 DEF CompletedOrders
  <2>4. ASSUME NEW x \in Product
        PROVE  UsedBy(x)' = UsedBy(x)
    <3>1. \A k \in CompletedOrders : order'[k] = order[k]
      BY <2>2, <2>3 DEF CompletedOrders
    <3> QED
      BY <2>3, <3>1 DEF UsedBy
  <2>5. ReservationsAccounted'
    BY <1>2, <2>1, <2>3, <2>4 DEF ReservationsAccounted, ReservedOf, NeededBy, UsedBy
  <2> QED
    BY <2>1, <2>3, <2>5 DEF AccountInv
<1>7. ASSUME NEW o \in Order, CompleteProductionOrder(o)
      PROVE  AccountInv'
  <2>1. audited' = audited /\ status' = [status EXCEPT ![order[o].plan] = "IN_PRODUCTION"]
    BY <1>7 DEF CompleteProductionOrder
  <2>2. \A p \in audited : status'[p] \in {"MATERIAL_RESERVED", "IN_PRODUCTION"}
    BY <1>1, <2>1 DEF AccountInv, TypeOK, WorkflowTypeOK, Document
  <2>3. ASSUME NEW x \in Product
        PROVE  Total(ReservedOf(x)', Warehouse)
                  = Total(NeededBy(x)', audited') - Total(UsedBy(x)', CompletedOrders')
    <3>1. PICK q \in Int :
             /\ Total(ReservedOf(x), Warehouse) = Total(ReservedOf(x)', Warehouse) + q
             /\ Total(UsedBy(x)', CompletedOrders') = Total(UsedBy(x), CompletedOrders) + q
      BY <1>1, <1>7, CompletionIsAccounted
    <3>2. NeededBy(x)' = NeededBy(x)
      BY <2>1 DEF NeededBy
    <3>3. Total(ReservedOf(x)', Warehouse) \in Int
      BY <1>1, ColumnsAreTypedNext, WarehousesAreFinite, TotalIsInt
    <3> QED
      BY <1>2, <2>1, <3>1, <3>2, <3>3
  <2>4. ReservationsAccounted'
    BY <2>3 DEF ReservationsAccounted, ReservedOf, NeededBy, UsedBy
  <2>5. IsFiniteSet(CompletedOrders')
    BY <1>1, <1>7, CompletedGrow, FS_AddElement DEF AccountInv
  <2> QED
    BY <2>1, <2>2, <2>4, <2>5 DEF AccountInv
<1>8. CASE UNCHANGED vars
  BY <1>8, AccountStands DEF vars, stockVars, workflowVars, kitchenVars
<1> QED
  BY <1>3, <1>4, <1>5, <1>6, <1>7, <1>8 DEF Next

(***************************************************************************)
(* For any plans and needs, drawn from any number of warehouses, what is   *)
(* reserved of a product is what the audited plans need less what the      *)
(* completed orders needed.                                                *)
(***************************************************************************)
THEOREM ReservationsAddUp == Spec => []ReservationsAccounted
<1>1. Init => AccountInv
  <2> SUFFICES ASSUME Init PROVE AccountInv
    OBVIOUS
  <2>1. audited = {} /\ CompletedOrders = {}
    BY DEF Init, CompletedOrders
  <2>2. ASSUME NEW x \in Product
        PROVE  Total(ReservedOf(x), Warehouse)
                  = Total(NeededBy(x), audited) - Total(UsedBy(x), CompletedOrders)
    <3>1. \A w \in Warehouse : ReservedOf(x)[w] = 0
      BY DEF Init, StockInit, ReservedOf, Item
    <3>2. Total(ReservedOf(x), Warehouse) = 0
      BY <3>1, WarehousesAreFinite, TotalOfZeros
    <3>3. Total(NeededBy(x), {}) = 0 /\ Total(UsedBy(x), {}) = 0
      BY TotalOfNone
    <3>4. Total(NeededBy(x), audited) = 0 /\ Total(UsedBy(x), CompletedOrders) = 0
      BY <2>1, <3>3
    <3> QED
      BY <3>2, <3>4
  <2>3. ReservationsAccounted
    BY <2>2 DEF ReservationsAccounted, ReservedOf, NeededBy, UsedBy
  <2> QED
    BY <2>1, <2>3, CycleInvInit, FS_EmptySet DEF AccountInv
<1>2. AccountInv => ReservationsAccounted
  BY DEF AccountInv
<1> QED
  BY <1>1, <1>2, CycleInvAlways, AccountKept, PTL DEF Spec

-----------------------------------------------------------------------------
(* The refinement of StockPromise.                                         *)

Reserved == [i \in Item |-> balance[i].reserved]

\* An item's promise is a natural number within what the ledger holds.
Held ==
    /\ posted \in [Item -> Nat]
    /\ Reserved \in [Item -> Nat]
    /\ \A i \in Item : Reserved[i] <= posted[i]

LEMMA PromiseWithinLedger == CycleInv => Held
<1> SUFFICES ASSUME CycleInv PROVE Held
  OBVIOUS
<1>1. ASSUME NEW i \in Item
      PROVE  posted[i] \in Nat /\ Reserved[i] \in Nat /\ Reserved[i] <= posted[i]
  <2>1. Covers(balance[i]) /\ Reconciles(i) /\ posted[i] \in Int /\ consumed[i] \in Nat
    BY CycleInvAtItem, RowIsTyped DEF CycleInv
  <2>2. Reserved[i] = balance[i].reserved
    BY DEF Reserved
  <2>3. balance[i].reserved \in Int /\ balance[i].onHand \in Int
    BY <2>1 DEF Covers, BalanceRow
  <2> QED
    BY <2>1, <2>2, <2>3 DEF Covers, Reconciles
<1>2. DOMAIN posted = Item /\ DOMAIN Reserved = Item
  BY DEF CycleInv, TypeOK, StockTypeOK, Reserved
<1>3. posted = [i \in Item |-> posted[i]] /\ Reserved = [i \in Item |-> Reserved[i]]
  BY <1>2 DEF CycleInv, TypeOK, StockTypeOK, Reserved
<1> QED
  BY <1>1, <1>3 DEF Held

LEMMA PromiseStaysWithinLedger == CycleInv' => Held'
  BY PromiseWithinLedger, PTL

LEMMA StockRequestMaps ==
  ASSUME CycleInv, CycleInv', StockNext, UNCHANGED <<workflowVars, kitchenVars>>
  PROVE  [Ledger!Next]_Ledger!vars
<1>1. /\ posted \in [Item -> Nat] /\ posted' \in [Item -> Nat]
      /\ Reserved \in [Item -> Nat] /\ Reserved' \in [Item -> Nat]
      /\ \A i \in Item : Reserved'[i] <= posted'[i]
  BY PromiseWithinLedger, PromiseStaysWithinLedger DEF Held
<1>2. Reserved' = Reserved
  <2>1. ASSUME NEW i \in Item
        PROVE  balance'[i].reserved = balance[i].reserved
    <3>1. Posted(i)
      BY StockStep DEF CycleInv, TypeOK
    <3>2. /\ balance'[i] \in BalanceRow /\ posted'[i] \in Int
          /\ consumed' = consumed
      BY DEF CycleInv, TypeOK, StockTypeOK, kitchenVars
    <3> QED
      BY <3>1, <3>2, PostedItem
  <2> QED
    BY <2>1 DEF Reserved
<1>3. ASSUME NEW i \in Item, NEW q \in Quantity, NEW b \in Batch \cup {None},
             PostInbound(i, q, b)
      PROVE  Ledger!Receive
  <2>1. q \in Nat
    BY BoundsAreNaturals DEF Quantity
  <2>2. posted' = [posted EXCEPT ![i] = @ + q]
    BY <1>3 DEF PostInbound
  <2>3. \A j \in Item : posted'[j] >= posted[j]
    BY <1>1, <2>1, <2>2
  <2> QED
    BY <1>1, <1>2, <2>3 DEF Ledger!Receive, Ledger!Quantities, Reserved
<1>4. ASSUME NEW i \in Item, NEW q \in Quantity, NEW b \in Batch \cup {None},
             PostOutbound(i, q, b)
      PROVE  Ledger!Issue
  <2>1. q \in Nat
    BY BoundsAreNaturals DEF Quantity
  <2>2. posted' = [posted EXCEPT ![i] = @ - q]
    BY <1>4 DEF PostOutbound
  <2>3. \A j \in Item : Reserved[j] <= posted'[j] /\ posted'[j] <= posted[j]
    BY <1>1, <1>2, <2>1, <2>2
  <2> QED
    BY <1>1, <1>2, <2>3 DEF Ledger!Issue, Ledger!Quantities, Reserved
<1>5. ASSUME NEW w \in Warehouse, NEW v \in Warehouse, NEW x \in Product, NEW q \in Quantity,
             NEW b \in Batch \cup {None}, PostTransfer(w, v, x, q, b)
      PROVE  Ledger!Move
  <2> DEFINE i == <<w, x>>
             j == <<v, x>>
  <2>1. q \in Nat
    BY BoundsAreNaturals DEF Quantity
  <2>2. i \in Item /\ j \in Item /\ i # j
    BY <1>5 DEF Item, PostTransfer
  <2>3. posted' = [posted EXCEPT ![i] = @ - q, ![j] = @ + q]
    BY <1>5 DEF PostTransfer
  <2> HIDE DEF i, j
  <2>4. /\ posted'[i] = posted[i] - q
        /\ posted'[j] = posted[j] + q
        /\ \A k \in Item \ {i, j} : posted'[k] = posted[k]
    BY <1>1, <2>2, <2>3
  <2>5. /\ i # j
        /\ Reserved[i] <= posted'[i]
        /\ posted'[i] + posted'[j] = posted[i] + posted[j]
        /\ posted'[j] >= posted[j]
        /\ \A k \in Item \ {i, j} : posted'[k] = posted[k]
    BY <1>1, <1>2, <2>1, <2>2, <2>4
  <2> QED
    BY <1>1, <1>2, <2>2, <2>5 DEF Ledger!Move, Ledger!Quantities, Reserved
<1>6. ASSUME NEW b \in Batch, NEW x, NEW w, NEW q, NEW blocked,
             CreateBatch(b, x, w, q, blocked)
      PROVE  UNCHANGED Ledger!vars
  BY <1>6 DEF CreateBatch, Ledger!vars
<1> QED
  BY <1>3, <1>4, <1>5, <1>6 DEF StockNext, Ledger!Next

LEMMA ReserveMaps ==
  ASSUME CycleInv, CycleInv', NEW p \in MealPlan, ReserveMaterials(p)
  PROVE  Ledger!Promise
<1>1. /\ posted' = posted /\ consumed' = consumed
      /\ Reserved' \in [Item -> Nat]
      /\ \A i \in Item : Reserved'[i] <= posted'[i]
  BY PromiseStaysWithinLedger DEF Held, ReserveMaterials
<1>2. \A i \in Item : balance[i].reserved <= balance'[i].reserved
  <2> SUFFICES ASSUME NEW i \in Item
               PROVE  balance[i].reserved <= balance'[i].reserved
    OBVIOUS
  <2>1. balance'[i].reserved >= balance[i].reserved
    BY <1>1, ReservePromises, PromisedItem
  <2>2. balance[i].reserved \in Int /\ balance'[i].reserved \in Int
    BY DEF CycleInv, TypeOK, StockTypeOK, BalanceRow
  <2> QED
    BY <2>1, <2>2
<1> QED
  BY <1>1, <1>2 DEF Ledger!Promise, Ledger!Quantities, Reserved

LEMMA CompletionMaps ==
  ASSUME CycleInv, CycleInv', NEW o \in Order, CompleteProductionOrder(o)
  PROVE  Ledger!Fulfil
<1>1. posted' \in [Item -> Nat] /\ Reserved' \in [Item -> Nat]
  BY PromiseStaysWithinLedger DEF Held
<1>2. \A i \in Item :
         /\ balance'[i].reserved <= balance[i].reserved
         /\ posted[i] - posted'[i] = balance[i].reserved - balance'[i].reserved
  BY CompletionFulfils, FulfilledItem
<1> QED
  BY <1>1, <1>2 DEF Ledger!Fulfil, Ledger!Quantities, Reserved

LEMMA CycleStepMaps ==
  CycleInv /\ CycleInv' /\ [Next]_vars => [Ledger!Next]_Ledger!vars
<1> SUFFICES ASSUME CycleInv, CycleInv', [Next]_vars
             PROVE  [Ledger!Next]_Ledger!vars
  OBVIOUS
<1>1. CASE StockNext /\ UNCHANGED <<workflowVars, kitchenVars>>
  BY <1>1, StockRequestMaps
<1>2. CASE DocumentNext /\ UNCHANGED <<stockVars, kitchenVars>>
  BY <1>2 DEF stockVars, Ledger!vars
<1>3. CASE \E p \in MealPlan : ReserveMaterials(p)
  BY <1>3, ReserveMaps DEF Ledger!Next
<1>4. CASE \E o \in Order, p \in MealPlan : CreateProductionOrder(o, p)
  BY <1>4 DEF CreateProductionOrder, stockVars, Ledger!vars
<1>5. CASE \E o \in Order : CompleteProductionOrder(o)
  BY <1>5, CompletionMaps DEF Ledger!Next
<1>6. CASE UNCHANGED vars
  BY <1>6 DEF vars, stockVars, Ledger!vars
<1> QED
  BY <1>1, <1>2, <1>3, <1>4, <1>5, <1>6 DEF Next

(***************************************************************************)
(* The cycle implements StockPromise with the ledger as the stock, however *)
(* many orders and plans there are: the ledger never issues or promises    *)
(* what it does not hold free of earlier promises.                         *)
(***************************************************************************)
THEOREM CycleKeepsPromises == Spec => LedgerKeepsPromises
<1>1. Init => Ledger!Init
  <2> SUFFICES ASSUME Init
               PROVE  Ledger!Init
    OBVIOUS
  <2>1. posted = [i \in Item |-> 0]
    BY DEF Init, StockInit
  <2>2. \A i \in Item : balance[i].reserved = 0
    BY DEF Init, StockInit
  <2> QED
    BY <2>1, <2>2 DEF Ledger!Init
<1> QED
  BY <1>1, CycleInvAlways, CycleStepMaps, PTL DEF Spec, LedgerKeepsPromises, Ledger!Spec
=============================================================================
