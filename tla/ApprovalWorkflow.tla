-------------------------- MODULE ApprovalWorkflow --------------------------
(***************************************************************************)
(* WorkflowService and the two documents it governs, meal plans and        *)
(* budgets.  A document keeps a business status of its own; beside it the  *)
(* engine keeps a workflow instance, the approval requests raised on it    *)
(* and, per document type, the definition: its transitions and versions.   *)
(* Each action is one request served alone.                                *)
(***************************************************************************)
EXTENDS Integers, Sequences, FiniteSets, Tables

CONSTANTS
    MealPlan, Budget,   \* the documents
    Approval,           \* approval_requests rows that may be created
    CustomTransition,   \* transitions an administrator may define by hand
    ClientStatus,       \* statuses a client may create a meal plan in
    MaxVersion          \* bound: versions an administrator makes of a definition

Document == MealPlan \cup Budget

TypeOf(d) == IF d \in MealPlan THEN "meal_plan" ELSE "budget"

DocType == {TypeOf(d) : d \in Document}

\* Statuses in the order a meal plan goes through them; a budget stops at
\* APPROVED.  Only production writes IN_PRODUCTION, and only to the status.
Status == {"DRAFT", "SUBMITTED", "APPROVED", "MATERIAL_RESERVED", "IN_PRODUCTION"}

Rank(s) ==
    CASE s = "DRAFT"             -> 0
      [] s = "SUBMITTED"         -> 1
      [] s = "APPROVED"          -> 2
      [] s = "MATERIAL_RESERVED" -> 3
      [] s = "IN_PRODUCTION"     -> 4

Transition == [from : Status, action : {"SUBMIT", "APPROVE", "RESERVE_MATERIALS"},
               to : Status, gated : BOOLEAN]

ApprovalRow == [document : Document, requested : Status,
                action : {"APPROVE", "RESERVE_MATERIALS", "SUBMIT", "MANUAL_APPROVAL"},
                status : {"PENDING", "APPROVED", "REJECTED"}]

\* The transitions the services themselves install, then with the tenant's own.
Submitting == [from |-> "DRAFT", action |-> "SUBMIT", to |-> "SUBMITTED", gated |-> FALSE]
Approving == [from |-> "SUBMITTED", action |-> "APPROVE", to |-> "APPROVED", gated |-> TRUE]
Reserving == [from |-> "APPROVED", action |-> "RESERVE_MATERIALS",
              to |-> "MATERIAL_RESERVED", gated |-> FALSE]

Installable == {Submitting, Approving, Reserving} \cup CustomTransition

ASSUME DocumentsAreApart == MealPlan \cap Budget = {}
ASSUME CustomTransitionsAreTransitions == CustomTransition \subseteq Transition
ASSUME ClientStatusesAreStatuses == ClientStatus \subseteq Status /\ "DRAFT" \in ClientStatus
ASSUME NoneIsNoState ==
    /\ None \notin Status
    /\ None \notin ApprovalRow
    /\ \A T \in SUBSET Installable : None # T

VARIABLES
    status,      \* meal_plans.status and budgets.status
    definition,  \* workflow_definitions with their workflow_transitions
    version,     \* workflow_versions of a definition: number |-> is_active
    instance,    \* workflow_instances.current_state
    approval     \* approval_requests

workflowVars == <<status, definition, version, instance, approval>>

-----------------------------------------------------------------------------
(* The workflow of a document type, and its engine.                        *)

Standard(t) ==
    IF t = "meal_plan" THEN {Submitting, Approving, Reserving} ELSE {Submitting, Approving}

\* Transitions are keyed by (from_state, action_name); the first one stored
\* under a key stays.
Keyed(t, from, action) ==
    {tr \in definition[t] : tr.from = from /\ tr.action = action}

ActiveVersions(t) == {n \in DOMAIN version[t] : version[t][n]}

PendingFor(d) ==
    {a \in Approval : approval[a] # None /\ approval[a].document = d
                                         /\ approval[a].status = "PENDING"}

\* apply_transition: the instance must stand where the caller expects it; a
\* gated transition only raises an approval request.
Apply(d, action, expected) ==
    /\ definition[TypeOf(d)] # None
    /\ instance[d] = expected
    /\ \E tr \in Keyed(TypeOf(d), expected, action) :
          \/ /\ tr.gated
             /\ PendingFor(d) = {}
             /\ \E a \in Approval :
                   /\ approval[a] = None
                   /\ approval' = [approval EXCEPT ![a] =
                         [document |-> d, requested |-> tr.to,
                          action |-> action, status |-> "PENDING"]]
             /\ UNCHANGED instance
          \/ /\ ~tr.gated
             /\ instance' = [instance EXCEPT ![d] = tr.to]
             /\ UNCHANGED approval

-----------------------------------------------------------------------------
WorkflowInit ==
    /\ status = [d \in Document |-> None]
    /\ definition = [t \in DocType |-> None]
    /\ version = [t \in DocType |-> <<>>]
    /\ instance = [d \in Document |-> None]
    /\ approval = [a \in Approval |-> None]

\* create_definition, by an administrator: a first version, no transitions.
CreateDefinition(t) ==
    /\ definition[t] = None
    /\ definition' = [definition EXCEPT ![t] = {}]
    /\ version' = [version EXCEPT ![t] = <<TRUE>>]
    /\ UNCHANGED <<status, instance, approval>>

\* Mutant of CreateVersion: the others stay active.
CreateVersionBeside(t, active) ==
    /\ definition[t] # None
    /\ Len(version[t]) < MaxVersion
    /\ version' = [version EXCEPT ![t] = Append(@, active)]
    /\ UNCHANGED <<status, definition, instance, approval>>

\* create_version: an active version retires the others.
CreateVersion(t, active) ==
    /\ definition[t] # None
    /\ Len(version[t]) < MaxVersion
    /\ version' = [version EXCEPT ![t] =
          IF active THEN Append([n \in DOMAIN @ |-> FALSE], TRUE) ELSE Append(@, FALSE)]
    /\ UNCHANGED <<status, definition, instance, approval>>

\* add_transition, by an administrator: a key is defined once, and the query
\* for the active version raises when it finds two.
AddTransition(t, tr) ==
    /\ definition[t] # None
    /\ Cardinality(ActiveVersions(t)) = 1
    /\ Keyed(t, tr.from, tr.action) = {}
    /\ definition' = [definition EXCEPT ![t] = @ \cup {tr}]
    /\ UNCHANGED <<status, version, instance, approval>>

\* What is ensured when a document is created: the standard transitions, but
\* for those whose key the tenant has defined; a version, and the query for the
\* active one raises when it finds two; and an instance.
EnsuredTransitions(t) ==
    LET known == IF definition[t] = None THEN {} ELSE definition[t] IN
    known \cup {tr \in Standard(t) : \A k \in known : k.from # tr.from \/ k.action # tr.action}

EnsureVersion(t) ==
    /\ Cardinality(ActiveVersions(t)) <= 1
    /\ version' = [version EXCEPT ![t] = IF ActiveVersions(t) = {} THEN Append(@, TRUE) ELSE @]

EnsureInstance(d) ==
    instance' = [instance EXCEPT ![d] = IF @ = None THEN "DRAFT" ELSE @]

\* create_meal_plan takes the status from the payload, create_budget always
\* writes DRAFT; the instance opens in DRAFT all the same.
CreateDocument(d, s) ==
    /\ status[d] = None
    /\ d \in Budget => s = "DRAFT"
    /\ status' = [status EXCEPT ![d] = s]
    /\ definition' = [definition EXCEPT ![TypeOf(d)] = EnsuredTransitions(TypeOf(d))]
    /\ EnsureVersion(TypeOf(d))
    /\ EnsureInstance(d)
    /\ UNCHANGED approval

\* submit_meal_plan, submit_budget
Submit(d) ==
    /\ status[d] = "DRAFT"
    /\ status' = [status EXCEPT ![d] = "SUBMITTED"]
    /\ Apply(d, "SUBMIT", "DRAFT")
    /\ UNCHANGED <<definition, version>>

\* Mutant of Approve: the status waits for a decision that never writes it.
ApproveLater(d) ==
    /\ status[d] = "SUBMITTED"
    /\ Apply(d, "APPROVE", "SUBMITTED")
    /\ UNCHANGED <<status, definition, version>>

\* approve_meal_plan, approve_budget: the status is APPROVED at once.
Approve(d) ==
    /\ status[d] = "SUBMITTED"
    /\ status' = [status EXCEPT ![d] = "APPROVED"]
    /\ Apply(d, "APPROVE", "SUBMITTED")
    /\ UNCHANGED <<definition, version>>

\* Mutant of MarkReserved: the service moves the instance by itself.
MarkReservedDirectly(d) ==
    /\ status[d] = "APPROVED"
    /\ status' = [status EXCEPT ![d] = "MATERIAL_RESERVED"]
    /\ instance' = [instance EXCEPT ![d] = "MATERIAL_RESERVED"]
    /\ UNCHANGED <<definition, version, approval>>

\* The workflow half of reserve_materials.
MarkReserved(d) ==
    /\ status[d] = "APPROVED"
    /\ status' = [status EXCEPT ![d] = "MATERIAL_RESERVED"]
    /\ Apply(d, "RESERVE_MATERIALS", "APPROVED")
    /\ UNCHANGED <<definition, version>>

\* Mutant of RequestManualApproval: a document with an undecided request is
\* let through.
RequestAgain(d) ==
    /\ instance[d] # None
    /\ \E a \in Approval :
          /\ approval[a] = None
          /\ approval' = [approval EXCEPT ![a] =
                [document |-> d, requested |-> instance[d],
                 action |-> "MANUAL_APPROVAL", status |-> "PENDING"]]
    /\ UNCHANGED <<status, definition, version, instance>>

\* create_approval_request: the state asked for is the one the instance is in.
RequestManualApproval(d) ==
    /\ instance[d] # None
    /\ PendingFor(d) = {}
    /\ \E a \in Approval :
          /\ approval[a] = None
          /\ approval' = [approval EXCEPT ![a] =
                [document |-> d, requested |-> instance[d],
                 action |-> "MANUAL_APPROVAL", status |-> "PENDING"]]
    /\ UNCHANGED <<status, definition, version, instance>>

\* Mutants of Decide: a rejection moves the instance too; a decided request
\* can be decided again.
DecideEither(a, decision) ==
    /\ approval[a] # None
    /\ approval[a].status = "PENDING"
    /\ approval' = [approval EXCEPT ![a].status = decision]
    /\ instance' = [instance EXCEPT ![approval[a].document] = approval[a].requested]
    /\ UNCHANGED <<status, definition, version>>
DecideAgain(a, decision) ==
    /\ approval[a] # None
    /\ approval' = [approval EXCEPT ![a].status = decision]
    /\ instance' = IF decision = "APPROVED"
                   THEN [instance EXCEPT ![approval[a].document] = approval[a].requested]
                   ELSE instance
    /\ UNCHANGED <<status, definition, version>>

\* decide_approval_request: the document's own status is not touched.
Decide(a, decision) ==
    /\ approval[a] # None
    /\ approval[a].status = "PENDING"
    /\ approval' = [approval EXCEPT ![a].status = decision]
    /\ instance' = IF decision = "APPROVED"
                   THEN [instance EXCEPT ![approval[a].document] = approval[a].requested]
                   ELSE instance
    /\ UNCHANGED <<status, definition, version>>

\* The requests that touch the workflow alone.
DocumentNext ==
    \/ \E t \in DocType : CreateDefinition(t)
    \/ \E t \in DocType, active \in BOOLEAN : CreateVersion(t, active)
    \/ \E t \in DocType, tr \in CustomTransition : AddTransition(t, tr)
    \/ \E d \in Document, s \in ClientStatus : CreateDocument(d, s)
    \/ \E d \in Document : Submit(d) \/ Approve(d) \/ RequestManualApproval(d)
    \/ \E a \in Approval, decision \in {"APPROVED", "REJECTED"} : Decide(a, decision)

\* Here a reservation always finds stock; KitchenCycle says when it does.
WorkflowNext == DocumentNext \/ \E d \in MealPlan : MarkReserved(d)

WorkflowSpec == WorkflowInit /\ [][WorkflowNext]_workflowVars

WorkflowTypeOK ==
    /\ status \in [Document -> Status \cup {None}]
    /\ definition \in [DocType -> (SUBSET Installable) \cup {None}]
    /\ version \in [DocType -> Seq(BOOLEAN)]
    /\ instance \in [Document -> Status \cup {None}]
    /\ approval \in [Approval -> ApprovalRow \cup {None}]

(***************************************************************************)
(* Every definition has exactly one active version: get_active_version     *)
(* takes the one row its query returns and raises when it returns two, so  *)
(* two active versions would stop every create request of the tenant.      *)
(***************************************************************************)
OneActiveVersion ==
    \A t \in DocType : definition[t] # None => Cardinality(ActiveVersions(t)) = 1

(***************************************************************************)
(* A document never has two undecided requests, whether raised by a gated  *)
(* transition or by hand.                                                  *)
(***************************************************************************)
OnePendingRequest ==
    \A d \in Document : Cardinality(PendingFor(d)) <= 1

(***************************************************************************)
(* The workflow is never ahead of the business status: no sequence of      *)
(* decisions, late ones included, takes an instance to a state its         *)
(* document has not been put in.                                           *)
(***************************************************************************)
StatusLeadsWorkflow ==
    \A d \in Document : status[d] # None => Rank(instance[d]) <= Rank(status[d])

DecidedApproved(d) ==
    \E a \in Approval :
        /\ approval[a] # None
        /\ approval[a].document = d
        /\ approval[a].action = "APPROVE"
        /\ approval[a].status = "APPROVED"

Ungated(t) ==
    definition[t] # None /\ \E tr \in Keyed(t, "SUBMITTED", "APPROVE") : ~tr.gated

(***************************************************************************)
(* A workflow stands at APPROVED or beyond only after somebody decided for *)
(* an APPROVE request of the document, unless the tenant's own definition  *)
(* asks for no decision.                                                   *)
(***************************************************************************)
ApprovedByDecision ==
    \A d \in Document :
        instance[d] # None /\ Rank(instance[d]) >= Rank("APPROVED")
            => DecidedApproved(d) \/ Ungated(TypeOf(d))

(***************************************************************************)
(* Once an APPROVE request of a document is rejected its workflow never    *)
(* gets past SUBMITTED, whatever is requested and decided afterwards: no   *)
(* stock is set aside for a plan that was turned down.  Its status says    *)
(* APPROVED all the same, and nothing can resubmit it.                     *)
(***************************************************************************)
RejectionIsFinal ==
    \A a \in Approval :
        approval[a] # None /\ approval[a].action = "APPROVE" /\ approval[a].status = "REJECTED"
            => /\ instance[approval[a].document] = "SUBMITTED"
               /\ status[approval[a].document] = "APPROVED"

(***************************************************************************)
(* A workflow goes backwards only when a manual request that was raised in *)
(* an earlier state is approved late; the decision on a gated transition   *)
(* never undoes another transition.                                        *)
(***************************************************************************)
RewoundOnlyByHand ==
    [][\A d \in Document :
          instance[d] # None /\ Rank(instance'[d]) < Rank(instance[d])
            => \E a \in PendingFor(d) :
                  approval[a].action = "MANUAL_APPROVAL" /\ approval'[a].status = "APPROVED"
      ]_workflowVars
=============================================================================
