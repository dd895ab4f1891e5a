SPECIFICATION WorkflowSpec
CONSTANTS
    None = None
    MealPlan = {p1}
    Budget = {g1}
    a1 = a1
    a2 = a2
    a3 = a3
    Approval = {a1, a2, a3}
    CustomTransition <- MCCustomTransition
    ClientStatus = {"DRAFT", "SUBMITTED", "APPROVED", "MATERIAL_RESERVED", "IN_PRODUCTION"}
    MaxVersion = 2
SYMMETRY Symmetric
INVARIANTS
    OneActiveVersion
    OnePendingRequest
    StatusLeadsWorkflow
    ApprovedByDecision
    RejectionIsFinal
PROPERTY
    RewoundOnlyByHand
CHECK_DEADLOCK FALSE
