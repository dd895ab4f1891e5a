\* The chain of migrations and the demo pack, with kills, downgrades and the operators' own rows.
SPECIFICATION DeploymentSpec
CONSTANTS
  None = None
  Each = 2
  Request = {r1, r2}
  MaxRuns = 3
  MaxMishaps = 2
  OwnTables <- MCOwnTables
  Stops <- MCStops
INVARIANTS
  SchemaFollowsRevision
  ActiveKitchenIsOpen
  WholePack
  BudgetSlipsNeedsCut
  FailureNeedsOwnRows
CHECK_DEADLOCK FALSE
