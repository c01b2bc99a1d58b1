CONSTANTS
  loose = loose
  tight = tight
  scale = scale
  wipe = wipe
  op1 = op1
  op2 = op2
  alice = alice
  none = none
  nobody = nobody
  Actions <- MCActions
  NoAction = none
  Users <- MCUsers
  NoUser = nobody
  Policies <- MCPolicies
  LayersOf <- MCLayersOf
  HasKey = TRUE
  Operators <- MCTwoOps
  Strict <- MCTight
  Escalating <- MCNone
  ReceiptsEnabled = TRUE
  ReceiptsRequired = FALSE
  Webhooks = {TRUE}
  Gates = TRUE
  Restores = TRUE
  MaxConsumed = 2
  MaxDecisions = 1
  MaxEdits = 2
  MaxFaults = 1
SPECIFICATION Spec
CHECK_DEADLOCK FALSE
INVARIANTS
  AtMostOncePerDecision
  ExecutionIsAuthorised
