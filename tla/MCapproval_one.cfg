CONSTANTS
  loose = loose
  tight = tight
  scale = scale
  wipe = wipe
  op1 = op1
  op2 = op2
  alice = alice
  none = none
  nobody = nobody
  Actions <- MCActions
  NoAction = none
  Users <- MCUsers
  NoUser = nobody
  Policies <- MCPolicies
  LayersOf <- MCLayersOf
  HasKey = TRUE
  Operators <- MCOneOp
  Strict <- MCNone
  Escalating <- MCLoose
  ReceiptsEnabled = TRUE
  ReceiptsRequired = TRUE
  Webhooks = {TRUE, FALSE}
  Gates = TRUE
  Restores = TRUE
  MaxConsumed = 2
  MaxDecisions = 2
  MaxEdits = 2
  MaxFaults = 1
SPECIFICATION Spec
CHECK_DEADLOCK FALSE
INVARIANTS
  AtMostOncePerDecision
  ReceiptBeforeExecution
  ExecutionIsAuthorised
  HumanReceiptsAgree
