CONSTANTS
  loose = loose
  tight = tight
  scale = scale
  wipe = wipe
  op1 = op1
  op2 = op2
  alice = alice
  none = none
  nobody = nobody
  Actions <- MCActions
  NoAction = none
  Users <- MCUsers
  NoUser = nobody
  Policies <- MCPolicies
  LayersOf <- MCLayersOf
  HasKey = TRUE
  Operators <- MCOneOp
  Strict <- MCNone
  Escalating <- MCNone
  ReceiptsEnabled = TRUE
  ReceiptsRequired = TRUE
  Webhooks = {TRUE}
  Gates = FALSE
  Restores = FALSE
  MaxConsumed = 2
  MaxDecisions = 2
  MaxEdits = 1
  MaxFaults = 2
SPECIFICATION FairSpec
CHECK_DEADLOCK FALSE
PROPERTIES
  RejectedIsTerminal
  HeldUntilDecided
  DecisionResolved
