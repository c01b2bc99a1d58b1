CONSTANTS
  Clients = {op1, op2}
  Records = {r1}
  MaxAppends = 3
  MaxCrashes = 1
  MaxRequests = 2
  MaxRestarts = 1
SPECIFICATION Spec
CHECK_DEADLOCK FALSE
INVARIANTS AcceptedIsSound KnownHeadIsCurrent
