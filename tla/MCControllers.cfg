SPECIFICATION MCSpec
CONSTANTS
  Records = {r1, r2}
  MaxAppends = 4
  MaxCrashes = 4
  Callers = {c1, c2}
  FailureThreshold = 2
  SuccessThreshold = 2
  ResetTimeout = 1
  MaxOutages = 2
  Providers = {p1, p2}
  MaxTenantEdits = 1
  MaxTenantFaults = 1
  Skills = {s1, s2}
  MaxCardEvents = 4
  DemoPolls = {r1, r2}
  MaxGeneration = 3
  MaxRetries = 1
  MaxFaults = 3
INVARIANTS
  ChainIsSound OperationIsSound
PROPERTIES
  ImplementsChain WriterRecovers
  BreakerMovesAreEarned BreakerRecovers FlagMeansProvisioned TenantSettles
  CardConverges DemoSourcesEnd WorkloadRouted
CHECK_DEADLOCK FALSE
