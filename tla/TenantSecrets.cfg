SPECIFICATION TenantSpec
CONSTANTS
  Providers = {p1, p2}
  MaxTenantEdits = 1
  MaxTenantFaults = 0
PROPERTY SecretsInPlace
CHECK_DEADLOCK FALSE
