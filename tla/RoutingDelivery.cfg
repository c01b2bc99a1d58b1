SPECIFICATION RoutingSpec
CONSTANTS
  MaxGeneration = 2
  MaxRetries = 0
  MaxFaults = 0
INVARIANT RoutedWasDelivered
CHECK_DEADLOCK FALSE
