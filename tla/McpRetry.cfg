SPECIFICATION McpSpec
CONSTANTS
  McpCallers = {c1}
  MaxToolRetries = 2
  MaxMcpCalls = 1
INVARIANT ExecutedOncePerCall
CHECK_DEADLOCK FALSE
