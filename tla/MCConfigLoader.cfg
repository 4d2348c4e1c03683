CONSTANT Paths <- MCPaths
INIT Init
NEXT Next
INVARIANT MetricMapIsLastDefinition
CHECK_DEADLOCK FALSE
