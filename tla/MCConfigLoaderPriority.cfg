CONSTANT Paths <- MCNestedPaths
INIT Init
NEXT Next
INVARIANT MergeByPriority
CHECK_DEADLOCK FALSE
