CONSTANT Paths <- MCNullPaths
INIT Init
NEXT Next
INVARIANT NoStartupCrash
CHECK_DEADLOCK FALSE
