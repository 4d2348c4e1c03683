CONSTANTS
  Inputs <- MCInputs
  Announced <- MCAnnounced
INIT Init
NEXT Next
INVARIANT ParsesAsReference
INVARIANT VersionAsAnnounced
CHECK_DEADLOCK FALSE
