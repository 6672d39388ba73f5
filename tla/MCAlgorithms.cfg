SPECIFICATION Spec
CONSTANTS
  MinPort = 10
  MaxPort = 15
INVARIANTS
  LowestFreeRun
  ReservedWasFree
  AllocateIsIdempotent
  SplitUndoesQuoting
  ExpansionKeepsTokens
  OwnStartupDecides
  MergedRequestsWithinLimits
CHECK_DEADLOCK FALSE
