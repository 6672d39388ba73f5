SPECIFICATION SafetySpec
CONSTANTS
  Specs <- VolumeSpecs
  ClassPolicy = ""
  ClassAtFirst = {TRUE}
  Lagging <- LagVolume
  PodStates <- NoPods
  Leftover = TRUE
  MaxCreates = 2
  MaxEdits = 0
  MaxFaults = 1
  MaxTrouble = 1
INVARIANTS
  TypeOK
  FinalizerBeforeChildren
  NoChangeLost
PROPERTIES
  FinalizerOnlyLeavesWithObject
  LiveVolumeStaysOwned
  RetainedUnlessMissed
  ImplementsLifecycle
CHECK_DEADLOCK FALSE
