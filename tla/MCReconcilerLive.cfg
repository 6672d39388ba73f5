SPECIFICATION FairSpec
CONSTANTS
  Specs <- LiveSpecs
  ClassPolicy = ""
  ClassAtFirst = {TRUE, FALSE}
  Lagging <- LagWorkload
  PodStates <- FlappingPods
  Leftover = FALSE
  MaxCreates = 1
  MaxEdits = 1
  MaxFaults = 1
  MaxTrouble = 1
INVARIANTS
  StatusCoherent
PROPERTIES
  EventuallyConverged
  DeletionCompletes
CHECK_DEADLOCK FALSE
