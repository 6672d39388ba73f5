SPECIFICATION SafetySpec
CONSTANTS
  Specs <- VolumeSpecs
  ClassPolicy = ""
  ClassAtFirst = {TRUE}
  Lagging <- LagClaim
  PodStates <- NoPods
  Leftover = FALSE
  MaxCreates = 1
  MaxEdits = 0
  MaxFaults = 0
  MaxTrouble = 1
PROPERTIES
  RetainedVolumeSurvives
CHECK_DEADLOCK FALSE
