SPECIFICATION SafetySpec
CONSTANTS
  Specs <- ClassSpecs
  ClassPolicy = "Retain"
  ClassAtFirst = {TRUE}
  Lagging <- Prompt
  PodStates <- NoPods
  Leftover = FALSE
  MaxCreates = 1
  MaxEdits = 0
  MaxFaults = 0
  MaxTrouble = 1
PROPERTIES
  RetainFromClassHonoured
CHECK_DEADLOCK FALSE
