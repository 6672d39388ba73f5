SPECIFICATION FairSpec
CONSTANTS
  Specs <- OneSpec
  ClassPolicy = ""
  ClassAtFirst = {TRUE}
  Lagging <- Prompt
  PodStates <- NoPods
  Leftover = FALSE
  MaxCreates = 1
  MaxEdits = 0
  MaxFaults = 0
  MaxTrouble = 1
PROPERTIES
  EventuallyQuiet
CHECK_DEADLOCK FALSE
