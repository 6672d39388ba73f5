SPECIFICATION Spec
CONSTANTS
  r1 = r1
  r2 = r2
  r3 = r3
  Calls <- MCCalls
  Requests <- MCRequests
  Times <- MCTimes
  UseJWT = TRUE
  MaxCreates = 2
  MaxFaults = 1
SYMMETRY Symmetry
INVARIANTS
  TypeOK
  PowerNotLost
  DeletedForGood
  RefusalIsFinal
  AnswersTrue
CHECK_DEADLOCK FALSE
