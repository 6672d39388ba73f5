SPECIFICATION FairSpec
CONSTANTS
  c1 = c1
  c2 = c2
  Commands <- MCCommands
  MaxChunks = 3
  MaxInbox = 2
INVARIANTS
  TypeOK
  OneWriter
  LogUnbroken
  NeverStuck
PROPERTIES
  SessionEnds
  ChunksArrive
CHECK_DEADLOCK FALSE
