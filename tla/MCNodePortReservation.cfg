SPECIFICATION ResSpec
CONSTANTS
  s1 = s1
  s2 = s2
  s3 = s3
  c1 = c1
  c2 = c2
  Servers <- MCServers
  Callers <- MCCallers
  Requests <- MCRequests
  Manifests <- MCManifests
  MinPort = 10
  MaxPort = 13
  MaxCreates = 4
  NoServer = NoServer
SYMMETRY Symmetry
INVARIANTS
  TypeOK
  DisjointUnlessRaced
  CallRangeFree
CHECK_DEADLOCK FALSE
