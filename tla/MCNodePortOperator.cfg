SPECIFICATION FairSpec
CONSTANTS
  s1 = s1
  s2 = s2
  c1 = c1
  c2 = c2
  NoServer = NoServer
  Servers <- MCServers
  Callers <- OneCaller
  Requests <- MCRequests
  Manifests <- MCManifests
  ClassNetwork <- MCClassNetwork
  ClusterPorts <- MCClusterPorts
  MinPort = 10
  MaxPort = 12
  MaxCreates = 2
INVARIANTS
  OpTypeOK
  OperatorOnLiveIncarnation
  OperatorKeepsReservation
PROPERTIES
  BundledServiceStable
  BundledEventuallyServed
CHECK_DEADLOCK FALSE
