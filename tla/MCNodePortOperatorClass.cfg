SPECIFICATION Spec
CONSTANTS
  s1 = s1
  s2 = s2
  c1 = c1
  c2 = c2
  NoServer = NoServer
  Servers <- MCServers
  Callers <- MCCallers
  Requests <- TwoPorts
  Manifests <- EmptyManifests
  ClassNetwork <- MCClassNetwork
  ClusterPorts <- MCClusterPorts
  MinPort = 10
  MaxPort = 13
  MaxCreates = 3
PROPERTIES
  ServicePortsStable
CHECK_DEADLOCK FALSE
