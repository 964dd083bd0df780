CONSTANTS
  Networks = {"n1"}
  Topologies = {"t1"}
  Topology <- MCTopology
  Endpoints = {"e1"}
  Nodes = {"d1", "d2"}
  MaxNetEdits = 3
  MaxNetFaults = 1
SPECIFICATION NetworkSpec
PROPERTIES ConfiguredWhileKept ReadyIsComplete EndpointsArrive
CHECK_DEADLOCK FALSE
