CONSTANTS
  Kinds = {"IPClaim", "VLANClaim"}
  Workers = {"generic", "vlan"}
  Generic = {"generic"}
  Serves <- MCServes
  MaxEdits = 2
  MaxFaults = 1
  MaxCrashes = 1
SPECIFICATION FairSpec
PROPERTIES EditsKept ReadyIsKept 
CHECK_DEADLOCK FALSE
