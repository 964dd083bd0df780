CONSTANTS
    MaxCreates = 2
    MaxEdits = 2
    MaxFaults = 1
    MaxCrashes = 1
SPECIFICATION FairSpec
 
PROPERTY DeletionCompletes
 
CHECK_DEADLOCK FALSE
