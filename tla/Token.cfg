CONSTANTS
    Desired = {"spec"}
    Policy = "delete"
    MaxCreates = 2
    MaxEdits = 0
    MaxFaults = 2
    MaxCrashes = 1
SPECIFICATION FairSpec
INVARIANTS TypeOK NoOrphanedToken 
PROPERTIES EventuallyReady
CHECK_DEADLOCK FALSE
