CONSTANTS
    Desired <- MCDesired
    Policy = "delete"
    MaxCreates = 2
    MaxEdits = 1
    MaxFaults = 2
    MaxCrashes = 1
SPECIFICATION FairSpec
INVARIANTS NoOrphanedRepo
PROPERTIES ReadyOnlyWhenInSync EventuallyInSync
CHECK_DEADLOCK FALSE
