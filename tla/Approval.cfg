CONSTANTS
    Rev = {r1, r2}
    Variants <- MCVariants
    PVStates = {"ready", "notReady", "missing"}
    RequeueDuration = 1
    MaxAge = 2
    MaxEdits = 3
    MaxFaults = 1
    MaxCrashes = 1
SPECIFICATION FairSpec
PROPERTIES ProposedAsChecked InitialPublishesFirst ApprovableIsPublished
