CONSTANTS
    Ref <- MCRef
    NoRef = ""
    Kind <- MCKind
    Parent <- MCParent
    InterfaceSpecs = {"loopback", "vlan"}
    Clusters = {"ok", "missing"}
    Revisions = {"none"}
    Removable = {"if1"}
    Forgettable = {"ip1"}
    MaxEdits = 2
    MaxFaults = 1
SPECIFICATION FairSpec
INVARIANTS TypeOK ReadyClaimIsAllocated
PROPERTIES NadBuiltFromReadyClaims AuthoredResourcesKept
           EventuallySpecialized 
