CONSTANTS
    Ref <- MCRef
    NoRef = ""
    Kind <- MCKind
    Parent <- MCParent
    InterfaceSpecs = {"loopback"}
    Clusters = {"ok", "bad"}
    Revisions = {"none", "v1"}
    Removable = {"dn1", "ip1", "cap1"}
    Forgettable = {"ip2", "dep1"}
    MaxEdits = 1
    MaxFaults = 0
SPECIFICATION FairSpec
 
PROPERTIES SpecializedWhenRequestsReady EventuallySpecialized
