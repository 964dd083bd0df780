CONSTANTS
    Ref <- MCRef
    NoRef = ""
    Kind <- MCKind
    Parent <- MCParent
    InterfaceSpecs = {"vlan", "vlan2"}
    Clusters = {"ok"}
    Revisions = {"none"}
    Removable = {}
    Forgettable = {}
    MaxEdits = 1
    MaxFaults = 0
SPECIFICATION Spec
PROPERTIES ParentWaitsForChildren
