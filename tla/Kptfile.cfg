CONSTANTS
    Type = {"a", "b", "c"}
    Reason = {"", "owner"}
    NoReason = ""
    MaxLen = 3
SPECIFICATION ListSpec
INVARIANTS UniqueAndNoPanic
PROPERTIES KeepsOrder ImplementsMap
