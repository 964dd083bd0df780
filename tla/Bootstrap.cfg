CONSTANTS
  Clusters = {"edge", "core"}
  NameIn <- MCNameIn
  Lists <- MCLists
  Resources = {"namespace", "sync"}
  Annotated <- MCAnnotated
  Starts <- MCStarts
  Orders <- MCOrders
  MaxEdits = 1
  MaxFaults = 1
SPECIFICATION ManagerSpec
INVARIANT ListedHasKubeconfig
PROPERTIES  EventuallyInstalled   EventuallyEnrolled
CHECK_DEADLOCK FALSE
