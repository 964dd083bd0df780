CONSTANTS
  RenderTimeout = 2
  CreationTimeout = 2
  MaxOpEdits = 5
  MaxOpFaults = 2
SPECIFICATION OperatorSpec
PROPERTIES ImplementsRequest  EventuallyOver
CHECK_DEADLOCK FALSE
