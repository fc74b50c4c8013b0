SPECIFICATION Spec
CONSTANTS
  Bodies <- MCBodies
  MaxItems = 3
  MaxLinks = 2
INVARIANTS
  FramingExact
  HandledAtOnce
CHECK_DEADLOCK FALSE
