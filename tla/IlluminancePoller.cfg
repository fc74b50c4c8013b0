SPECIFICATION FairSpec
CONSTANTS
  None = None
  Networks = {"north", "south"}
  Sensors <- MCSensors
  Enabled <- MCEnabled
  Hosted = {"north", "south"}
  First = "north"
  Values = {1}
  MaxChanges = 1
INVARIANTS
  TypeOK
  ReadingHonest
  ShownIsCurrent
PROPERTIES
  Recovers
  StopCompletes
CHECK_DEADLOCK FALSE
