SPECIFICATION Spec
CONSTANTS
  None = None
  Documents <- MCDocuments
  Networks = {1, 2}
  Hosts = {"override"}
  Ports = {1}
  Flows = {f1, f2}
  f1 = f1
  f2 = f2
  MaxChanges = 3
SYMMETRY Symmetry
INVARIANTS
  BindingsSound
  GroupsServed
  SettingsKept
PROPERTIES
  DiffTells
CHECK_DEADLOCK FALSE
