SPECIFICATION Spec
CONSTANTS
  None = None
  Groups = {1, 2}
  Units = {"hall", "yard"}
  Bindings <- SharedAndDedicated
  MaxLevel = 2
  MaxEvents = 1
  MaxCommands = 1
INVARIANTS
  TypeOK
  AgreesWithBus
  ShownIsCurrent
  MotionHasCause
  MotionAgrees
  BrightnessExact
