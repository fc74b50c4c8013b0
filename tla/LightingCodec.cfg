SPECIFICATION Spec
CONSTANTS
  None = None
  Garbled = Garbled
  Sources = {5}
  Applications = {48, 56}
  Groups = {0, 121}
  Levels = {1, 200}
  Rates = {2, 10}
  Transitions = {None, 0, 1, 2, 6, 25, 105, 961, 5000}
  Blocks <- MCBlocks
  Starts = {0, 176, 252}
  Noise = {1, 5, 188}
  MaxCommands = 3
INVARIANTS
  BroadcastExact
  StatusExact
  CommandHonoured
  DamageIgnored
CHECK_DEADLOCK FALSE
