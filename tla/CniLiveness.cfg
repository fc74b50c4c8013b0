SPECIFICATION FairSpec
CONSTANTS
  s1 = s1
  s2 = s2
  k1 = k1
  k2 = k2
  None = None
  Callers = {s1, s2}
  TagCount = 1
  Sockets = {k1, k2}
  Timely = TRUE
  Pausing = TRUE
PROPERTIES
  EveryCallReturns
  StopCompletes
  KeepsReconnecting
