SPECIFICATION Spec
CONSTANTS
  s1 = s1
  s2 = s2
  k1 = k1
  None = None
  Callers = {s1, s2}
  TagCount = 2
  Sockets = {k1}
  Timely = FALSE
  Pausing = FALSE
SYMMETRY Symmetry
INVARIANTS
  ConfirmationMatches
