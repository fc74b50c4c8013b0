SPECIFICATION Spec
CONSTANTS
  s1 = s1
  s2 = s2
  s3 = s3
  k1 = k1
  k2 = k2
  None = None
  Callers = {s1, s2, s3}
  TagCount = 2
  Sockets = {k1, k2}
  Timely = TRUE
  Pausing = FALSE
SYMMETRY Symmetry
INVARIANTS
  ConfirmationMatches
PROPERTIES
  KeepsPromise
