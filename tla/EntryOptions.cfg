SPECIFICATION Spec
CONSTANTS
  Runtimes = {r1, r2}
  Networks = {n1}
  Projects = {p1}
  None = None
  r1 = r1
  r2 = r2
  r3 = r3
  n1 = n1
  n2 = n2
  p1 = p1
  p2 = p2
INVARIANT OptionsCurrent
