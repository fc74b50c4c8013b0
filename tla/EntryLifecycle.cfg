SPECIFICATION Spec
CONSTANTS
  Runtimes = {r1, r2, r3}
  Networks = {n1, n2}
  Projects = {p1, p2}
  None = None
  r1 = r1
  r2 = r2
  r3 = r3
  n1 = n1
  n2 = n2
  p1 = p1
  p2 = p2
SYMMETRY Symmetry
INVARIANTS
  TypeOK
  OneOwner
  NoOrphan
  LoadedIsServed
  ProjectCurrent
  ProjectStored
