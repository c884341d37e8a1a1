\* Two users and a collector; one name more than users can ever leave behind.
SPECIFICATION Spec
CONSTANTS
  u1 = u1
  u2 = u2
  c1 = c1
  m1 = m1
  m2 = m2
  m3 = m3
  Users = {u1, u2}
  Collectors = {c1}
  Markers = {m1, m2, m3}
  None = None
INVARIANTS
  HolderProtected
PROPERTIES
  ImplementsProjectLock
SYMMETRY MCSymmetry
