SPECIFICATION Spec
CONSTANTS
  p1 = p1
  p2 = p2
  u1 = u1
  None = None
  Projects = {p1, p2}
  Users = {u1}
  MissingGrace = 2
  IdleGrace = 1
  TouchInterval = 1
  MaxFiles = 2
  TargetFiles = 1
  MaxClock = 4
SYMMETRY Symmetric
INVARIANT LeftoversFound
PROPERTY InUseKept JudgedAsFound RightfulDeletion
CHECK_DEADLOCK FALSE
