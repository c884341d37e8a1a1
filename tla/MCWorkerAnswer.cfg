SPECIFICATION Spec
CONSTANTS
  t1 = t1
  t2 = t2
  w1 = w1
  p1 = p1
  k1 = k1
  e1 = e1
  e2 = e2
  None = None
  Threads = {t1, t2, w1}
  Inline = {w1}
  Projects = {p1}
  Keys = {k1}
  Entries = {e1, e2}
  Asks <- LanesAsked
  Slots <- OneOfEach
  LaneCapacity <- OneOfEach
  QueueLimit = 1
  FollowerLimit = 1
INVARIANT NoLostAnswer
CHECK_DEADLOCK FALSE
