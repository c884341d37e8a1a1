\* A serial lane: three callers, two keys, deadlines, no wait as long as an
\* aging period.
SPECIFICATION Spec
CONSTANTS
  t1 = t1
  t2 = t2
  t3 = t3
  k1 = k1
  k2 = k2
  Threads = {t1, t2, t3}
  Keys = {k1, k2}
  Jobs <- MCJobs
  None = None
  Capacity = 1
  QueueCapacity = 1
  InteractiveReserve = 1
  FollowerCapacity = 2
  AgingPeriod = 2
  AgeBound = 1
  Calls <- MCWithDeadlines
  WorkOutcomes = {"result", "error"}
  MayNest = FALSE
INVARIANTS
  SingleFlight
  NextOwnerAwake
PROPERTIES
  LiveFollowerServed
  SharedOutcome
SYMMETRY MCSymmetry
