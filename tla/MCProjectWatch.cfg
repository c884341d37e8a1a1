\* Two files, three changes, one job that is refused, fails or leaves out files, and
\* stop() at any time.
SPECIFICATION FairSpec
CONSTANTS
  p1 = p1
  p2 = p2
  w1 = w1
  w2 = w2
  w3 = w3
  Paths = {p1, p2}
  Timers = {w1, w2, w3}
  NoTimer = NoTimer
  MaxChanges = 3
  MaxFailures = 1
INVARIANTS
  DrainedStop
PROPERTIES
  EventuallyIndexed
  LostOnlyByKnownGaps
\* After the last change the watch may rest, or be stopped.
CHECK_DEADLOCK FALSE
