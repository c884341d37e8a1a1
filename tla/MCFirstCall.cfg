SPECIFICATION Spec
CONSTANTS
  r1 = r1
  r2 = r2
  bg = bg
  NoLeader = NoLeader
  Requests = {r1, r2}
  Threads = {r1, r2, bg}
  Asks <- MCAsks
  MaxVersion = 2
  FollowerCap = 1
  Slots = 2
  Timeout = 1
INVARIANT FirstCallIndexes
CHECK_DEADLOCK FALSE
