SPECIFICATION MCSpec
CONSTANTS
  d1 = d1
  d2 = d2
  c1 = c1
  c2 = c2
  h1 = h1
  h2 = h2
  None = None
  Daemons = {d1, d2}
  Clients = {c1, c2}
  Processes = {"daemon", "client"}
  Daemon = "daemon"
  Tokens <- MCTokens
  Handlers = {h1, h2}
  Skew = 1
  ReplayCap = 1
  CodeTtl = 1
  SessionTtl = 1
  CodeCap = 1
  SessionCap = 1
  MaxProofs = 2
  MaxAuthClock = 2
SYMMETRY MCSymmetry
INVARIANT LookFindsDaemon OneWorks NoDuplicateQuery StoppedMeansGone OneSecret RefusedOnlyWhenFull
CHECK_DEADLOCK FALSE
