SPECIFICATION MCSpec
CONSTANTS
  Run = {r1, r2}
  Pass = {p1, p2}
  Overlapping = p2
  Other = r2
  MaxCmd = 2
  MaxRestart = 1
  MaxError = 1
  None = None
INVARIANT SerialPassesAreSafe
PROPERTY EveryRunEnds
