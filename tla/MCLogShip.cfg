SPECIFICATION Spec
CONSTANTS
  MaxLine = 3
  Junk = {}
  BatchSize = 1
  MaxPending = 2
  RingCap = 2
  LokiOn = TRUE
  MaxFault = 1
  MaxOs = 2
  OsTime <- Times
  OsLimit = 1
  MaxSeen = 1
  None = None
CHECK_DEADLOCK FALSE
INVARIANTS RecentIsNewest UnsentStaysFresh
PROPERTIES KeepsPromise OwedIsSettled
