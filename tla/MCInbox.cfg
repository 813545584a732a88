SPECIFICATION Spec
CONSTANTS
  Pass = {ticker, request}
  Tenant = {t1, t2}
  Granted = {t1}
  Alert = {a1, a2}
  QuietNeeded = 2
  MaxFailure = 1
  NoAlert = NoAlert
  Category = {alert, other}
  MaxAttempts = 2
  CatchUp = 1
  ChanCap = 1
  MaxSeq = 3
  MaxEdit = 2
  MaxFault = 1
  None = None
CHECK_DEADLOCK FALSE
INVARIANTS NoneSkipped StreamHasNoGap
PROPERTIES CleanBeforeResolved EndpointCatchesUp
