SPECIFICATION Spec
CONSTANTS
  Device = {d1}
  Conn = {c1, c2}
  Frame = {frame}
  Ack = frame
  ChanCap = 1
  Window = 1
  None = None
INVARIANTS CurrentIsOpen EvictedIsCutOff
PROPERTIES CutOffStreamEnds AbandonedGoesOffline
