SPECIFICATION Spec
CONSTANTS
  Device = {d1}
  Conn = {c1, c2}
  Frame = {}
  Ack = ack
  ChanCap = 1
  Window = 1
  None = None
INVARIANT NoPanic
