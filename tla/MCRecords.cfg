INIT Init
NEXT Next
SYMMETRY Symmetry
CONSTANTS
  Req = {q1, q2}
  Admin = {1, 2}
  EnvAdmin = 1
  Mail <- MailChoices
  NoReq = NoReq
  Call = {k1, k2, k3}
  MaxTime = 1
  NoCall = NoCall
  Device = {d1, d2}
  Patch = {u1}
  MaxWrite = 3
  MaxFail = 1
INVARIANTS SetupIsWhole NoUpdateIsLost IndexIsCurrent
CHECK_DEADLOCK FALSE
