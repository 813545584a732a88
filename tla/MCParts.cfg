INIT Init
NEXT Next
SYMMETRY Symmetry
CONSTANTS
  Login = {l1, l2}
  MaxFails = 2
  MaxSecret = 2
  NoRow = NoRow
  Client = {c1, c2}
  Unassigned = Unassigned
  Name = {n1}
  Ticket = {t1}
  Run = {r1}
  MaxNote = 1
  NoOne = NoOne
  Cmd = {x1, x2}
  MaxStream = 2
  MaxChunk = 1
  Free = Free
  Gone = Gone
  Pairs = {{"script", "pull"}, {"chunked", "pull"}, {"push", "script"}, {"script", "chunked"}, {"pull"}}
  NodeId = {a, b, c}
  Nowhere = Nowhere
  Graphs <- SmallGraphs
  Revisions <- Chains
  MaxEdit = 2
  MaxRow = 2
  NoBundle = NoBundle
  Job = {j1}
  MaxDevice = 2
  MaxSchedule = 1
INVARIANTS
  VerifiedIsProven
  SucceededIsTrue StuckOnlyWhenHeld
  ValidateIsExact NeverTwice
  BundleVerifies
  StatusIsTrue
PROPERTY CountMatchesList
CHECK_DEADLOCK FALSE
