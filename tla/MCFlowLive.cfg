SPECIFICATION Spec
CONSTANTS
  Node = {"t", "s", "c", "n"}
  Kind <- BranchKind
  Edge <- BranchEdge
  Start = "t"
  End = "end"
  Run = {r1}
  Worker = {w1}
  MaxCmd = 1
  MaxRestart = 1
  MaxError = 0
  Deletable = TRUE
  None = None
PROPERTY LeftTriggerEnds
