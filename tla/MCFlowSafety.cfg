INIT Init
NEXT Next
SYMMETRY WorkerSymmetry
CONSTANTS
  Node = {"t", "s", "n"}
  Kind <- ChainKind
  Edge <- ChainEdge
  Start = "t"
  End = "end"
  Run = {r1}
  Worker = {w1, w2}
  MaxCmd = 2
  MaxRestart = 0
  MaxError = 1
  Deletable = FALSE
  None = None
INVARIANTS OwnResult NotifiedOnce
