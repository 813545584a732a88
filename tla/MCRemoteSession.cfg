SPECIFICATION MCSpec
CONSTANTS
  Session = {s1, s2}
  Viewer = {v1}
  DownCap = 1
  UpCap = 1
  ViewCap = 2
  MaxSeq = 2
  MaxDrop = 1
  None = None
INVARIANT FramesInOrder
PROPERTIES AckedStopEndsCapture CaptureIsStoppable
