SPECIFICATION MCSpec
CONSTANTS
  Device = {d1, d2}
  Second = d2
  Session = {s1, s2}
  Caller = {p1}
  Action = {script, reboot}
  Reboot = reboot
  MaxCmd = 2
  QueueCap = 2
  None = None
INVARIANT OnlyAuthorisedRuns
PROPERTIES ServesCommands AcceptedIsAnswered
