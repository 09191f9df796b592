\* The user may type no further command, and va_start is bounded by Mains.
CHECK_DEADLOCK FALSE
SPECIFICATION Spec
CONSTANTS
  Mains = {m1}
  Procs = {p1, p2}
  Shell = Shell
  MayFail = {}
  PauseTicks = 2
  ReadTicks = 10
  StopTicks = 10
  SemMax = 3
INVARIANT TriggerAccepted
