\* The user may type no further command, and va_start is bounded by Mains.
CHECK_DEADLOCK FALSE
SPECIFICATION FairSpec
CONSTANTS
  Mains = {m1, m2}
  Procs = {p1, p2}
  Shell = Shell
  MayFail = {}
  PauseTicks = 2
  ReadTicks = 4
  StopTicks = 4
  SemMax = 2
PROPERTY StoppedMainsEnd
