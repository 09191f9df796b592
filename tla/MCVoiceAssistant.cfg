\* Nobody need type a command.
CHECK_DEADLOCK FALSE
SPECIFICATION FairSpec
CONSTANTS
  Mains = {m1}
  Procs = {p1, p2}
  Shell = Shell
  MayFail = {"capture", "thread", "malloc", "main"}
  PauseTicks = 2
  ReadTicks = 4
  StopTicks = 4
  SemMax = 2
INVARIANTS TypeOK FillsOwnBuffer OneListener Attentive QuietWhenEnded
PROPERTIES NoUtteranceLost EveryUtteranceHandled
