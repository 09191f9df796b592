\* Nobody need type a command.
CHECK_DEADLOCK FALSE
SPECIFICATION FairSpec
CONSTANTS
  Threads = {t1, t2}
  Mains = {m1}
  Words = {"hi"}
  Window = 2
  StopTicks = 2
  SemMax = 2
  MayFail = {"capture", "create", "malloc"}
INVARIANTS TypeOK NeverSpins
PROPERTY StopIsFinal
