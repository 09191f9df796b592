\* Nobody need type a command.
CHECK_DEADLOCK FALSE
SPECIFICATION Spec
CONSTANTS
  Threads = {t1, t2}
  Mains = {m1}
  Words = {"hi", "hey"}
  Window = 2
  StopTicks = 2
  SemMax = 2
  MayFail = {}
INVARIANT AssistantHears
