\* The capture may be stopped for good: no thread then has anything to do.
CHECK_DEADLOCK FALSE
CONSTANTS
  Readers = {r1}
  Controllers = {c1}
  NoOwner = NoOwner
  AUDIO_BUFFER_COUNT = 2
  COUNTER_MAX = 7
  MaxFrames = 2
  MaxStarts = 1
  MaxMallocFailures = 0
  MaxDmaErrors = 0
  HalMayFail = FALSE
SPECIFICATION Spec
INVARIANTS
  StartedIsCapturing
