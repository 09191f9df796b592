\* The capture may be stopped for good: no thread then has anything to do.
CHECK_DEADLOCK FALSE
CONSTANTS
  Readers = {r1}
  Controllers = {c1}
  NoOwner = NoOwner
  AUDIO_BUFFER_COUNT = 2
  COUNTER_MAX = 7
  MaxFrames = 1
  MaxStarts = 2
  MaxMallocFailures = 0
  MaxDmaErrors = 0
  HalMayFail = FALSE
SPECIFICATION Spec
PROPERTIES
  ReadBlocksUntilFrame
