\* Nobody need start the capture, and the bounds end a behaviour.
CHECK_DEADLOCK FALSE
CONSTANTS
  Readers = {r1, r2}
  Controllers = {c1}
  NoOwner = NoOwner
  AUDIO_BUFFER_COUNT = 2
  COUNTER_MAX = 7
  MaxFrames = 3
  MaxStarts = 2
  MaxMallocFailures = 1
  MaxDmaErrors = 1
  HalMayFail = TRUE
SPECIFICATION FairSpec
INVARIANTS TypeOK TokensMatchFrames RingInOrder RunningIsArmed
PROPERTIES ReadsInOrder EveryFrameDelivered ImplementsChannel
