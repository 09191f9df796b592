SPECIFICATION Spec
CONSTANTS
  FrameSize = 2
  MaxAudio = 5
  MaxWords = 2
  MaxAnswers = 3
INVARIANT TextIsFinal
