SPECIFICATION FairSpec
CONSTANTS
  FrameSize = 2
  MaxAudio = 5
  MaxWords = 2
  MaxAnswers = 3
INVARIANTS OneUtterance FinalIsWhole ErrorIsReported
PROPERTIES RequestAnswered ThreadsEnd
