\* A hangover of two frames, four frames of speech to make an utterance and a
\* buffer for five and a half frames: a stretch can end by silence or by lack of
\* room, with enough speech or not.
CONSTANTS
  VAD_HANGOVER_FRAMES = 2
  VAD_MIN_SPEECH_FRAMES = 4
  FRAME_SIZE = 2
  CAPACITY = 11
  MaxHeard = 14
SPECIFICATION Spec
INVARIANTS
  TypeOK
  StaysInBuffer
  NoHole
  DeliversFirstUtterance
