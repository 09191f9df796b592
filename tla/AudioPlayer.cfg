\* The clients may make no further call.
CHECK_DEADLOCK FALSE
SPECIFICATION FairSpec
CONSTANTS
  Players = {t1, t2}
  Calls = {"play", "stop", "pause", "resume"}
  AUDIO_PLAY_BUFFER_SIZE = 12
  CHUNK_SIZE = 4
  Sizes = {4, 7, 9, 13}
  MaxPlays = 3
  PauseTicks = 2
  ChunkTicks = 3
  TimeoutTicks = 20
  DmaMayFail = TRUE
INVARIANTS TypeOK OnePlaybackAtATime SentInOrder
PROPERTIES CompleteIsWhole StopSilences PlaybackEnds
