\* Samples of 6 bits, 4 bits of PCM and 8-bit ints; full scale: the casts wrap.
SPECIFICATION Spec
CONSTANTS
  Peak = 31
  Samples <- MCSamples
  FrameSize = 2
  Scale = 4
  PcmHalf = 8
  IntHalf = 128
  UintSize = 256
  LongSize = 65536
INVARIANT Undistorted
