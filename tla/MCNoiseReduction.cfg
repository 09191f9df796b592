\* Samples of 6 bits, 4 bits of PCM and 8-bit ints; below half of full scale.
SPECIFICATION Spec
CONSTANTS
  Peak = 15
  Samples <- MCSamples
  FrameSize = 2
  Scale = 4
  PcmHalf = 8
  IntHalf = 128
  UintSize = 256
  LongSize = 65536
INVARIANTS Stable Undistorted
