\* The arguments have a greatest length.
CHECK_DEADLOCK FALSE
SPECIFICATION CodecsSpec
CONSTANTS
  TextMax = 8
  WordMax = 6
  Bytes = {0, 90, 255}
  Chars = {"h", "H", "space", "comma", "stop", "xiao", "other"}
  Utf8 <- MCUtf8
  LowerCase <- MCLowerCase
  DataLen = 7
  TextLen = 4
  WordLen = 2
INVARIANTS AudioSurvives DetectsWord
