------------------------------ MODULE MCCodecs ------------------------------
EXTENDS Codecs

MCUtf8 ==
  [h |-> <<104>>, H |-> <<72>>, space |-> <<32>>,
   comma |-> <<227, 128, 129>>,       \* U+3001
   stop |-> <<227, 128, 130>>,        \* U+3002
   wide_comma |-> <<239, 188, 140>>,  \* U+FF0C
   xiao |-> <<229, 176, 143>>,        \* of "Hi" U+5C0F U+77F3
   other |-> <<227, 128, 140>>]       \* U+300C, begins as the marks do

MCLowerCase == [c \in DOMAIN MCUtf8 |-> IF c = "H" THEN "h" ELSE c]
=============================================================================
