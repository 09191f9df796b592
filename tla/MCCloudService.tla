--------------------------- MODULE MCCloudService ---------------------------
EXTENDS CloudService

Quote == {<<"header", "open", "x", "y", "close">>, <<"header", "open", "close">>}
Escaped == {<<"header", "open", "x", "escape", "y", "close">>}
Raw == {<<"header", "pcm", "pcm">>}
Short == {<<"header", "other">>, <<"header">>, <<"status">>}

MCAnswers ==
  [c \in Calls |->
     Short \cup (CASE c = "tts" -> Quote \cup Raw
                   [] c \in Plain -> Raw
                   [] OTHER -> Quote \cup Escaped)]
=============================================================================
