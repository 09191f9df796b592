SPECIFICATION Spec
CONSTANTS
  Answers <- MCAnswers
  Statuses = {200, 500}
  RecvMax = 5
  MayFail = {"prepare", "resolve", "socket", "connect", "request", "send", "buffer", "recv", "body", "field", "result", "strdup"}
  Clears = {TRUE}
INVARIANT SpeechGoesToProxy
