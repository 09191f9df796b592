----------------------------- MODULE SttSession -----------------------------
(* One recognition in the speech-to-text proxy: do_iat_recognize of          *)
(* xfyun_stt_proxy.py.  Three threads of the proxy share a list of words, an *)
(* error slot and an event: the request handler, which waits for the event   *)
(* for at most 30 s; the web-socket thread, which runs the callbacks; and    *)
(* the sender, which on_open starts and which sends the audio in frames.     *)
(* The recognition service is external: it answers the frames with words, or *)
(* with what cannot be parsed to its end, ends the recognition after the     *)
(* last frame or earlier, on the silence the request's vad_eos names,        *)
(* refuses it, or closes the connection.                                     *)
(*                                                                           *)
(* Audio is counted in units, FrameSize of them to a frame; the service's    *)
(* n-th word is the number n.  The 30 s may pass at any moment: the service  *)
(* may be as slow as it likes.                                               *)
EXTENDS Integers, Sequences

CONSTANTS FrameSize,   \* units of audio in a frame
          MaxAudio,    \* bound: units of audio in a request
          MaxWords,    \* bound: words the service recognises
          MaxAnswers   \* bound: answers it gives

ASSUME SttAssumption ==
  /\ FrameSize \in Nat \ {0} /\ MaxAudio \in Nat \ {0}
  /\ MaxWords \in Nat /\ MaxAnswers \in Nat

VARIABLES
  total,     \* len(audio_bytes)
  offset,    \* the sender's offset
  sender,    \* where the sender is
  sent,      \* frames sent: [status, from, upto]
  service,   \* what the service still does
  said,      \* words the service has recognised
  answers,   \* history: answers it has given, for the bound
  inbox,     \* the service's answers on their way to the proxy
  open,      \* the web socket can be written to
  ws,        \* where the web-socket thread is
  msg,       \* the answer on_message works on
  results,   \* words collected
  error,     \* error_info[0] is set
  done,      \* what set done_event first, "no" while it is clear
  handler,   \* where the request handler is
  woken,     \* what ended the handler's wait
  answer     \* what do_iat_recognize returns

proxy == <<results, error, done>>
cloud == <<service, said, answers, inbox>>
send  == <<total, offset, sender, sent>>
conn  == <<open, ws, msg>>
hand  == <<handler, woken, answer>>
vars  == <<proxy, cloud, send, conn, hand>>

-----------------------------------------------------------------------------
(* Answers of the service.                                                   *)

\* The next n words, from first to upto: "words"; "broken" when something
\* after them cannot be parsed; "refusal", a code other than 0; "end", the
\* close frame.
Answer(kind, n, status) ==
  [kind |-> kind, first |-> said + 1, upto |-> said + n, status |-> status]

Answers == [kind : {"words", "broken", "refusal", "end"},
            first : 1..MaxWords + 1, upto : 0..MaxWords, status : 0..2]

\* What the handler returns: the text, or None with the error.
NoAnswer   == [kind |-> "none", text |-> <<>>]
Failure    == [kind |-> "failure", text |-> <<>>]
Text(words) == [kind |-> "text", text |-> words]

\* Mutant: the end is not cut.
SmallerNot(a, b) == a

Smaller(a, b) == IF a < b THEN a ELSE b

\* done_event.set(): only the first call matters to the waiting handler.
Set(cause) == done' = IF done = "no" THEN cause ELSE done

Init ==
  /\ total \in 1..MaxAudio
  /\ offset = 0 /\ sender = "none" /\ sent = <<>>
  /\ service = "listening" /\ said = 0 /\ answers = 0 /\ inbox = <<>>
  /\ open = FALSE /\ ws = "connecting" /\ msg = Answer("end", 0, 0)
  /\ results = <<>> /\ error = FALSE /\ done = "no"
  /\ handler = "waiting" /\ woken = "no" /\ answer = NoAnswer

-----------------------------------------------------------------------------
(* The sender thread.                                                        *)

\* Mutant: taken with the offset moved.
StatusOfMoved(end) == IF end = 0 THEN 0 ELSE IF end >= total THEN 2 ELSE 1

\* 0 the first frame, 2 the last, 1 between them; the test for the first one
\* comes first.
StatusOf(end) == IF offset = 0 THEN 0 ELSE IF end >= total THEN 2 ELSE 1

\* send_audio: one turn of the loop while the socket is up.
SendFrame ==
  /\ sender = "sending" /\ offset < total /\ open
  /\ LET end == Smaller(offset + FrameSize, total)
     IN  /\ sent' = Append(sent, [status |-> StatusOf(end), from |-> offset, upto |-> end])
         /\ offset' = end
  /\ UNCHANGED <<proxy, cloud, conn, hand, total, sender>>

\* All the audio is sent.
SenderEnds ==
  /\ sender = "sending" /\ offset >= total
  /\ sender' = "ended"
  /\ UNCHANGED <<proxy, cloud, conn, hand, total, offset, sent>>

\* ws.send raises on a closed socket: the error is kept, ...
SendRaises ==
  /\ sender = "sending" /\ offset < total /\ ~open
  /\ error' = TRUE
  /\ sender' = "failing"
  /\ UNCHANGED <<results, done, cloud, conn, hand, total, offset, sent>>

\* ... then the event is set.
SenderFails ==
  /\ sender = "failing"
  /\ Set("error")
  /\ sender' = "ended"
  /\ UNCHANGED <<results, error, cloud, conn, hand, total, offset, sent>>

Sender == SendFrame \/ SenderEnds \/ SendRaises \/ SenderFails

-----------------------------------------------------------------------------
(* The web-socket thread.                                                    *)

\* The connection comes up, unless the handler has closed it: on_open starts
\* the sender.
OnOpen ==
  /\ ws = "connecting" /\ handler \in {"waiting", "woken"}
  /\ ws' = "reading" /\ open' = TRUE
  /\ sender' = "sending"
  /\ UNCHANGED <<proxy, cloud, hand, msg, total, offset, sent>>

\* Mutant: the name is bound, the slot is not written.
OnErrorUnkept ==
  /\ ws \in {"connecting", "reading"}
  /\ ws' = "failing" /\ open' = FALSE
  /\ UNCHANGED <<proxy, cloud, send, hand, msg>>

\* It fails before or after it came up: on_error keeps the error, ...
OnError ==
  /\ ws \in {"connecting", "reading"}
  /\ ws' = "failing" /\ open' = FALSE
  /\ error' = TRUE
  /\ UNCHANGED <<results, done, cloud, send, hand, msg>>

\* ... then sets the event.
OnErrorDone ==
  /\ ws = "failing"
  /\ Set("error")
  /\ ws' = "closing"
  /\ UNCHANGED <<results, error, cloud, send, hand, open, msg>>

\* on_message takes the next answer, ...
OnMessage ==
  /\ ws = "reading" /\ open /\ inbox # <<>> /\ Head(inbox).kind # "end"
  /\ inbox' = Tail(inbox)
  /\ msg' = Head(inbox)
  /\ ws' = "keeping"
  /\ UNCHANGED <<proxy, service, said, answers, send, hand, open>>

\* ... appends its words one by one, ...
KeepWord ==
  /\ ws = "keeping" /\ msg.first <= msg.upto
  /\ results' = Append(results, msg.first)
  /\ msg' = [msg EXCEPT !.first = @ + 1]
  /\ UNCHANGED <<error, done, cloud, send, hand, open, ws>>

Kept(all) ==
  /\ ws = "keeping" /\ all
  /\ error' = (error \/ msg.kind \in {"refusal", "broken"})
  /\ ws' = "marking"
  /\ UNCHANGED <<results, done, cloud, send, hand, open, msg>>

\* Mutant: a final answer is marked and its words are not looked at.
AnswerKeptUnlessFinal == Kept(msg.status = 2 \/ msg.first > msg.upto)

\* ... keeps an error for a refusal and for what cannot be parsed, ...
AnswerKept == Kept(msg.first > msg.upto)

\* ... then the event is set, for these and for a final answer.
OnMessageDone ==
  /\ ws = "marking"
  /\ \/ msg.kind # "words" /\ Set("error")
     \/ msg.kind = "words" /\ msg.status = 2 /\ Set("final")
     \/ msg.kind = "words" /\ msg.status # 2 /\ UNCHANGED done
  /\ ws' = "reading"
  /\ UNCHANGED <<results, error, cloud, send, hand, open, msg>>

\* The peer's close frame is next.
OnEnd ==
  /\ ws = "reading" /\ open /\ inbox # <<>> /\ Head(inbox).kind = "end"
  /\ open' = FALSE /\ ws' = "closing"
  /\ UNCHANGED <<proxy, cloud, send, hand, msg>>

\* The handler has called ws.close(): the thread leaves its loop.
SeesClose ==
  /\ \/ ws = "reading" /\ ~open
     \/ ws = "connecting" /\ handler \notin {"waiting", "woken"}
  /\ ws' = "closing"
  /\ UNCHANGED <<proxy, cloud, send, hand, open, msg>>

\* on_close sets the event, whatever the reason.
OnClose ==
  /\ ws = "closing"
  /\ Set("closed")
  /\ ws' = "ended"
  /\ UNCHANGED <<results, error, cloud, send, hand, open, msg>>

WebSocket == OnOpen \/ OnError \/ OnErrorDone
             \/ OnMessage \/ KeepWord \/ AnswerKept \/ OnMessageDone
             \/ OnEnd \/ SeesClose \/ OnClose

-----------------------------------------------------------------------------
(* The request handler.                                                      *)

\* done_event.wait(timeout=30) returns because the event is set ...
Wake ==
  /\ handler = "waiting" /\ done # "no"
  /\ handler' = "woken" /\ woken' = done
  /\ UNCHANGED <<proxy, cloud, send, conn, answer>>

\* Mutant: the wait has no limit.
ExpireNever == FALSE /\ UNCHANGED vars

\* ... or because the time is over.
Expire ==
  /\ handler = "waiting" /\ done = "no"
  /\ handler' = "woken" /\ woken' = "timeout"
  /\ UNCHANGED <<proxy, cloud, send, conn, answer>>

\* Mutant: the socket is left open.
CloseNothing ==
  /\ handler = "woken"
  /\ handler' = "checking"
  /\ UNCHANGED <<proxy, cloud, send, conn, woken, answer>>

\* ws.close()
CloseSocket ==
  /\ handler = "woken"
  /\ handler' = "checking" /\ open' = FALSE
  /\ UNCHANGED <<proxy, cloud, send, ws, msg, woken, answer>>

\* if error_info[0]: return None
CheckError ==
  /\ handler = "checking"
  /\ IF error THEN handler' = "returned" /\ answer' = Failure
              ELSE handler' = "joining" /\ UNCHANGED answer
  /\ UNCHANGED <<proxy, cloud, send, conn, woken>>

\* return "".join(results)
Join ==
  /\ handler = "joining"
  /\ handler' = "returned" /\ answer' = Text(results)
  /\ UNCHANGED <<proxy, cloud, send, conn, woken>>

Handler == Wake \/ Expire \/ CloseSocket \/ CheckError \/ Join

-----------------------------------------------------------------------------
(* The recognition service.                                                  *)

Say(kind, status) ==
  /\ open /\ service = "listening" /\ sent # <<>> /\ answers < MaxAnswers
  /\ \E n \in 0..MaxWords - said : /\ said' = said + n
                                 /\ inbox' = Append(inbox, Answer(kind, n, status))
  /\ answers' = answers + 1
  /\ UNCHANGED <<proxy, send, conn, hand>>

\* Words, perhaps none, with more to come.
ServiceSays == Say("words", 1) /\ UNCHANGED service

\* An answer that cannot be parsed, or not after its n-th word.
ServiceGarbles == Say("broken", 1) /\ UNCHANGED service

\* The final words, perhaps none: after the last frame, or on three seconds of
\* silence.
ServiceEnds == Say("words", 2) /\ service' = "final"

\* A code other than 0.
ServiceRefuses ==
  /\ open /\ service = "listening" /\ sent # <<>>
  /\ inbox' = Append(inbox, Answer("refusal", 0, 0))
  /\ service' = "refused"
  /\ UNCHANGED <<proxy, send, conn, hand, said, answers>>

\* The service closes the connection.
ServiceCloses ==
  /\ open /\ service # "gone"
  /\ inbox' = Append(inbox, Answer("end", 0, 0))
  /\ service' = "gone"
  /\ UNCHANGED <<proxy, send, conn, hand, said, answers>>

Service == ServiceSays \/ ServiceGarbles \/ ServiceEnds \/ ServiceRefuses \/ ServiceCloses

-----------------------------------------------------------------------------
\* The request is answered and the threads it started are gone.
Finished ==
  /\ handler = "returned" /\ ws = "ended" /\ sender \in {"none", "ended"}
  /\ UNCHANGED vars

Next == Sender \/ WebSocket \/ Handler \/ Service \/ Finished

Spec == Init /\ [][Next]_vars

\* The proxy's threads are scheduled; the wait is timed.  Nothing is assumed
\* of the service or of the network.
Fairness == /\ WF_vars(Handler)
            /\ WF_vars(Sender)
            /\ WF_vars(OnErrorDone \/ OnMessage \/ KeepWord \/ AnswerKept
                       \/ OnMessageDone \/ OnEnd \/ SeesClose \/ OnClose)
FairSpec == Spec /\ Fairness

-----------------------------------------------------------------------------
(* Properties.                                                               *)

TypeOK ==
  /\ total \in 1..MaxAudio /\ offset \in 0..total
  /\ sender \in {"none", "sending", "failing", "ended"}
  /\ sent \in Seq([status : 0..2, from : 0..total, upto : 0..total])
  /\ service \in {"listening", "final", "refused", "gone"}
  /\ said \in 0..MaxWords /\ answers \in 0..MaxAnswers /\ inbox \in Seq(Answers)
  /\ open \in BOOLEAN /\ msg \in Answers
  /\ ws \in {"connecting", "reading", "keeping", "marking", "failing", "closing", "ended"}
  /\ results \in Seq(Nat) /\ error \in BOOLEAN
  /\ done \in {"no", "final", "error", "closed"}
  /\ handler \in {"waiting", "woken", "checking", "joining", "returned"}
  /\ woken \in {"no", "final", "error", "closed", "timeout"}
  /\ answer \in [kind : {"none", "failure", "text"}, text : Seq(Nat)]

\* What the service hears is one utterance: the frames cover the audio from
\* its start without a gap or an overlap, only the first is marked as first,
\* and nothing follows a frame marked as last, which ends the audio.
OneUtterance ==
  \A i \in 1..Len(sent) :
    /\ sent[i].from = (IF i = 1 THEN 0 ELSE sent[i - 1].upto)
    /\ sent[i].from < sent[i].upto
    /\ sent[i].status = 0 <=> i = 1
    /\ sent[i].status = 2 => i = Len(sent) /\ sent[i].upto = total

\* A text returned because the final answer had come holds every word the
\* service said, in their order: the handler never reads the list before the
\* word that ended its wait is in it.
FinalIsWhole ==
  answer.kind = "text" /\ woken = "final" => answer.text = [n \in 1..said |-> n]

\* A wait that an error ended is answered with the failure: the handler never
\* looks for the error before it is there.
ErrorIsReported == answer.kind = "text" => woken # "error"

\* Every request is answered, whatever the service and the network do or fail
\* to do.
RequestAnswered == <>(handler = "returned")

\* The threads a request starts do not outlive it: once it is answered the
\* sender and the web-socket thread come to their ends.
ThreadsEnd == [](handler = "returned" => <>(ws = "ended" /\ sender \in {"none", "ended"}))

\* "status: 0 = first frame, 1 = frame between, 2 = last frame": when all the
\* audio is sent the last frame is marked as the last.
LastFrameMarked == sender = "ended" /\ offset = total => sent[Len(sent)].status = 2

\* "returns the recognised text, None on failure": a text is returned only when
\* the recognition came to its end.
TextIsFinal == answer.kind = "text" => woken = "final"

\* The same sentence, the other way: a recognition that came to its end is
\* returned as a text.
FinalIsReturned == answer.kind = "failure" => woken # "final"
=============================================================================
