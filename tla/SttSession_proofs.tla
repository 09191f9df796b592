-------------------------- MODULE SttSession_proofs --------------------------
(* Proofs about SttSession, for any length of audio, size of frame and       *)
(* number of words.                                                          *)
EXTENDS SttSession, TLAPS

-----------------------------------------------------------------------------
(* Types. *)

\* What a sequence that is not empty is made of.
LEMMA HeadAndTail ==
  ASSUME NEW S, NEW q \in Seq(S), q # <<>>
  PROVE  /\ Head(q) \in S /\ Head(q) = q[1]
         /\ Tail(q) \in Seq(S) /\ Len(Tail(q)) = Len(q) - 1
         /\ \A i \in 1..Len(q) - 1 : Tail(q)[i] = q[i + 1]
OBVIOUS

\* The answers a service that has said so many words can give.
LEMMA AnswerType ==
  ASSUME TypeOK, NEW kind \in {"words", "broken", "refusal", "end"}, NEW status \in 0..2,
         NEW n \in 0..MaxWords - said
  PROVE  Answer(kind, n, status) \in Answers /\ said + n \in 0..MaxWords
BY SttAssumption DEF TypeOK, Answer, Answers

\* What is left of an answer when one of its words is kept.
LEMMA NextWord ==
  ASSUME NEW a \in Answers, a.first <= a.upto
  PROVE  /\ [a EXCEPT !.first = @ + 1] \in Answers
         /\ [a EXCEPT !.first = @ + 1].first = a.first + 1
<1>1. /\ a.kind \in {"words", "broken", "refusal", "end"} /\ a.first \in 1..MaxWords + 1
      /\ a.upto \in 0..MaxWords /\ a.status \in 0..2
  BY DEF Answers
<1>2. a = [kind |-> a.kind, first |-> a.first, upto |-> a.upto, status |-> a.status]
  BY DEF Answers
<1>3. [a EXCEPT !.first = @ + 1]
        = [kind |-> a.kind, first |-> a.first + 1, upto |-> a.upto, status |-> a.status]
  BY <1>2
<1>4. a.first + 1 \in 1..MaxWords + 1
  BY <1>1, SttAssumption
<1>. QED
  BY <1>1, <1>3, <1>4 DEF Answers

LEMMA TypeInit == Init => TypeOK
<1>. SUFFICES ASSUME Init PROVE TypeOK
  OBVIOUS
<1>1. open \in BOOLEAN /\ error \in BOOLEAN
  BY Zenon DEF Init
<1>2. msg \in Answers /\ inbox \in Seq(Answers)
  BY SttAssumption DEF Init, Answers, Answer
<1>3. /\ sent \in Seq([status : 0..2, from : 0..total, upto : 0..total])
      /\ answer \in [kind : {"none", "failure", "text"}, text : Seq(Nat)]
      /\ results \in Seq(Nat)
  BY DEF Init, NoAnswer
<1>. QED
  BY <1>1, <1>2, <1>3, SttAssumption DEF Init, TypeOK

LEMMA TypeStep == TypeOK /\ [Next]_vars => TypeOK'
<1>. SUFFICES ASSUME TypeOK, [Next]_vars
              PROVE  TypeOK'
  OBVIOUS
<1>. USE SttAssumption DEF TypeOK, Answers, proxy, cloud, send, conn, hand
<1>1. CASE SendFrame
  <2>. DEFINE end == Smaller(offset + FrameSize, total)
              frame == [status |-> StatusOf(end), from |-> offset, upto |-> end]
  <2>1. end \in 0..total
    BY <1>1 DEF SendFrame, Smaller
  <2>2. frame \in [status : 0..2, from : 0..total, upto : 0..total]
    BY <2>1 DEF StatusOf
  <2>3. /\ sent' = Append(sent, frame) /\ offset' = end
        /\ UNCHANGED <<proxy, cloud, conn, hand, total, sender>>
    BY <1>1 DEF SendFrame
  <2>4. sent' \in Seq([status : 0..2, from : 0..total, upto : 0..total])
    BY <2>2, <2>3
  <2>. QED
    BY <2>1, <2>3, <2>4
<1>2. CASE SenderEnds
  BY <1>2 DEF SenderEnds
<1>3. CASE SendRaises
  BY <1>3 DEF SendRaises
<1>4. CASE SenderFails
  BY <1>4 DEF SenderFails, Set
<1>5. CASE OnOpen
  BY <1>5 DEF OnOpen
<1>6. CASE OnError
  <2>1. open' \in BOOLEAN /\ error' \in BOOLEAN
    BY <1>6, Zenon DEF OnError
  <2>2. ws' = "failing" /\ UNCHANGED <<results, done, cloud, send, hand, msg>>
    BY <1>6 DEF OnError
  <2>. QED
    BY <2>1, <2>2
<1>7. CASE OnErrorDone
  BY <1>7 DEF OnErrorDone, Set
<1>8. CASE OnMessage
  <2>0. inbox \in Seq(Answers) /\ inbox # <<>>
    BY <1>8 DEF OnMessage
  <2>1. Head(inbox) \in Answers /\ Tail(inbox) \in Seq(Answers)
    BY <2>0, HeadAndTail, Zenon
  <2>2. /\ inbox' = Tail(inbox) /\ msg' = Head(inbox) /\ ws' = "keeping"
        /\ UNCHANGED <<proxy, service, said, answers, send, hand, open>>
    BY <1>8 DEF OnMessage
  <2>. QED
    BY <2>1, <2>2
<1>23. CASE KeepWord
  <2>1. msg.first \in Nat /\ msg.first <= msg.upto
    BY <1>23 DEF KeepWord
  <2>2. results' \in Seq(Nat)
    BY <1>23, <2>1 DEF KeepWord
  <2>3. msg' \in Answers
    <3>. HIDE DEF Answers
    <3>. QED
      BY <1>23, <2>1, NextWord DEF KeepWord
  <2>4. UNCHANGED <<error, done, cloud, send, hand, open, ws>>
    BY <1>23 DEF KeepWord
  <2>. QED
    BY <2>2, <2>3, <2>4
<1>24. CASE AnswerKept
  <2>1. error' \in BOOLEAN
    BY <1>24, Zenon DEF AnswerKept, Kept
  <2>2. ws' = "marking" /\ UNCHANGED <<results, done, cloud, send, hand, open, msg>>
    BY <1>24 DEF AnswerKept, Kept
  <2>. QED
    BY <2>1, <2>2
<1>9. CASE OnMessageDone
  BY <1>9 DEF OnMessageDone, Set
<1>10. CASE OnEnd
  <2>1. open' \in BOOLEAN
    BY <1>10, Zenon DEF OnEnd
  <2>2. ws' = "closing" /\ UNCHANGED <<proxy, cloud, send, hand, msg>>
    BY <1>10 DEF OnEnd
  <2>. QED
    BY <2>1, <2>2
<1>11. CASE SeesClose
  BY <1>11 DEF SeesClose
<1>12. CASE OnClose
  BY <1>12 DEF OnClose, Set
<1>13. CASE Wake
  BY <1>13 DEF Wake
<1>14. CASE Expire
  BY <1>14 DEF Expire
<1>15. CASE CloseSocket
  <2>1. open' \in BOOLEAN
    BY <1>15, Zenon DEF CloseSocket
  <2>2. handler' = "checking" /\ UNCHANGED <<proxy, cloud, send, ws, msg, woken, answer>>
    BY <1>15 DEF CloseSocket
  <2>. QED
    BY <2>1, <2>2
<1>16. CASE CheckError
  <2>1. handler' \in {"returned", "joining"} /\ answer' \in {answer, Failure}
    BY <1>16, Zenon DEF CheckError
  <2>2. UNCHANGED <<proxy, cloud, send, conn, woken>>
    BY <1>16 DEF CheckError
  <2>3. Failure \in [kind : {"none", "failure", "text"}, text : Seq(Nat)]
    BY DEF Failure
  <2>. QED
    BY <2>1, <2>2, <2>3
<1>17. CASE Join
  BY <1>17 DEF Join, Text
<1>18. CASE ServiceSays \/ ServiceGarbles \/ ServiceEnds
  <2>1. PICK kind \in {"words", "broken"}, status \in {1, 2} :
          Say(kind, status) /\ service' \in {service, "final"}
    BY <1>18 DEF ServiceSays, ServiceGarbles, ServiceEnds
  <2>2. PICK n \in 0..MaxWords - said :
          said' = said + n /\ inbox' = Append(inbox, Answer(kind, n, status))
    BY <2>1 DEF Say
  <2>3. Answer(kind, n, status) \in Answers /\ said' \in 0..MaxWords
    <3>. HIDE DEF Answers, TypeOK
    <3>. QED
      BY <2>1, <2>2, AnswerType
  <2>4. answers < MaxAnswers /\ answers' = answers + 1 /\ UNCHANGED <<proxy, send, conn, hand>>
    BY <2>1 DEF Say
  <2>5. inbox' \in Seq(Answers)
    <3>. HIDE DEF Answers
    <3>. QED
      BY <2>2, <2>3
  <2>. QED
    BY <2>1, <2>3, <2>4, <2>5
<1>20. CASE ServiceRefuses \/ ServiceCloses
  <2>1. PICK kind \in {"refusal", "end"} :
          /\ inbox' = Append(inbox, Answer(kind, 0, 0))
          /\ service' \in {"refused", "gone"}
          /\ UNCHANGED <<proxy, send, conn, hand, said, answers>>
    BY <1>20 DEF ServiceRefuses, ServiceCloses
  <2>2. Answer(kind, 0, 0) \in Answers
    <3>1. 0 \in 0..MaxWords - said /\ 0 \in 0..2
      OBVIOUS
    <3>. HIDE DEF Answers, TypeOK
    <3>. QED
      BY <3>1, AnswerType
  <2>3. inbox' \in Seq(Answers)
    <3>. HIDE DEF Answers
    <3>. QED
      BY <2>1, <2>2
  <2>. QED
    BY <2>1, <2>3
<1>22. CASE UNCHANGED vars
  BY <1>22 DEF vars
<1>. QED
  BY <1>1, <1>2, <1>3, <1>4, <1>5, <1>6, <1>7, <1>8, <1>9, <1>10, <1>11,
     <1>12, <1>13, <1>14, <1>15, <1>16, <1>17, <1>18, <1>20, <1>22, <1>23,
     <1>24
     DEF Next, Sender, WebSocket, Handler, Service, Finished

\* Every reachable state is well typed; in particular the sender never leaves
\* the audio.
THEOREM TypeCorrect == Spec => []TypeOK
BY TypeInit, TypeStep, PTL DEF Spec

-----------------------------------------------------------------------------
(* The inductive invariants. *)

\* The error is in its slot before anything says that there is one, and the
\* handler that was woken by one never gets past its check.
ErrorInv ==
  /\ ws = "failing" => error
  /\ ws = "marking" /\ msg.kind \in {"refusal", "broken"} => error
  /\ ws \in {"keeping", "marking"} => msg.kind \in {"words", "refusal", "broken"}
  /\ sender = "failing" => error
  /\ done = "error" => error
  /\ woken = "error" => done = "error" /\ handler # "waiting"
  /\ answer.kind = "text" => handler = "returned"
  /\ woken = "error" => handler # "joining" /\ answer.kind # "text"

\* The frames end where the sender is, and it moves on until the end.
SendInv ==
  /\ offset = IF sent = <<>> THEN 0 ELSE sent[Len(sent)].upto
  /\ sent # <<>> => offset > 0
  /\ OneUtterance

Final(a) == a.kind = "words" /\ a.status = 2

\* The words the service has said are, in their order, the list, what is left
\* of the answer on_message works on, and the answers on their way; it says no
\* more after a final answer.
InboxInv ==
  /\ \A n \in 1..Len(results) : results[n] = n
  /\ ws = "keeping" => msg.first = Len(results) + 1 /\ msg.first <= msg.upto + 1
  /\ ws # "keeping" => Len(results) = msg.upto
  /\ msg.upto <= said
  /\ Final(msg) => msg.upto = said /\ service # "listening"
  /\ \A i \in 1..Len(inbox) :
       /\ inbox[i].first = (IF i = 1 THEN msg.upto ELSE inbox[i - 1].upto) + 1
       /\ inbox[i].first <= inbox[i].upto + 1 /\ inbox[i].upto <= said
       /\ Final(inbox[i]) => inbox[i].upto = said /\ service # "listening"
  /\ said = IF Len(inbox) = 0 THEN msg.upto ELSE inbox[Len(inbox)].upto

FinalTaken == done = "final" \/ (ws = "marking" /\ Final(msg))

\* When a final answer has been taken all the words are in the list.
WholeInv ==
  /\ FinalTaken => service # "listening" /\ Len(results) = said
  /\ woken = "final" => done = "final"
  /\ handler = "waiting" => woken = "no"
  /\ answer.kind = "text" => handler = "returned"
  /\ FinalIsWhole

-----------------------------------------------------------------------------
(* Errors. *)

LEMMA ErrorStep == TypeOK /\ ErrorInv /\ [Next]_vars => ErrorInv'
<1>. SUFFICES ASSUME TypeOK, ErrorInv, [Next]_vars
              PROVE  ErrorInv'
  OBVIOUS
<1>. USE DEF ErrorInv, proxy, cloud, send, conn, hand
<1>1. CASE SendFrame
  BY <1>1 DEF SendFrame
<1>2. CASE SenderEnds
  BY <1>2 DEF SenderEnds
<1>3. CASE SendRaises
  BY <1>3 DEF SendRaises
<1>4. CASE SenderFails
  BY <1>4 DEF SenderFails, Set
<1>5. CASE OnOpen
  BY <1>5 DEF OnOpen
<1>6. CASE OnError
  BY <1>6 DEF OnError
<1>7. CASE OnErrorDone
  BY <1>7 DEF OnErrorDone, Set
<1>8. CASE OnMessage
  <2>1. Head(inbox) \in Answers
    BY <1>8, HeadAndTail DEF TypeOK, OnMessage
  <2>2. Head(inbox).kind \in {"words", "broken", "refusal"}
    BY <1>8, <2>1 DEF OnMessage, Answers
  <2>. QED
    BY <1>8, <2>2 DEF OnMessage
<1>23. CASE KeepWord
  <2>1. msg'.kind = msg.kind
    BY <1>23 DEF KeepWord, TypeOK, Answers
  <2>. QED
    BY <1>23, <2>1 DEF KeepWord
<1>24. CASE AnswerKept
  <2>1. /\ error => error'
        /\ msg.kind \in {"refusal", "broken"} => error'
    BY <1>24, Zenon DEF AnswerKept, Kept
  <2>. QED
    BY <1>24, <2>1 DEF AnswerKept, Kept
<1>9. CASE OnMessageDone
  BY <1>9 DEF OnMessageDone, Set
<1>10. CASE OnEnd
  BY <1>10 DEF OnEnd
<1>11. CASE SeesClose
  BY <1>11 DEF SeesClose
<1>12. CASE OnClose
  BY <1>12 DEF OnClose, Set
<1>13. CASE Wake
  BY <1>13 DEF Wake
<1>14. CASE Expire
  BY <1>14 DEF Expire
<1>15. CASE CloseSocket
  BY <1>15 DEF CloseSocket
<1>16. CASE CheckError
  BY <1>16 DEF CheckError, Failure
<1>17. CASE Join
  BY <1>17 DEF Join, Text
<1>18. CASE Service
  BY <1>18 DEF Service, ServiceSays, ServiceGarbles, ServiceEnds, Say, ServiceRefuses,
               ServiceCloses
<1>22. CASE UNCHANGED vars
  BY <1>22 DEF vars
<1>. QED
  BY <1>1, <1>2, <1>3, <1>4, <1>5, <1>6, <1>7, <1>8, <1>9, <1>10, <1>11,
     <1>12, <1>13, <1>14, <1>15, <1>16, <1>17, <1>18, <1>22, <1>23, <1>24,
     Zenon
     DEF Next, Sender, WebSocket, Handler, Finished

\* A request whose wait an error ended is answered with the failure, in every
\* interleaving of the callbacks, the sender and the handler.
THEOREM ErrorsAlwaysReported == Spec => []ErrorIsReported
<1>1. Init => ErrorInv
  BY DEF Init, ErrorInv, NoAnswer
<1>2. ErrorInv => ErrorIsReported
  BY DEF ErrorInv, ErrorIsReported
<1>. QED
  BY <1>1, <1>2, ErrorStep, TypeCorrect, PTL DEF Spec

-----------------------------------------------------------------------------
(* The frames. *)

LEMMA OnlySendFrame ==
  ASSUME [Next]_vars PROVE SendFrame \/ UNCHANGED <<total, offset, sent>>
<1>1. Sender => SendFrame \/ UNCHANGED <<total, offset, sent>>
  BY DEF Sender, SenderEnds, SendRaises, SenderFails
<1>2. WebSocket => UNCHANGED <<total, offset, sent>>
  BY DEF WebSocket, OnOpen, OnError, OnErrorDone, OnMessage, KeepWord, AnswerKept, Kept,
         OnMessageDone, OnEnd, SeesClose, OnClose, send
<1>3. Handler => UNCHANGED <<total, offset, sent>>
  BY DEF Handler, Wake, Expire, CloseSocket, CheckError, Join, send
<1>4. Service => UNCHANGED <<total, offset, sent>>
  BY DEF Service, ServiceSays, ServiceGarbles, ServiceEnds, Say, ServiceRefuses,
         ServiceCloses, send
<1>. QED
  BY <1>1, <1>2, <1>3, <1>4 DEF Next, Finished, vars, send

LEMMA SendStep == TypeOK /\ SendInv /\ [Next]_vars => SendInv'
<1>. SUFFICES ASSUME TypeOK, SendInv, [Next]_vars
              PROVE  SendInv'
  OBVIOUS
<1>1. CASE UNCHANGED <<total, offset, sent>>
  BY <1>1 DEF SendInv, OneUtterance
<1>2. CASE SendFrame
  <2>. DEFINE end == Smaller(offset + FrameSize, total)
              frame == [status |-> StatusOf(end), from |-> offset, upto |-> end]
  <2>1. /\ offset \in Nat /\ total \in Nat /\ offset < total
        /\ end \in Nat /\ offset < end /\ end <= total
        /\ sent \in Seq([status : 0..2, from : 0..total, upto : 0..total])
        /\ sent' = Append(sent, frame) /\ offset' = end /\ total' = total
    BY <1>2, SttAssumption DEF TypeOK, SendFrame, Smaller
  <2>2. /\ Len(sent') = Len(sent) + 1
        /\ sent'[Len(sent) + 1] = frame
        /\ \A i \in 1..Len(sent) : sent'[i] = sent[i]
    <3>. HIDE DEF frame
    <3>. QED
      BY <2>1
  <2>3. /\ frame.status = StatusOf(end) /\ frame.from = offset /\ frame.upto = end
    OBVIOUS
  <2>4. \A i \in 1..Len(sent) : sent[i].status # 2
    BY <2>1 DEF SendInv, OneUtterance
  <2>5. StatusOf(end) = 0 <=> sent = <<>>
    BY <2>1 DEF SendInv, StatusOf
  <2>6. StatusOf(end) = 2 => end = total
    BY <2>1 DEF StatusOf
  <2>7. offset = IF Len(sent) = 0 THEN 0 ELSE sent[Len(sent)].upto
    BY <2>1 DEF SendInv
  <2>. HIDE DEF end, frame
  <2>8. OneUtterance'
    <3>. SUFFICES ASSUME NEW i \in 1..Len(sent')
                  PROVE  /\ sent'[i].from = (IF i = 1 THEN 0 ELSE sent'[i - 1].upto)
                         /\ sent'[i].from < sent'[i].upto
                         /\ sent'[i].status = 0 <=> i = 1
                         /\ sent'[i].status = 2 => i = Len(sent') /\ sent'[i].upto = total'
      BY DEF OneUtterance
    <3>1. CASE i \in 1..Len(sent)
      BY <3>1, <2>1, <2>2, <2>4 DEF SendInv, OneUtterance
    <3>2. CASE i = Len(sent) + 1
      BY <3>2, <2>1, <2>2, <2>3, <2>5, <2>6, <2>7
    <3>. QED
      BY <3>1, <3>2, <2>1, <2>2
  <2>. QED
    BY <2>1, <2>2, <2>3, <2>8 DEF SendInv
<1>. QED
  BY <1>1, <1>2, OnlySendFrame

\* What the service hears is one utterance, whatever the length of the audio
\* and the size of a frame.
THEOREM AlwaysOneUtterance == Spec => []OneUtterance
<1>1. Init => SendInv
  BY DEF Init, SendInv, OneUtterance
<1>2. SendInv => OneUtterance
  BY DEF SendInv
<1>. QED
  BY <1>1, <1>2, SendStep, TypeCorrect, PTL DEF Spec

-----------------------------------------------------------------------------
(* The words. *)

LEMMA OnlyTheseMoveWords ==
  ASSUME [Next]_vars
  PROVE  \/ OnMessage \/ KeepWord \/ AnswerKept \/ Service
         \/ /\ UNCHANGED <<results, inbox, said, service, msg>>
            /\ (ws # "keeping" /\ ws' # "keeping") \/ ws' = ws
<1>. DEFINE Same ==
              /\ UNCHANGED <<results, inbox, said, service, msg>>
              /\ (ws # "keeping" /\ ws' # "keeping") \/ ws' = ws
<1>1. Sender => Same
  BY DEF Sender, SendFrame, SenderEnds, SendRaises, SenderFails, proxy, cloud, conn
<1>2. WebSocket => OnMessage \/ KeepWord \/ AnswerKept \/ Same
  BY DEF WebSocket, OnOpen, OnError, OnErrorDone, OnMessageDone, OnEnd, SeesClose,
         OnClose, proxy, cloud
<1>3. Handler => Same
  BY DEF Handler, Wake, Expire, CloseSocket, CheckError, Join, proxy, cloud, conn
<1>4. Finished \/ UNCHANGED vars => Same
  BY DEF Finished, vars, proxy, cloud, conn
<1>. HIDE DEF Same
<1>5. OnMessage \/ KeepWord \/ AnswerKept \/ Service \/ Same
  BY <1>1, <1>2, <1>3, <1>4 DEF Next
<1>. QED
  BY <1>5 DEF Same

LEMMA InboxStep == TypeOK /\ InboxInv /\ [Next]_vars => InboxInv'
<1>. SUFFICES ASSUME TypeOK, InboxInv, [Next]_vars
              PROVE  InboxInv'
  OBVIOUS
<1>0. /\ inbox \in Seq(Answers) /\ results \in Seq(Nat) /\ said \in Nat
      /\ msg \in Answers /\ msg.first \in Nat /\ msg.upto \in Nat
  BY SttAssumption DEF TypeOK, Answers
<1>5. \A i \in 1..Len(inbox) : inbox[i].first \in Nat /\ inbox[i].upto \in Nat
  <2>. SUFFICES ASSUME NEW i \in 1..Len(inbox)
                PROVE  inbox[i].first \in Nat /\ inbox[i].upto \in Nat
    OBVIOUS
  <2>1. inbox[i] \in Answers
    BY <1>0
  <2>. QED
    BY <2>1, SttAssumption DEF Answers
<1>1. CASE /\ UNCHANGED <<results, inbox, said, service, msg>>
           /\ (ws # "keeping" /\ ws' # "keeping") \/ ws' = ws
  BY <1>1 DEF InboxInv, Final
<1>2. CASE OnMessage
  <2>1. /\ inbox # <<>> /\ inbox' = Tail(inbox) /\ msg' = Head(inbox)
        /\ ws = "reading" /\ ws' = "keeping"
        /\ UNCHANGED <<results, said, service>>
    BY <1>2 DEF OnMessage, proxy
  <2>2. /\ msg' = inbox[1] /\ inbox' \in Seq(Answers) /\ Len(inbox') = Len(inbox) - 1
        /\ \A i \in 1..Len(inbox) - 1 : inbox'[i] = inbox[i + 1]
    BY <1>0, <2>1, HeadAndTail, Zenon
  <2>3. Len(inbox) \in Nat \ {0} /\ Len(results) \in Nat
    BY <1>0, <2>1
  <2>4. /\ msg'.first = Len(results) + 1 /\ msg'.first <= msg'.upto + 1 /\ msg'.upto <= said
        /\ Final(msg') => msg'.upto = said /\ service # "listening"
    BY <2>1, <2>2, <2>3 DEF InboxInv
  <2>5. ASSUME NEW i \in 1..Len(inbox')
        PROVE  /\ inbox'[i].first = (IF i = 1 THEN msg'.upto ELSE inbox'[i - 1].upto) + 1
               /\ inbox'[i].first <= inbox'[i].upto + 1 /\ inbox'[i].upto <= said
               /\ Final(inbox'[i]) => inbox'[i].upto = said /\ service # "listening"
    <3>1. i \in Nat /\ i + 1 \in 1..Len(inbox) /\ inbox'[i] = inbox[i + 1] /\ (i + 1) - 1 = i
          /\ i + 1 # 1
      BY <2>2, <2>3
    <3>2. inbox[i] = IF i = 1 THEN msg' ELSE inbox'[i - 1]
      BY <2>2, <2>3, <3>1
    <3>3. /\ inbox[i + 1].first = inbox[i].upto + 1
          /\ inbox[i + 1].first <= inbox[i + 1].upto + 1 /\ inbox[i + 1].upto <= said
          /\ Final(inbox[i + 1]) => inbox[i + 1].upto = said /\ service # "listening"
      BY <3>1 DEF InboxInv
    <3>. QED
      BY <3>1, <3>2, <3>3
  <2>6. said = IF Len(inbox') = 0 THEN msg'.upto ELSE inbox'[Len(inbox')].upto
    BY <2>2, <2>3 DEF InboxInv
  <2>. QED
    BY <2>1, <2>3, <2>4, <2>5, <2>6 DEF InboxInv, Final
<1>3. CASE KeepWord
  <2>1. /\ ws = "keeping" /\ msg.first <= msg.upto
        /\ results' = Append(results, msg.first)
        /\ UNCHANGED <<inbox, said, service, ws>>
    BY <1>3 DEF KeepWord, cloud
  <2>2. msg'.first = msg.first + 1 /\ msg'.upto = msg.upto /\ (Final(msg') <=> Final(msg))
    BY <1>0, <1>3 DEF KeepWord, Answers, Final
  <2>3. /\ Len(results') = Len(results) + 1 /\ Len(results) \in Nat
        /\ results'[Len(results) + 1] = msg.first
        /\ \A n \in 1..Len(results) : results'[n] = results[n]
    BY <1>0, <2>1
  <2>4. \A n \in 1..Len(results') : results'[n] = n
    BY <2>1, <2>3 DEF InboxInv
  <2>. QED
    BY <1>0, <2>1, <2>2, <2>3, <2>4 DEF InboxInv, Final
<1>4. CASE AnswerKept
  <2>1. /\ ws = "keeping" /\ msg.first > msg.upto /\ ws' = "marking"
        /\ UNCHANGED <<results, inbox, said, service, msg>>
    BY <1>4 DEF AnswerKept, Kept, cloud
  <2>2. Len(results) \in Nat
    BY <1>0
  <2>3. Len(results) = msg.upto
    BY <1>0, <2>1, <2>2 DEF InboxInv
  <2>. QED
    BY <2>1, <2>3 DEF InboxInv, Final
<1>6. CASE Service
  <2>. DEFINE Grows(kind, n, status) ==
                /\ inbox' = Append(inbox, Answer(kind, n, status)) /\ said' = said + n
                /\ service = "listening" \/ n = 0
                /\ service' = "listening" => service = "listening"
                /\ kind = "words" /\ status = 2 => service' # "listening"
                /\ UNCHANGED <<results, msg, ws>>
  <2>1. \E kind, status : \E n \in Nat : Grows(kind, n, status)
    <3>1. ASSUME NEW kind, NEW status, Say(kind, status), service' \in {service, "final"},
                 kind = "words" /\ status = 2 => service' = "final"
          PROVE  \E n \in Nat : Grows(kind, n, status)
      <4>1. PICK n \in 0..MaxWords - said :
              said' = said + n /\ inbox' = Append(inbox, Answer(kind, n, status))
        BY <3>1 DEF Say
      <4>2. n \in Nat
        BY <1>0, SttAssumption
      <4>. QED
        BY <3>1, <4>1, <4>2 DEF Say, proxy, conn
    <3>2. ASSUME NEW kind, kind # "words", inbox' = Append(inbox, Answer(kind, 0, 0)),
                 service' # "listening", UNCHANGED <<proxy, conn, said>>
          PROVE  Grows(kind, 0, 0)
      BY <1>0, <3>2 DEF proxy, conn
    <3>. HIDE DEF Grows
    <3>3. CASE ServiceSays \/ ServiceGarbles \/ ServiceEnds
      BY <3>1, <3>3 DEF ServiceSays, ServiceGarbles, ServiceEnds
    <3>4. CASE ServiceRefuses \/ ServiceCloses
      BY <3>2, <3>4 DEF ServiceRefuses, ServiceCloses
    <3>. QED
      BY <1>6, <3>3, <3>4 DEF Service
  <2>10. PICK kind, status : \E n \in Nat : Grows(kind, n, status)
    BY <2>1
  <2>9. PICK n \in Nat : Grows(kind, n, status)
    BY <2>10
  <2>2. PICK b : /\ inbox' = Append(inbox, b) /\ said' = said + n
                 /\ b.first = said + 1 /\ b.upto = said + n
                 /\ Final(b) => service' # "listening"
    BY <2>9 DEF Answer, Final
  <2>3. /\ Len(inbox') = Len(inbox) + 1 /\ Len(inbox) \in Nat
        /\ inbox'[Len(inbox) + 1] = b
        /\ \A i \in 1..Len(inbox) : inbox'[i] = inbox[i]
    BY <1>0, <2>2
  <2>4. said = IF Len(inbox) = 0 THEN msg.upto ELSE inbox[Len(inbox)].upto
    BY DEF InboxInv
  <2>5. said <= said' /\ (service # "listening" => said' = said /\ service' # "listening")
    BY <1>0, <2>9
  <2>6. ASSUME NEW i \in 1..Len(inbox')
        PROVE  /\ inbox'[i].first = (IF i = 1 THEN msg.upto ELSE inbox'[i - 1].upto) + 1
               /\ inbox'[i].first <= inbox'[i].upto + 1 /\ inbox'[i].upto <= said'
               /\ Final(inbox'[i]) => inbox'[i].upto = said' /\ service' # "listening"
    <3>1. CASE i = Len(inbox) + 1
      <4>1. inbox'[i] = b
        BY <2>3, <3>1
      <4>2. said = IF i = 1 THEN msg.upto ELSE inbox'[i - 1].upto
        BY <2>3, <2>4, <3>1
      <4>3. b.first = (IF i = 1 THEN msg.upto ELSE inbox'[i - 1].upto) + 1
        BY <2>2, <4>2
      <4>4. b.first <= b.upto + 1 /\ b.upto = said'
        BY <1>0, <2>2
      <4>5. said' \in Nat
        BY <1>0, <2>2
      <4>. QED
        BY <2>2, <4>1, <4>3, <4>4, <4>5
    <3>2. CASE i \in 1..Len(inbox)
      <4>1. inbox'[i] = inbox[i] /\ (i # 1 => inbox'[i - 1] = inbox[i - 1])
        BY <2>3, <3>2
      <4>2. /\ inbox[i].first = (IF i = 1 THEN msg.upto ELSE inbox[i - 1].upto) + 1
            /\ inbox[i].first <= inbox[i].upto + 1 /\ inbox[i].upto <= said
            /\ Final(inbox[i]) => inbox[i].upto = said /\ service # "listening"
        BY <3>2 DEF InboxInv
      <4>3. inbox[i].upto \in Nat /\ said' \in Nat
        BY <1>0, <1>5, <2>2, <3>2
      <4>. QED
        BY <1>0, <2>5, <4>1, <4>2, <4>3
    <3>. QED
      BY <2>3, <3>1, <3>2
  <2>7. said' = IF Len(inbox') = 0 THEN msg.upto ELSE inbox'[Len(inbox')].upto
    BY <2>2, <2>3
  <2>8. msg.upto <= said' /\ (Final(msg) => msg.upto = said' /\ service' # "listening")
    <3>1. msg.upto <= said /\ (Final(msg) => msg.upto = said /\ service # "listening")
      BY DEF InboxInv
    <3>. QED
      BY <1>0, <2>2, <2>5, <3>1
  <2>. QED
    BY <2>9, <2>6, <2>7, <2>8 DEF InboxInv, Final
<1>. QED
  BY <1>1, <1>2, <1>3, <1>4, <1>6, OnlyTheseMoveWords

LEMMA WholeStep == TypeOK /\ InboxInv /\ WholeInv /\ [Next]_vars => WholeInv'
<1>. SUFFICES ASSUME TypeOK, InboxInv, WholeInv, [Next]_vars
              PROVE  WholeInv'
  OBVIOUS
<1>. USE DEF WholeInv, FinalTaken, FinalIsWhole
<1>0. results \in Seq(Nat) /\ said \in Nat /\ msg \in Answers
  BY SttAssumption DEF TypeOK
<1>1. CASE Sender
  <2>1. /\ done' = done \/ (done = "no" /\ done' = "error")
        /\ UNCHANGED <<service, said, ws, msg, handler, woken, answer, results>>
    BY <1>1 DEF Sender, SendFrame, SenderEnds, SendRaises, SenderFails, Set,
                proxy, cloud, conn, hand
  <2>. QED
    BY <2>1
<1>2. CASE OnMessage
  BY <1>2 DEF OnMessage, proxy, hand
<1>11. CASE KeepWord
  <2>1. /\ ws = "keeping" /\ msg.first <= msg.upto
        /\ UNCHANGED <<done, service, said, handler, woken, answer, ws>>
    BY <1>11 DEF KeepWord, cloud, hand
  <2>2. msg.first = Len(results) + 1 /\ msg.upto <= said
        /\ Len(results) \in Nat /\ msg.upto \in Nat /\ msg.first \in Nat
    BY <1>0, <2>1, SttAssumption DEF InboxInv, Answers
  <2>3. done # "final"
    BY <1>0, <2>1, <2>2
  <2>. QED
    BY <2>1, <2>3
<1>12. CASE AnswerKept
  <2>1. /\ ws' = "marking"
        /\ UNCHANGED <<results, done, service, said, handler, woken, answer, msg>>
    BY <1>12 DEF AnswerKept, Kept, cloud, hand
  <2>2. Len(results') = msg'.upto /\ (Final(msg) => msg.upto = said /\ service # "listening")
    BY <2>1, InboxStep DEF InboxInv
  <2>. QED
    BY <2>1, <2>2 DEF Final
<1>3. CASE OnOpen \/ OnError \/ OnErrorDone \/ OnMessageDone \/ OnEnd \/ SeesClose \/ OnClose
  <2>1. /\ \/ done' = done
           \/ done = "no" /\ done' # "final"
           \/ done = "no" /\ ws = "marking" /\ Final(msg)
        /\ ws' # "marking"
        /\ UNCHANGED <<service, said, handler, woken, answer, results>>
    BY <1>3 DEF OnOpen, OnError, OnErrorDone, OnMessageDone, OnEnd, SeesClose, OnClose,
                Set, Final, proxy, cloud, hand
  <2>. QED
    BY <2>1
<1>4. CASE Wake
  BY <1>4 DEF Wake, proxy, cloud, conn
<1>5. CASE Expire
  BY <1>5 DEF Expire, proxy, cloud, conn
<1>6. CASE CloseSocket
  BY <1>6 DEF CloseSocket, proxy, cloud
<1>7. CASE CheckError
  BY <1>7 DEF CheckError, Failure, proxy, cloud, conn
<1>8. CASE Join
  <2>1. /\ answer' = Text(results) /\ handler' = "returned" /\ woken' = woken
        /\ UNCHANGED <<results, done, service, said, ws, msg>>
    BY <1>8 DEF Join, proxy, cloud, conn
  <2>2. answer'.text = results /\ answer'.kind = "text"
    BY <2>1 DEF Text
  <2>3. woken = "final" => results = [n \in 1..said |-> n]
    <3>1. results = [n \in 1..Len(results) |-> results[n]]
      BY <1>0
    <3>2. \A n \in 1..Len(results) : results[n] = n
      BY DEF InboxInv
    <3>3. results = [n \in 1..Len(results) |-> n]
      BY <3>1, <3>2
    <3>. QED
      BY <3>3
  <2>. QED
    BY <2>1, <2>2, <2>3
<1>9. CASE Service
  <2>1. /\ said' # said \/ service' = "listening" => service = "listening"
        /\ UNCHANGED <<results, done, ws, msg, handler, woken, answer>>
    BY <1>9 DEF Service, ServiceSays, ServiceGarbles, ServiceEnds, Say, ServiceRefuses,
                ServiceCloses, proxy, conn, hand
  <2>. QED
    BY <2>1
<1>10. CASE UNCHANGED vars
  BY <1>10 DEF vars, proxy, cloud, conn, hand
<1>. QED
  BY <1>1, <1>2, <1>3, <1>4, <1>5, <1>6, <1>7, <1>8, <1>9, <1>10, <1>11, <1>12
     DEF Next, WebSocket, Handler, Finished

\* A text returned because the final answer had come is the whole text,
\* whatever the callbacks and the sender were doing when it was joined.
THEOREM FinalAlwaysWhole == Spec => []FinalIsWhole
<1>1. Init => InboxInv /\ WholeInv
  BY DEF Init, InboxInv, WholeInv, FinalTaken, FinalIsWhole, Final, Answer, NoAnswer
<1>2. WholeInv => FinalIsWhole
  BY DEF WholeInv
<1>3. TypeOK /\ (InboxInv /\ WholeInv) /\ [Next]_vars => (InboxInv /\ WholeInv)'
  BY InboxStep, WholeStep
<1>. QED
  BY <1>1, <1>2, <1>3, TypeCorrect, PTL DEF Spec
=============================================================================
