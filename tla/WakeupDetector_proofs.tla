------------------------ MODULE WakeupDetector_proofs ------------------------
(***************************************************************************)
(* What holds of the wake-up detector in every state, for any number of    *)
(* thread objects, any words and any size of the buffer.                   *)
(***************************************************************************)
EXTENDS WakeupDetector, TLAPS

\* A thread holds a buffer from the start of its capture to its end, and reads
\* only into the part that is left.
Buffers ==
  \A t \in Threads :
    /\ thread[t] \in {"none", "begin"} <=> total_read[t] = -1
    /\ thread[t] = "reading" => total_read[t] < Window

\* Somebody who will stop the capture again.
Owned ==
  recording => MainOwns \/ \E t \in Threads : thread[t] \notin {"none", "begin"}

\* Unless a start of the capture failed, a stop was overtaken by a start or the
\* assistant stopped the capture, there is one thread and its capture is on.
Alone == \A s, t \in Threads : s \in Alive /\ t \in Alive => s = t

Recorded == \A t \in Threads : thread[t] \notin {"none", "begin"} => recording

IInv ==
  /\ TypeOK
  /\ Buffers
  /\ Owned
  /\ faults = {} => Alone /\ Recorded

LEMMA Moves ==
  ASSUME IInv, NEW t \in Threads, NEW call, NEW reads, reads \in -1 .. Window,
         call \in {"none", "begin"} <=> reads = -1,
         call = "reading" => reads < Window,
         thread' = [thread EXCEPT ![t] = call],
         total_read' = [total_read EXCEPT ![t] = reads]
  PROVE  /\ total_read' \in [Threads -> -1 .. Window]
         /\ Buffers'
<1>1. /\ DOMAIN thread = Threads
      /\ total_read \in [Threads -> -1 .. Window]
  BY DEF IInv, TypeOK
<1>2. \A s \in Threads : /\ thread'[s] = IF s = t THEN call ELSE thread[s]
                         /\ total_read'[s] = IF s = t THEN reads ELSE total_read[s]
  BY <1>1
<1>3. total_read' \in [Threads -> -1 .. Window]
  BY <1>1
<1>4. Buffers'
  <2> SUFFICES ASSUME NEW s \in Threads
               PROVE  /\ thread'[s] \in {"none", "begin"} <=> total_read'[s] = -1
                      /\ thread'[s] = "reading" => total_read'[s] < Window
    BY DEF Buffers
  <2>1. CASE s = t
    BY <1>2, <2>1
  <2>2. CASE s # t
    BY <1>2, <2>2 DEF IInv, Buffers
  <2> QED
    BY <2>1, <2>2
<1> QED
  BY <1>3, <1>4

LEMMA Pairs ==
  ASSUME NEW S, NEW a \in S
  PROVE  <<a, a>> \in S \X S
OBVIOUS

LEMMA Semaphore ==
  ASSUME NEW sem \in 0 .. SemMax
  PROVE  /\ Released(sem) \in 0 .. SemMax
         /\ sem > 0 => sem - 1 \in 0 .. SemMax
BY SemAssumption DEF Released

LEMMA InitOK == Init => IInv
<1> SUFFICES ASSUME Init PROVE IInv
  OBVIOUS
<1>1. Unset \in ({""} \cup Words) \X ({""} \cup Words)
  <2>1. "" \in {""} \cup Words
    OBVIOUS
  <2> QED
    BY <2>1, Pairs DEF Unset
<1>2. total_read \in [Threads -> -1 .. Window]
  BY WindowAssumption DEF Init
<1>3. TypeOK
  <2>1. 0 \in 0 .. SemMax
    BY SemAssumption
  <2> QED
    BY <1>1, <1>2, <2>1 DEF Init, TypeOK
<1>4. Buffers /\ Owned /\ Alone /\ Recorded
  BY DEF Init, Buffers, Owned, MainOwns, Alone, Recorded, Alive
<1> QED
  BY <1>3, <1>4 DEF IInv

LEMMA NoBufferOK ==
  ASSUME IInv, NEW t \in Threads, NoBuffer(t)
  PROVE  IInv'
<1>1. TypeOK'
  BY StopTicksAssumption DEF IInv, TypeOK, NoBuffer, Goto, ctrl, user, assistant
<1>2. Buffers'
  BY WindowAssumption DEF IInv, TypeOK, Buffers, NoBuffer, Goto, ctrl, user, assistant
<1>3. Owned'
  BY DEF IInv, TypeOK, Buffers, Owned, MainOwns, NoBuffer, Goto, ctrl, user, assistant
<1>4. faults' = {} => Alone' /\ Recorded'
  BY DEF IInv, TypeOK, Alone, Recorded, Alive, NoBuffer, Goto, ctrl, user, assistant
<1> QED
  BY <1>1, <1>2, <1>3, <1>4 DEF IInv

LEMMA BeginOK ==
  ASSUME IInv, NEW t \in Threads, Begin(t)
  PROVE  IInv'
<1>1. PICK call : call \notin {"none", "begin", "reading"} /\ thread' = [thread EXCEPT ![t] = call]
  BY DEF Begin, Goto, CaptureStart
<1>2. total_read' = [total_read EXCEPT ![t] = 0] /\ 0 \in -1 .. Window
  BY WindowAssumption DEF Begin, Goto, CaptureStart
<1>3. 0 # -1
  OBVIOUS
<1>4. total_read' \in [Threads -> -1 .. Window] /\ Buffers'
  BY <1>1, <1>2, <1>3, Moves
<1>5. TypeOK'
  BY <1>4 DEF IInv, TypeOK, Begin, Goto, CaptureStart, ctrl, user, assistant
<1>6. Owned'
  BY DEF IInv, TypeOK, Buffers, Owned, MainOwns, Begin, Goto, CaptureStart, ctrl,
         user, assistant
<1>7. faults' = {} => Alone' /\ Recorded'
  BY DEF IInv, TypeOK, Alone, Recorded, Alive, Begin, Goto, CaptureStart, ctrl, user,
         assistant
<1> QED
  BY <1>4, <1>5, <1>6, <1>7 DEF IInv

LEMMA WhileOK ==
  ASSUME IInv, NEW t \in Threads, While(t)
  PROVE  IInv'
<1>1. PICK call : call \notin {"none", "begin", "reading"} /\ thread' = [thread EXCEPT ![t] = call]
  BY DEF While, Goto
<1>2. total_read' = [total_read EXCEPT ![t] = 0] /\ 0 \in -1 .. Window
  BY WindowAssumption DEF While, Goto
<1>3. 0 # -1
  OBVIOUS
<1>4. total_read' \in [Threads -> -1 .. Window] /\ Buffers'
  BY <1>1, <1>2, <1>3, Moves
<1>5. TypeOK'
  BY <1>4 DEF IInv, TypeOK, While, Goto, ctrl, user, assistant
<1>6. Owned'
  BY DEF IInv, TypeOK, Buffers, Owned, MainOwns, While, Goto, ctrl, user, assistant
<1>7. faults' = {} => Alone' /\ Recorded'
  BY DEF IInv, TypeOK, Alone, Recorded, Alive, While, Goto, ctrl, user, assistant
<1> QED
  BY <1>4, <1>5, <1>6, <1>7 DEF IInv

LEMMA ReadOK ==
  ASSUME IInv, NEW t \in Threads, Read(t)
  PROVE  IInv'
<1>1. TypeOK'
  BY StopTicksAssumption DEF IInv, TypeOK, Read, StartRead, Goto, ctrl, user, assistant
<1>2. Buffers'
  BY WindowAssumption DEF IInv, TypeOK, Buffers, Read, StartRead, Goto, ctrl, user,
                          assistant
<1>3. Owned'
  BY DEF IInv, TypeOK, Buffers, Owned, MainOwns, Read, StartRead, Goto, ctrl, user,
         assistant
<1>4. faults' = {} => Alone' /\ Recorded'
  BY DEF IInv, TypeOK, Alone, Recorded, Alive, Read, StartRead, Goto, ctrl, user,
         assistant
<1> QED
  BY <1>1, <1>2, <1>3, <1>4 DEF IInv

LEMMA ReadReturnsOK ==
  ASSUME IInv, NEW t \in Threads, ReadReturns(t)
  PROVE  IInv'
<1>1. PICK call : call \notin {"none", "begin", "reading"} /\ thread' = [thread EXCEPT ![t] = call]
  BY DEF ReadReturns, Goto
<1>2. PICK reads : reads \in 0 .. Window /\ total_read' = [total_read EXCEPT ![t] = reads]
  <2>1. total_read[t] \in -1 .. Window /\ total_read[t] # -1 /\ total_read[t] < Window
    BY DEF IInv, Buffers, TypeOK, ReadReturns
  <2>2. total_read[t] \in 0 .. Window /\ total_read[t] + 1 \in 0 .. Window
    BY <2>1, WindowAssumption
  <2>3. CASE total_read' = [total_read EXCEPT ![t] = @ + 1]
    BY <2>2, <2>3
  <2>4. CASE total_read' = total_read
    <3>1. total_read' = [total_read EXCEPT ![t] = total_read[t]]
      BY <2>4 DEF IInv, TypeOK
    <3> QED
      BY <2>2, <3>1
  <2> QED
    BY <2>3, <2>4 DEF ReadReturns
<1>3. reads \in -1 .. Window /\ reads # -1
  BY <1>2, WindowAssumption
<1>4. total_read' \in [Threads -> -1 .. Window] /\ Buffers'
  BY <1>1, <1>2, <1>3, Moves
<1>5. TypeOK'
  BY <1>4 DEF IInv, TypeOK, ReadReturns, Goto, ctrl, user, assistant
<1>6. Owned'
  BY DEF IInv, TypeOK, Buffers, Owned, MainOwns, ReadReturns, Goto, ctrl, user,
         assistant
<1>7. faults' = {} => Alone' /\ Recorded'
  BY DEF IInv, TypeOK, Alone, Recorded, Alive, ReadReturns, Goto, ctrl, user, assistant
<1> QED
  BY <1>4, <1>5, <1>6, <1>7 DEF IInv

LEMMA FilledOK ==
  ASSUME IInv, NEW t \in Threads, Filled(t)
  PROVE  IInv'
<1>1. TypeOK'
  BY StopTicksAssumption DEF IInv, TypeOK, Filled, EndWindow, Goto, ctrl, user,
                             assistant
<1>2. Buffers'
  BY WindowAssumption DEF IInv, TypeOK, Buffers, Filled, EndWindow, Goto, ctrl, user,
                          assistant
<1>3. Owned'
  BY DEF IInv, TypeOK, Buffers, Owned, MainOwns, Filled, EndWindow, Goto, ctrl, user,
         assistant
<1>4. faults' = {} => Alone' /\ Recorded'
  BY DEF IInv, TypeOK, Alone, Recorded, Alive, Filled, EndWindow, Goto, ctrl, user,
         assistant
<1> QED
  BY <1>1, <1>2, <1>3, <1>4 DEF IInv

LEMMA AnswerOK ==
  ASSUME IInv, NEW t \in Threads, Answer(t)
  PROVE  IInv'
<1>1. TypeOK'
  BY StopTicksAssumption DEF IInv, TypeOK, Answer, Goto, ctrl, user, assistant
<1>2. Buffers'
  BY WindowAssumption DEF IInv, TypeOK, Buffers, Answer, Goto, ctrl, user, assistant
<1>3. Owned'
  BY DEF IInv, TypeOK, Buffers, Owned, MainOwns, Answer, Goto, ctrl, user, assistant
<1>4. faults' = {} => Alone' /\ Recorded'
  BY DEF IInv, TypeOK, Alone, Recorded, Alive, Answer, Goto, ctrl, user, assistant
<1> QED
  BY <1>1, <1>2, <1>3, <1>4 DEF IInv

LEMMA PauseOK ==
  ASSUME IInv, NEW t \in Threads, Pause(t)
  PROVE  IInv'
<1>1. TypeOK'
  BY StopTicksAssumption DEF IInv, TypeOK, Pause, Goto, ctrl, user, assistant
<1>2. Buffers'
  BY WindowAssumption DEF IInv, TypeOK, Buffers, Pause, Goto, ctrl, user, assistant
<1>3. Owned'
  BY DEF IInv, TypeOK, Buffers, Owned, MainOwns, Pause, Goto, ctrl, user, assistant
<1>4. faults' = {} => Alone' /\ Recorded'
  BY DEF IInv, TypeOK, Alone, Recorded, Alive, Pause, Goto, ctrl, user, assistant
<1> QED
  BY <1>1, <1>2, <1>3, <1>4 DEF IInv

LEMMA EndOK ==
  ASSUME IInv, NEW t \in Threads, End(t)
  PROVE  IInv'
<1>1. PICK call : call = "none" /\ thread' = [thread EXCEPT ![t] = call]
  BY DEF End, Leave, Goto, CaptureStop
<1>2. total_read' = [total_read EXCEPT ![t] = -1] /\ -1 \in -1 .. Window
  BY WindowAssumption DEF End, Leave, Goto, CaptureStop
<1>3. total_read' = [total_read EXCEPT ![t] = -1]
  BY <1>2
<1>4. total_read' \in [Threads -> -1 .. Window] /\ Buffers'
  BY <1>1, <1>2, <1>3, Moves
<1>5. TypeOK'
  BY <1>4 DEF IInv, TypeOK, End, Leave, Goto, CaptureStop, ctrl, user, assistant
<1>6. Owned'
  BY DEF IInv, TypeOK, Buffers, Owned, MainOwns, End, Leave, Goto, CaptureStop, ctrl,
         user, assistant
<1>7. faults' = {} => Alone' /\ Recorded'
  BY DEF IInv, TypeOK, Alone, Recorded, Alive, End, Leave, Goto, CaptureStop, ctrl,
         user, assistant
<1> QED
  BY <1>4, <1>5, <1>6, <1>7 DEF IInv

LEMMA SetWordOK ==
  ASSUME IInv, NEW w \in Words, SetWord(w)
  PROVE  IInv'
<1>1. TypeOK'
  BY StopTicksAssumption DEF IInv, TypeOK, SetWord, ctrl, user, assistant
<1>2. Buffers'
  BY WindowAssumption DEF IInv, TypeOK, Buffers, SetWord, ctrl, user, assistant
<1>3. Owned'
  BY DEF IInv, TypeOK, Buffers, Owned, MainOwns, SetWord, ctrl, user, assistant
<1>4. faults' = {} => Alone' /\ Recorded'
  BY DEF IInv, TypeOK, Alone, Recorded, Alive, SetWord, ctrl, user, assistant
<1> QED
  BY <1>1, <1>2, <1>3, <1>4 DEF IInv

LEMMA CopyWordOK ==
  ASSUME IInv, CopyWord
  PROVE  IInv'
<1>1. TypeOK'
  BY StopTicksAssumption DEF IInv, TypeOK, CopyWord, ctrl, user, assistant
<1>2. Buffers'
  BY WindowAssumption DEF IInv, TypeOK, Buffers, CopyWord, ctrl, user, assistant
<1>3. Owned'
  BY DEF IInv, TypeOK, Buffers, Owned, MainOwns, CopyWord, ctrl, user, assistant
<1>4. faults' = {} => Alone' /\ Recorded'
  BY DEF IInv, TypeOK, Alone, Recorded, Alive, CopyWord, ctrl, user, assistant
<1> QED
  BY <1>1, <1>2, <1>3, <1>4 DEF IInv

LEMMA StartRunningOK ==
  ASSUME IInv, StartRunning
  PROVE  IInv'
<1>1. TypeOK'
  BY StopTicksAssumption DEF IInv, TypeOK, StartRunning, ctrl, user, assistant
<1>2. Buffers'
  BY WindowAssumption DEF IInv, TypeOK, Buffers, StartRunning, ctrl, user, assistant
<1>3. Owned'
  BY DEF IInv, TypeOK, Buffers, Owned, MainOwns, StartRunning, ctrl, user, assistant
<1>4. faults' = {} => Alone' /\ Recorded'
  BY DEF IInv, TypeOK, Alone, Recorded, Alive, StartRunning, ctrl, user, assistant
<1> QED
  BY <1>1, <1>2, <1>3, <1>4 DEF IInv

LEMMA CreateOK ==
  ASSUME IInv, NEW t \in Threads, Create(t)
  PROVE  IInv'
<1>1. TypeOK'
  BY StopTicksAssumption DEF IInv, TypeOK, Create, Goto, ctrl, user, assistant
<1>2. Buffers'
  BY WindowAssumption DEF IInv, TypeOK, Buffers, Create, Goto, ctrl, user, assistant
<1>3. Owned'
  BY DEF IInv, TypeOK, Buffers, Owned, MainOwns, Create, Goto, ctrl, user, assistant
<1>4. faults' = {} => Alone' /\ Recorded'
  BY DEF IInv, TypeOK, Alone, Recorded, Alive, Create, Goto, ctrl, user, assistant
<1> QED
  BY <1>1, <1>2, <1>3, <1>4 DEF IInv

LEMMA CreateFailsOK ==
  ASSUME IInv, CreateFails
  PROVE  IInv'
<1>1. TypeOK'
  BY StopTicksAssumption DEF IInv, TypeOK, CreateFails, ctrl, user, assistant
<1>2. Buffers'
  BY WindowAssumption DEF IInv, TypeOK, Buffers, CreateFails, ctrl, user, assistant
<1>3. Owned'
  BY DEF IInv, TypeOK, Buffers, Owned, MainOwns, CreateFails, ctrl, user, assistant
<1>4. faults' = {} => Alone' /\ Recorded'
  BY DEF IInv, TypeOK, Alone, Recorded, Alive, CreateFails, ctrl, user, assistant
<1> QED
  BY <1>1, <1>2, <1>3, <1>4 DEF IInv

LEMMA StopOK ==
  ASSUME IInv, Stop
  PROVE  IInv'
<1>1. TypeOK'
  BY StopTicksAssumption DEF IInv, TypeOK, Stop, Shell, ctrl, user, assistant
<1>2. Buffers'
  BY WindowAssumption DEF IInv, TypeOK, Buffers, Stop, Shell, ctrl, user, assistant
<1>3. Owned'
  BY DEF IInv, TypeOK, Buffers, Owned, MainOwns, Stop, Shell, ctrl, user, assistant
<1>4. faults' = {} => Alone' /\ Recorded'
  BY DEF IInv, TypeOK, Alone, Recorded, Alive, Stop, Shell, ctrl, user, assistant
<1> QED
  BY <1>1, <1>2, <1>3, <1>4 DEF IInv

LEMMA StopReturnsOK ==
  ASSUME IInv, StopReturns
  PROVE  IInv'
<1>1. TypeOK'
  BY StopTicksAssumption DEF IInv, TypeOK, StopReturns, ctrl, user, assistant
<1>2. Buffers'
  BY WindowAssumption DEF IInv, TypeOK, Buffers, StopReturns, ctrl, user, assistant
<1>3. Owned'
  BY DEF IInv, TypeOK, Buffers, Owned, MainOwns, StopReturns, ctrl, user, assistant
<1>4. faults' = {} => Alone' /\ Recorded'
  BY DEF IInv, TypeOK, Alone, Recorded, Alive, StopReturns, ctrl, user, assistant
<1> QED
  BY <1>1, <1>2, <1>3, <1>4 DEF IInv

LEMMA MainBeginOK ==
  ASSUME IInv, NEW m \in Mains, MainBegin(m)
  PROVE  IInv'
<1>1. TypeOK'
  BY StopTicksAssumption, SemAssumption DEF IInv, TypeOK, MainBegin, CaptureStart,
      CaptureStop, StopShared, ProcessStart, MainGoto, Shell, ctrl, user, assistant
<1>2. Buffers'
  BY WindowAssumption DEF IInv, TypeOK, Buffers, MainBegin, CaptureStart,
         CaptureStop, StopShared, ProcessStart, MainGoto, ctrl, user, assistant
<1>3. Owned'
  BY DEF IInv, TypeOK, Buffers, Owned, MainOwns, MainBegin, CaptureStart,
         CaptureStop, StopShared, ProcessStart, MainGoto, ctrl, user, assistant
<1>4. faults' = {} => Alone' /\ Recorded'
  BY DEF IInv, TypeOK, Alone, Recorded, Alive, MainBegin, CaptureStart, CaptureStop,
         StopShared, ProcessStart, MainGoto, ctrl, user, assistant
<1> QED
  BY <1>1, <1>2, <1>3, <1>4 DEF IInv

LEMMA MainWokenOK ==
  ASSUME IInv, NEW m \in Mains, MainWoken(m)
  PROVE  IInv'
<1>1. speech_ready_sem' \in 0 .. SemMax
  <2>1. speech_ready_sem \in 0 .. SemMax
    BY DEF IInv, TypeOK
  <2>2. speech_ready_sem' = speech_ready_sem - 1 /\ speech_ready_sem > 0
    BY DEF MainWoken
  <2> QED
    BY <2>1, <2>2, Semaphore
<1>2. TypeOK'
  BY <1>1, StopTicksAssumption DEF IInv, TypeOK, MainWoken, MainGoto, Shell, ctrl,
                                   user, assistant
<1>3. Buffers'
  BY WindowAssumption DEF IInv, TypeOK, Buffers, MainWoken, MainGoto, ctrl, user,
                          assistant
<1>4. Owned'
  BY DEF IInv, TypeOK, Buffers, Owned, MainOwns, MainWoken, MainGoto, ctrl, user,
         assistant
<1>5. faults' = {} => Alone' /\ Recorded'
  BY DEF IInv, TypeOK, Alone, Recorded, Alive, MainWoken, MainGoto, ctrl, user,
         assistant
<1> QED
  BY <1>2, <1>3, <1>4, <1>5 DEF IInv

LEMMA MainRestartOK ==
  ASSUME IInv, NEW m \in Mains, MainRestart(m)
  PROVE  IInv'
<1>1. TypeOK'
  BY StopTicksAssumption, SemAssumption DEF IInv, TypeOK, MainRestart, CaptureStart,
      ProcessStart, MainGoto, WaitOrEnd, Shell, ctrl, user, assistant
<1>2. Buffers'
  BY WindowAssumption DEF IInv, TypeOK, Buffers, MainRestart, CaptureStart,
                          ProcessStart, MainGoto, WaitOrEnd, ctrl, user, assistant
<1>3. Owned'
  BY DEF IInv, TypeOK, Buffers, Owned, MainOwns, MainRestart, CaptureStart,
         ProcessStart, MainGoto, WaitOrEnd, ctrl, user, assistant
<1>4. faults' = {} => Alone' /\ Recorded'
  BY DEF IInv, TypeOK, Alone, Recorded, Alive, MainRestart, CaptureStart,
         ProcessStart, MainGoto, WaitOrEnd, ctrl, user, assistant
<1> QED
  BY <1>1, <1>2, <1>3, <1>4 DEF IInv

LEMMA MainAnswerOK ==
  ASSUME IInv, NEW m \in Mains, MainAnswer(m)
  PROVE  IInv'
<1>1. TypeOK'
  BY StopTicksAssumption, SemAssumption DEF IInv, TypeOK, MainAnswer, MainGoto,
      WaitOrEnd, Shell, ctrl, user, assistant
<1>2. Buffers'
  BY WindowAssumption DEF IInv, TypeOK, Buffers, MainAnswer, MainGoto, WaitOrEnd,
                          ctrl, user, assistant
<1>3. Owned'
  BY DEF IInv, TypeOK, Buffers, Owned, MainOwns, MainAnswer, MainGoto, WaitOrEnd,
         ctrl, user, assistant
<1>4. faults' = {} => Alone' /\ Recorded'
  BY DEF IInv, TypeOK, Alone, Recorded, Alive, MainAnswer, MainGoto, WaitOrEnd, ctrl,
         user, assistant
<1> QED
  BY <1>1, <1>2, <1>3, <1>4 DEF IInv

LEMMA MainEndOK ==
  ASSUME IInv, NEW m \in Mains, MainEnd(m)
  PROVE  IInv'
<1>1. TypeOK'
  BY StopTicksAssumption, SemAssumption DEF IInv, TypeOK, MainEnd, MainGoto, Shell,
      ctrl, user, assistant
<1>2. Buffers'
  BY WindowAssumption DEF IInv, TypeOK, Buffers, MainEnd, MainGoto, ctrl, user,
                          assistant
<1>3. Owned'
  BY DEF IInv, TypeOK, Buffers, Owned, MainOwns, MainEnd, MainGoto, ctrl, user,
         assistant
<1>4. faults' = {} => Alone' /\ Recorded'
  BY DEF IInv, TypeOK, Alone, Recorded, Alive, MainEnd, MainGoto, ctrl, user, assistant
<1> QED
  BY <1>1, <1>2, <1>3, <1>4 DEF IInv

LEMMA MainCloseOK ==
  ASSUME IInv, NEW m \in Mains, MainClose(m)
  PROVE  IInv'
<1>1. TypeOK'
  BY StopTicksAssumption, SemAssumption DEF IInv, TypeOK, MainClose, CaptureStop,
      StopShared, MainGoto, Shell, ctrl, user, assistant
<1>2. Buffers'
  BY WindowAssumption DEF IInv, TypeOK, Buffers, MainClose, CaptureStop, StopShared,
                          MainGoto, ctrl, user, assistant
<1>3. Owned'
  BY DEF IInv, TypeOK, Buffers, Owned, MainOwns, MainClose, CaptureStop, StopShared,
         MainGoto, ctrl, user, assistant
<1>4. faults' = {} => Alone' /\ Recorded'
  BY DEF IInv, TypeOK, Alone, Recorded, Alive, MainClose, CaptureStop, StopShared,
         MainGoto, ctrl, user, assistant
<1> QED
  BY <1>1, <1>2, <1>3, <1>4 DEF IInv

LEMMA DeliveredOK ==
  ASSUME IInv, Delivered
  PROVE  IInv'
<1>1. speech_ready_sem' \in 0 .. SemMax
  <2>1. speech_ready_sem \in 0 .. SemMax
    BY DEF IInv, TypeOK
  <2>2. speech_ready_sem' = Released(speech_ready_sem)
    BY DEF Delivered
  <2> QED
    BY <2>1, <2>2, Semaphore
<1>2. TypeOK'
  BY <1>1, StopTicksAssumption DEF IInv, TypeOK, Delivered, Shell, ctrl, user, assistant
<1>3. Buffers'
  BY WindowAssumption DEF IInv, TypeOK, Buffers, Delivered, Released, ctrl, user,
                          assistant
<1>4. Owned'
  BY DEF IInv, TypeOK, Buffers, Owned, MainOwns, Delivered, Released, ctrl, user,
         assistant
<1>5. faults' = {} => Alone' /\ Recorded'
  BY DEF IInv, TypeOK, Alone, Recorded, Alive, Delivered, Released, ctrl, user,
         assistant
<1> QED
  BY <1>2, <1>3, <1>4, <1>5 DEF IInv

LEMMA ReadFailsOK ==
  ASSUME IInv, ReadFails
  PROVE  IInv'
<1>1. TypeOK'
  BY StopTicksAssumption, SemAssumption DEF IInv, TypeOK, ReadFails, Shell, ctrl,
      user, assistant
<1>2. Buffers'
  BY WindowAssumption DEF IInv, TypeOK, Buffers, ReadFails, ctrl, user, assistant
<1>3. Owned'
  BY DEF IInv, TypeOK, Buffers, Owned, MainOwns, ReadFails, ctrl, user, assistant
<1>4. faults' = {} => Alone' /\ Recorded'
  BY DEF IInv, TypeOK, Alone, Recorded, Alive, ReadFails, ctrl, user, assistant
<1> QED
  BY <1>1, <1>2, <1>3, <1>4 DEF IInv

LEMMA AssistantStartOK ==
  ASSUME IInv, NEW m \in Mains, AssistantStart(m)
  PROVE  IInv'
<1>1. TypeOK'
  BY StopTicksAssumption, SemAssumption DEF IInv, TypeOK, AssistantStart, MainGoto,
      Shell, ctrl, user, assistant
<1>2. Buffers'
  BY WindowAssumption DEF IInv, TypeOK, Buffers, AssistantStart, MainGoto, ctrl,
                          user, assistant
<1>3. Owned'
  BY DEF IInv, TypeOK, Buffers, Owned, MainOwns, AssistantStart, MainGoto, ctrl,
         user, assistant
<1>4. faults' = {} => Alone' /\ Recorded'
  BY DEF IInv, TypeOK, Alone, Recorded, Alive, AssistantStart, MainGoto, ctrl, user,
         assistant
<1> QED
  BY <1>1, <1>2, <1>3, <1>4 DEF IInv

LEMMA AssistantStopOK ==
  ASSUME IInv, AssistantStop
  PROVE  IInv'
<1>1. TypeOK'
  BY StopTicksAssumption, SemAssumption DEF IInv, TypeOK, AssistantStop, Shell, ctrl,
      user, assistant
<1>2. Buffers'
  BY WindowAssumption DEF IInv, TypeOK, Buffers, AssistantStop, ctrl, user, assistant
<1>3. Owned'
  BY DEF IInv, TypeOK, Buffers, Owned, MainOwns, AssistantStop, ctrl, user, assistant
<1>4. faults' = {} => Alone' /\ Recorded'
  BY DEF IInv, TypeOK, Alone, Recorded, Alive, AssistantStop, ctrl, user, assistant
<1> QED
  BY <1>1, <1>2, <1>3, <1>4 DEF IInv

LEMMA AssistantCloseOK ==
  ASSUME IInv, AssistantClose
  PROVE  IInv'
<1>1. TypeOK'
  BY StopTicksAssumption, SemAssumption DEF IInv, TypeOK, AssistantClose,
      CaptureStop, StopShared, Shell, ctrl, user, assistant
<1>2. Buffers'
  BY WindowAssumption DEF IInv, TypeOK, Buffers, AssistantClose, CaptureStop,
                          StopShared, ctrl, user, assistant
<1>3. Owned'
  BY DEF IInv, TypeOK, Buffers, Owned, MainOwns, AssistantClose, CaptureStop,
         StopShared, ctrl, user, assistant
<1>4. faults' = {} => Alone' /\ Recorded'
  BY DEF IInv, TypeOK, Alone, Recorded, Alive, AssistantClose, CaptureStop,
         StopShared, ctrl, user, assistant
<1> QED
  BY <1>1, <1>2, <1>3, <1>4 DEF IInv

LEMMA AssistantLowerOK ==
  ASSUME IInv, AssistantLower
  PROVE  IInv'
<1>1. speech_ready_sem' \in 0 .. SemMax
  <2>1. speech_ready_sem \in 0 .. SemMax
    BY DEF IInv, TypeOK
  <2>2. speech_ready_sem' = Released(speech_ready_sem)
    BY DEF AssistantLower
  <2> QED
    BY <2>1, <2>2, Semaphore
<1>2. TypeOK'
  BY <1>1, StopTicksAssumption DEF IInv, TypeOK, AssistantLower, Shell, ctrl, user,
                                   assistant
<1>3. Buffers'
  BY WindowAssumption DEF IInv, TypeOK, Buffers, AssistantLower, Released, ctrl,
                          user, assistant
<1>4. Owned'
  BY DEF IInv, TypeOK, Buffers, Owned, MainOwns, AssistantLower, Released, ctrl,
         user, assistant
<1>5. faults' = {} => Alone' /\ Recorded'
  BY DEF IInv, TypeOK, Alone, Recorded, Alive, AssistantLower, Released, ctrl, user,
         assistant
<1> QED
  BY <1>2, <1>3, <1>4, <1>5 DEF IInv

LEMMA TickOK ==
  ASSUME IInv, Tick
  PROVE  IInv'
<1>1. delay' \in [Threads \cup {Shell} -> Nat]
  <2>1. \A p \in DOMAIN delay : delay[p] \in Nat
    BY DEF IInv, TypeOK
  <2>2. \A p \in DOMAIN delay : (IF delay[p] > 0 THEN delay[p] - 1 ELSE 0) \in Nat
    BY <2>1
  <2>3. DOMAIN delay = Threads \cup {Shell}
    BY DEF IInv, TypeOK
  <2> QED
    BY <2>2, <2>3 DEF Tick
<1> QED
  BY <1>1 DEF IInv, TypeOK, Buffers, Owned, MainOwns, Alone, Recorded, Alive, Tick,
              ctrl, user, assistant

\* Every step keeps the invariant.
THEOREM Inductive == Spec => []IInv
<1>1. IInv /\ [Next]_vars => IInv'
  <2> SUFFICES ASSUME IInv, [Next]_vars PROVE IInv'
    OBVIOUS
  <2>1. ASSUME NEW t \in Threads, Step(t) \/ Answer(t) PROVE IInv'
    BY <2>1, NoBufferOK, BeginOK, WhileOK, ReadOK, ReadReturnsOK, FilledOK, AnswerOK,
       PauseOK, EndOK DEF Step
  <2>2. ASSUME NEW w \in Words, SetWord(w) PROVE IInv'
    BY <2>2, SetWordOK
  <2>3. CASE Command
    BY <2>3, CopyWordOK, StartRunningOK, CreateOK, CreateFailsOK, StopReturnsOK,
       AssistantCloseOK, AssistantLowerOK DEF Command
  <2>4. ASSUME NEW m \in Mains, MainStep(m) \/ MainAnswer(m) \/ AssistantStart(m)
        PROVE  IInv'
    BY <2>4, MainBeginOK, MainWokenOK, MainRestartOK, MainAnswerOK, MainEndOK,
       MainCloseOK, AssistantStartOK DEF MainStep
  <2>5. CASE Delivered \/ ReadFails \/ Stop \/ AssistantStop \/ Tick
    BY <2>5, DeliveredOK, ReadFailsOK, StopOK, AssistantStopOK, TickOK
  <2>6. CASE UNCHANGED vars
    BY <2>6 DEF vars, ctrl, user, assistant, IInv, TypeOK, Buffers, Owned, MainOwns,
                Alone,
                Recorded, Alive
  <2> QED
    BY <2>1, <2>2, <2>3, <2>4, <2>5, <2>6 DEF Next
<1> QED
  BY <1>1, InitOK, PTL DEF Spec

\* The thread calls, delays and read counts of the detector stay in their ranges;
\* no thread reads past the end of its buffer.
\* (the loop over WAKEUP_BUFFER_SIZE in wakeup_detector_thread_entry)
THEOREM TypeCorrect == Spec => []TypeOK
<1>1. IInv => TypeOK
  BY DEF IInv
<1> QED
  BY <1>1, Inductive, PTL

\* No detector thread polls a capture that is off, with any number of threads
\* and any commands, but for the three events NeverSpins excepts.
\* (the inner read loop, which does not wait after an error)
THEOREM AlwaysWaits == Spec => []NeverSpins
<1>1. IInv => NeverSpins
  <2> SUFFICES ASSUME IInv, faults \cap {"capture", "hasty", "shared"} = {},
                      NEW t \in Threads, Spins(t)
               PROVE  FALSE
    BY DEF NeverSpins
  <2>1. faults = {}
    BY DEF IInv, TypeOK
  <2> QED
    BY <2>1 DEF IInv, Recorded, Spins
<1> QED
  BY <1>1, Inductive, PTL

\* When no detector thread is left, no buffer is, and the capture is on only
\* for an assistant thread that will stop it: what a stop leaves behind is
\* clean, whichever calls failed before.
\* (audio_capture_stop and rt_free at the end of wakeup_detector_thread_entry)
THEOREM EndsClean ==
  Spec => [](Alive = {} => /\ recording => MainOwns
                           /\ \A t \in Threads : total_read[t] = -1)
<1>1. IInv => (Alive = {} => /\ recording => MainOwns
                            /\ \A t \in Threads : total_read[t] = -1)
  BY DEF IInv, Buffers, Owned, Alive
<1> QED
  BY <1>1, Inductive, PTL
=============================================================================
