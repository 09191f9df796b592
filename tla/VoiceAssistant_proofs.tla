------------------------ MODULE VoiceAssistant_proofs ------------------------
(***************************************************************************)
(* The safety of the voice assistant, for any number of threads, any time  *)
(* limits in the proportions of the code's, and calls that fail at will.   *)
(*                                                                         *)
(* Nothing in the code keeps the threads apart but the order in which they *)
(* wake up: the invariant says at each wait who may be alive meanwhile.    *)
(***************************************************************************)
EXTENDS VoiceAssistant, FiniteSetTheorems, TLAPS

(* The inductive invariant. *)

Alive(p) == proc[p] # "none"

\* A processing thread that may still deliver an utterance.
Active(p) ==
  proc[p] \in {"read", "frame", "convert"} \/ (proc[p] = "loop" /\ processing)

MainIn(calls) == \E m \in Mains : main[m] \in calls

OneMain == \A m, n \in Mains : ~Ended(m) /\ ~Ended(n) => m = n
OneProc == \A p, q \in Procs : Alive(p) /\ Alive(q) => p = q

\* running is cleared in the middle of the stop command, and set by nobody
\* while a main thread is alive.
Running ==
  /\ shell \in {"refused", "forget", "halt", "mark", "lower"} => running
  /\ shell \in {"wake", "return"} => ~running
  /\ \A m \in Mains : main[m] \in {"stop", "forget", "close", "free"} => ~running

\* The microphone and the state of the capture differ while va_stop is between
\* the two, and whoever switched them on is alive.
Capturing ==
  /\ mic => recording
  /\ recording /\ ~mic => shell = "mark"
  /\ shell = "mark" => ~mic /\ (recording \/ \A m \in Mains : Ended(m))
  /\ mic => MainIn({"process", "while", "take", "restart", "listen", "stt", "stop",
                    "forget", "close"})

Processing ==
  /\ processing => MainIn({"while", "take", "restart", "listen", "stt", "stop"})
  /\ processing => \E p \in Procs : Alive(p)
  /\ processing /\ mic /\ ~process_thread => shell = "halt"

\* No processing thread is left when one is about to be made.
NoneLeft ==
  \A m \in Mains :
    /\ main[m] = "restart" => \A p \in Procs : ~Active(p)
    /\ main[m] \in {"capture", "process", "listen"} \/ (main[m] = "restart" /\ delay[m] = 0)
         => \A p \in Procs : ~Alive(p)

\* An utterance that has been delivered is the only one.
Delivered ==
  running /\ speech_ready_sem > 0 =>
    /\ speech_ready_sem = 1
    /\ \A p \in Procs : ~Active(p)
    /\ ~MainIn({"capture", "process", "restart", "listen"})

\* A read over a microphone that is off times out before va_stop returns.
Reading ==
  \A p \in Procs : proc[p] = "read" =>
    /\ delay[p] \in 1 .. ReadTicks
    /\ ~mic => \/ shell \in {"mark", "lower", "wake"}
               \/ shell = "return" /\ delay[p] <= delay[Shell]

\* Who has stopped the processing waits for the thread, a tick for the frame it
\* reads and one for what it does with it.
Pausing(n) ==
  \/ shell = "forget" /\ delay[Shell] >= n
  \/ \E m \in Mains : main[m] = "forget" /\ delay[m] >= n

Ending ==
  \A p \in Procs :
    /\ proc[p] \in {"frame", "convert", "reset"} => mic
    /\ proc[p] \in {"frame", "convert", "reset"} /\ ~processing => Pausing(1)
    /\ proc[p] = "read" /\ mic /\ ~processing => Pausing(2)

Buffer ==
  /\ \A p \in Procs : proc[p] = "convert" => pcm16_buffer = "filling"
  /\ pcm16_buffer # "null" =>
       MainIn({"while", "take", "restart", "listen", "stt", "stop", "forget", "close",
               "free"})
  /\ pcm16_buffer = "full" => long_enough
  /\ pcm16_buffer = "full" /\ running => speech_ready_sem > 0
  /\ \A m \in taken : main[m] \in {"restart", "listen", "stt"}

\* Without failures the main thread has somebody who listens, or an utterance.
Listening ==
  /\ \A p \in Procs : proc[p] = "reset" /\ running =>
       speech_ready_sem > 0 \/ MainIn({"restart"})
  /\ running /\ ~Stopping /\ faults \cap {"capture", "thread"} = {} =>
       \A m \in Mains :
         /\ main[m] \in {"process", "listen"} => mic
         /\ main[m] \in {"while", "take", "stt"} /\ speech_ready_sem = 0
              => mic /\ processing

CleanInv ==
  /\ OneMain /\ OneProc /\ Running /\ Capturing /\ Processing /\ NoneLeft
  /\ Delivered /\ Reading /\ Ending /\ Buffer /\ Listening

IInv == TypeOK /\ (Clean => CleanInv)

-----------------------------------------------------------------------------
(* Types. *)

LEMMA FailsType ==
  ASSUME TypeOK, NEW call, Fails(call)
  PROVE  faults' \subseteq MayFail \cup {"dirty_start"}
BY DEF TypeOK, Fails

LEMMA ReleasedType ==
  ASSUME NEW sem \in 0 .. SemMax
  PROVE  Released(sem) \in 0 .. SemMax
BY DelayAssumption DEF Released

LEMMA CaptureStartType ==
  ASSUME TypeOK, NEW ok \in BOOLEAN, CaptureStart(ok)
  PROVE  /\ recording' \in BOOLEAN /\ mic' \in BOOLEAN
         /\ faults' \subseteq MayFail \cup {"dirty_start"}
BY FailsType DEF TypeOK, CaptureStart, capture

LEMMA ProcessStartType ==
  ASSUME TypeOK, NEW ok \in BOOLEAN, ProcessStart(ok)
  PROVE  /\ processing' \in BOOLEAN /\ process_thread' \in BOOLEAN
         /\ proc' \in [Procs -> {"none", "loop", "read", "frame", "convert", "reset"}]
         /\ faults' \subseteq MayFail \cup {"dirty_start"}
BY FailsType DEF TypeOK, ProcessStart, process

LEMMA TypeStep ==
  ASSUME TypeOK, [Next]_vars
  PROVE  TypeOK'
<1> USE DelayAssumption DEF TypeOK
<1>1. CASE Start
  <2> USE <1>1 DEF Start
  <2>1. UNCHANGED <<state, trigger_sem, speech_ready_sem, pcm16_buffer, long_enough,
                    process, capture, proc, shell, taken, delay>>
    OBVIOUS
  <2>2. faults' \subseteq MayFail \cup {"dirty_start"}
    BY FailsType
  <2>3. running' \in BOOLEAN
    OBVIOUS
  <2>4. main' = main \/ \E m \in Mains : main' = [main EXCEPT ![m] = "capture"]
    OBVIOUS
  <2> QED
    BY <2>1, <2>2, <2>3, <2>4 DEF process, capture
<1>2. CASE Trigger
  BY <1>2, ReleasedType DEF Trigger, shared, process, capture
<1>3. CASE TriggerReturn
  BY <1>3 DEF TriggerReturn, shared, process, capture
<1>4. CASE Stop
  BY <1>4 DEF Stop, ProcessStop, Unprocess, AfterProcessStop, shared, process, capture
<1>5. CASE StopForget
  BY <1>5 DEF StopForget, shared, process, capture
<1>6. CASE StopHalt
  BY <1>6 DEF StopHalt, shared, process, capture
<1>7. CASE StopMark
  BY <1>7 DEF StopMark, shared, process, capture
<1>8. CASE StopLower
  BY <1>8, ReleasedType DEF StopLower, process, capture
<1>9. CASE StopWake
  BY <1>9, ReleasedType DEF StopWake, process, capture
<1>10. CASE StopReturn
  BY <1>10 DEF StopReturn, shared, process, capture
<1>11. CASE Tick
  BY <1>11 DEF Tick, shared, process, capture
<1>12. ASSUME NEW m \in Mains, MainCapture(m)
      PROVE  TypeOK'
  BY <1>12, CaptureStartType DEF MainCapture, At, Goto, shared, process, capture
<1>13. ASSUME NEW m \in Mains, MainProcess(m)
      PROVE  TypeOK'
  BY <1>13, ProcessStartType
  DEF MainProcess, At, Goto, CaptureStop, shared, process, capture
<1>14. ASSUME NEW m \in Mains, MainWhile(m)
      PROVE  TypeOK'
  BY <1>14 DEF MainWhile, At, Goto, shared, process, capture
<1>15. ASSUME NEW m \in Mains, MainWoken(m)
      PROVE  TypeOK'
  <2> USE <1>15 DEF MainWoken, Woken, At, Goto
  <2>1. UNCHANGED <<running, state, trigger_sem, process, capture, proc, shell, faults>>
    OBVIOUS
  <2>2. speech_ready_sem' \in 0 .. SemMax
    OBVIOUS
  <2>3. CASE running
    <3>1. /\ main' = [main EXCEPT ![m] = "restart"]
          /\ delay' = [delay EXCEPT ![m] = PauseTicks]
          /\ pcm16_buffer' = "null" /\ long_enough' = FALSE
      BY <2>3
    <3>2. taken \subseteq taken' /\ taken' \subseteq Mains
      BY <2>3
    <3> QED
      BY <2>1, <2>2, <3>1, <3>2 DEF process, capture
  <2>4. CASE ~running
    BY <2>1, <2>2, <2>4 DEF process, capture
  <2> QED
    BY <2>3, <2>4
<1>16. ASSUME NEW m \in Mains, MainRestart(m)
      PROVE  TypeOK'
  BY <1>16, CaptureStartType DEF MainRestart, At, Goto, shared, process, capture
<1>17. ASSUME NEW m \in Mains, MainListen(m)
      PROVE  TypeOK'
  BY <1>17, ProcessStartType DEF MainListen, At, Goto, ListenAgain, shared, process, capture
<1>18. ASSUME NEW m \in Mains, Answer(m)
      PROVE  TypeOK'
  BY <1>18 DEF Answer, At, Goto, shared, process, capture
<1>19. ASSUME NEW m \in Mains, MainStop(m)
      PROVE  TypeOK'
  <2>1. PICK call \in {"forget", "close"} : main' = [main EXCEPT ![m] = call]
    BY <1>19 DEF MainStop, Goto, AfterProcessStop
  <2>2. PICK ticks \in Nat : delay' = [delay EXCEPT ![m] = ticks]
    BY <1>19 DEF MainStop, ProcessStop, Unprocess
  <2>3. processing' = FALSE
    BY <1>19 DEF MainStop, ProcessStop, Unprocess
  <2>4. UNCHANGED <<shared, process_thread, capture, proc, shell, taken, faults>>
    BY <1>19 DEF MainStop, ProcessStop, Unprocess
  <2>5. /\ main' \in [Mains -> {"none", "capture", "process", "while", "take", "restart",
                              "listen", "stt", "stop", "forget", "close", "free"}]
        /\ \A n \in Mains : main'[n] = "stt" => n \in taken'
    BY <2>1, <2>4
  <2>6. delay' \in [Mains \cup Procs \cup {Shell} -> Nat]
    BY <2>2
  <2> QED
    BY <2>3, <2>4, <2>5, <2>6 DEF shared, capture
<1>20. ASSUME NEW m \in Mains, MainForget(m)
      PROVE  TypeOK'
  BY <1>20 DEF MainForget, At, Goto, shared, process, capture
<1>21. ASSUME NEW m \in Mains, MainClose(m)
      PROVE  TypeOK'
  BY <1>21 DEF MainClose, At, Goto, Close, CaptureStop, shared, process, capture
<1>22. ASSUME NEW m \in Mains, MainFree(m)
      PROVE  TypeOK'
  BY <1>22 DEF MainFree, At, Goto, shared, process, capture
<1>23. ASSUME NEW p \in Procs, ProcExit(p)
      PROVE  TypeOK'
  BY <1>23 DEF ProcExit, ProcGoto, shared, process, capture
<1>24. ASSUME NEW p \in Procs, ProcRead(p)
      PROVE  TypeOK'
  BY <1>24 DEF ProcRead, ProcGoto, shared, process, capture
<1>25. ASSUME NEW p \in Procs, ProcFrame(p)
      PROVE  TypeOK'
  BY <1>25 DEF ProcFrame, ProcGoto, shared, process, capture
<1>26. ASSUME NEW p \in Procs, ProcUtterance(p)
      PROVE  TypeOK'
  BY <1>26 DEF ProcUtterance, ProcGoto, shared, process, capture
<1>27. ASSUME NEW p \in Procs, ProcMallocFails(p)
      PROVE  TypeOK'
  BY <1>27, FailsType, ReleasedType DEF ProcMallocFails, ProcGoto, shared, process, capture
<1>28. ASSUME NEW p \in Procs, ProcConvert(p)
      PROVE  TypeOK'
  BY <1>28, ReleasedType DEF ProcConvert, ProcGoto, Convert, shared, process, capture
<1>29. ASSUME NEW p \in Procs, ProcReset(p)
      PROVE  TypeOK'
  BY <1>29 DEF ProcReset, ProcGoto, Reset, shared, process, capture
<1>30. CASE UNCHANGED vars
  BY <1>30 DEF vars, shared, process, capture
<1> QED
  BY <1>1, <1>2, <1>3, <1>4, <1>5, <1>6, <1>7, <1>8, <1>9, <1>10, <1>11, <1>12, <1>13,
     <1>14, <1>15, <1>16, <1>17, <1>18, <1>19, <1>20, <1>21, <1>22, <1>23, <1>24, <1>25,
     <1>26, <1>27, <1>28, <1>29, <1>30
  DEF Next, Command, MainStep, ProcStep

-----------------------------------------------------------------------------
(* One lemma for each action: it keeps CleanInv.  First the commands: the  *)
(* shell runs when no thread of priority 10 can.                           *)

\* A clean start finds every thread ended: nothing is on, nothing is kept.
LEMMA StartWell ==
  ASSUME TypeOK, CleanInv, Clean', Start
  PROVE  CleanInv'
<1> USE DEF Start, ShellAt
<1>1. UNCHANGED <<process, capture, proc, shell, delay, taken, pcm16_buffer, long_enough,
                  speech_ready_sem>>
  OBVIOUS
<1>2. CASE UNCHANGED <<running, main>>
  <2>1. faults \subseteq faults'
    BY DEF Fails
  <2>2. ~running'
    BY <1>2
  <2>3. (OneMain /\ OneProc /\ Running /\ Capturing /\ Processing /\ NoneLeft)'
    BY <1>1, <1>2 DEF CleanInv, OneMain, OneProc, Running, Capturing, Processing,
                      NoneLeft, Ended, Alive, Active, MainIn, process, capture
  <2>4. (Delivered /\ Reading /\ Ending /\ Buffer /\ Listening)'
    BY <1>1, <1>2, <2>2 DEF CleanInv, Delivered, Reading, Ending, Buffer, Listening,
                            Pausing, MainIn, process, capture
  <2> QED BY <2>3, <2>4 DEF CleanInv
<1>3. CASE running'
  <2>1. PICK m \in Mains : Ended(m) /\ main' = [main EXCEPT ![m] = "capture"]
    BY <1>3
  <2>2. faults' = IF speech_ready_sem > 0 \/ \E n \in Mains : ~Ended(n)
                  THEN faults \cup {"dirty_start"} ELSE faults
    BY <1>3
  <2>3. /\ \A n \in Mains : main[n] = "none"
        /\ ~(speech_ready_sem > 0)
    BY <2>2 DEF Clean, Ended
  <2>4. \A n \in Mains : main'[n] = IF n = m THEN "capture" ELSE "none"
    BY <2>1, <2>3 DEF TypeOK
  <2>5. ~mic /\ ~recording /\ ~processing
    BY <2>3 DEF CleanInv, Capturing, Processing, MainIn
  <2>6. \A p \in Procs : ~Alive(p)
    BY <2>5 DEF CleanInv, Alive, Ending, Reading, Busy, Spins, TypeOK
  <2>7. pcm16_buffer = "null" /\ taken = {}
    BY <2>3 DEF CleanInv, Buffer, MainIn, TypeOK
  <2>8. (OneMain /\ OneProc /\ Running /\ Capturing /\ Processing /\ NoneLeft)'
    BY <1>1, <1>3, <2>4, <2>5, <2>6
    DEF OneMain, OneProc, Running, Capturing, Processing, NoneLeft, Ended, Alive, Active,
        MainIn, process, capture
  <2>9. (Delivered /\ Reading /\ Ending /\ Buffer /\ Listening)'
    BY <1>1, <2>3, <2>4, <2>6, <2>7
    DEF Delivered, Reading, Ending, Buffer, Listening, Alive
  <2> QED BY <2>8, <2>9 DEF CleanInv
<1> QED BY <1>2, <1>3

LEMMA TriggerWell ==
  ASSUME TypeOK, CleanInv, Trigger
  PROVE  CleanInv'
BY DEF CleanInv, Trigger, OneMain, OneProc, Running, Capturing, Processing, NoneLeft,
   Delivered, Reading, Ending, Buffer, Listening, Alive, Active, Ended, MainIn,
   Pausing, Stopping, ShellAt, process, capture

LEMMA TriggerReturnWell ==
  ASSUME TypeOK, CleanInv, TriggerReturn
  PROVE  CleanInv'
BY DEF CleanInv, TriggerReturn, OneMain, OneProc, Running, Capturing, Processing,
   NoneLeft, Delivered, Reading, Ending, Buffer, Listening, Alive, Active, Ended,
   MainIn, Pausing, Stopping, ShellAt, shared, process, capture

LEMMA StopWell ==
  ASSUME TypeOK, CleanInv, Stop
  PROVE  CleanInv'
<1> USE DEF CleanInv, Stop
<1>1. NoneLeft'  BY ThreadAssumption DEF NoneLeft, Alive, Active, ProcessStop, Unprocess
<1>2. Ending'
  BY DelayAssumption DEF Ending, Processing, Alive, MainIn, Pausing, ShellAt,
     ProcessStop, Unprocess, AfterProcessStop, TypeOK, capture
<1>3. (OneMain /\ OneProc /\ Running /\ Capturing /\ Processing /\ Delivered /\
      Reading /\ Buffer /\ Listening)'
  BY DEF OneMain, OneProc, Running, Capturing, Processing, Delivered, Reading, Buffer,
     Listening, Alive, Active, Ended, MainIn, Stopping, ShellAt, ProcessStop,
     Unprocess, AfterProcessStop, shared, capture
<1> QED
  BY <1>1, <1>2, <1>3

LEMMA StopForgetWell ==
  ASSUME TypeOK, CleanInv, StopForget
  PROVE  CleanInv'
BY DEF CleanInv, StopForget, OneMain, OneProc, Running, Capturing, Processing,
   NoneLeft, Delivered, Reading, Ending, Buffer, Listening, Alive, Active, Ended,
   MainIn, Pausing, Stopping, ShellAt, shared, capture

\* The capture is on until the driver has stopped: the state follows it.
LEMMA StopHaltWell ==
  ASSUME TypeOK, CleanInv, StopHalt
  PROVE  CleanInv'
<1> USE DEF CleanInv, StopHalt
<1>1. Capturing'
  <2>1. mic' = FALSE
    BY DEF Capturing
  <2>2. recording' => shell' = "mark"
    BY DEF Capturing, capture
  <2>3. shell' = "mark" => recording'
    OBVIOUS
  <2> QED
    BY <2>1, <2>2, <2>3 DEF Capturing
<1>2. Processing'  BY DEF Processing, Capturing, Alive, Ended, MainIn, TypeOK, process
<1>3. Ending'  BY DEF Ending, Pausing, ShellAt, Busy, TypeOK, process
<1>4. (OneMain /\ OneProc /\ Running /\ NoneLeft /\ Delivered /\ Reading /\ Buffer /\
      Listening)'
  BY DEF OneMain, OneProc, Running, NoneLeft, Delivered, Reading, Buffer, Listening,
     Alive, Active, Ended, MainIn, Stopping, ShellAt, shared, process
<1> QED
  BY <1>1, <1>2, <1>3, <1>4

LEMMA StopMarkWell ==
  ASSUME TypeOK, CleanInv, StopMark
  PROVE  CleanInv'
BY DEF CleanInv, StopMark, OneMain, OneProc, Running, Capturing, Processing, NoneLeft,
   Delivered, Reading, Ending, Buffer, Listening, Alive, Active, Ended, MainIn,
   Pausing, Stopping, ShellAt, shared, process

LEMMA StopLowerWell ==
  ASSUME TypeOK, CleanInv, StopLower
  PROVE  CleanInv'
BY DEF CleanInv, StopLower, OneMain, OneProc, Running, Capturing, Processing,
   NoneLeft, Delivered, Reading, Ending, Buffer, Listening, Alive, Active, Ended,
   MainIn, Pausing, Stopping, ShellAt, process, capture

LEMMA StopWakeWell ==
  ASSUME TypeOK, CleanInv, StopWake
  PROVE  CleanInv'
<1> USE DEF CleanInv, StopWake
<1>1. NoneLeft'  BY ThreadAssumption DEF NoneLeft, Alive, Active, process
<1>2. Delivered'  BY DEF Delivered, Running, Active, MainIn, ShellAt, process
<1>3. Reading'  BY DelayAssumption, ThreadAssumption DEF Reading, TypeOK, capture
<1>4. Buffer'  BY DEF Buffer, MainIn, Released, TypeOK
<1>5. Listening'  BY DEF Listening, MainIn, Stopping, Released, TypeOK, process, capture
<1>6. (OneMain /\ OneProc /\ Running /\ Capturing /\ Processing /\ Ending)'
  BY DEF OneMain, OneProc, Running, Capturing, Processing, Ending, Alive, Ended,
     MainIn, Pausing, ShellAt, process, capture
<1> QED
  BY <1>1, <1>2, <1>3, <1>4, <1>5, <1>6

\* The last processing thread has timed out by now.
LEMMA StopReturnWell ==
  ASSUME TypeOK, CleanInv, StopReturn
  PROVE  CleanInv'
<1> USE DEF CleanInv, StopReturn
<1>1. Listening'
  BY DEF Listening, Running, MainIn, Stopping, ShellAt, shared, process, capture
<1>2. (OneMain /\ OneProc /\ Running /\ Capturing /\ Processing /\ NoneLeft /\
      Delivered /\ Reading /\ Ending /\ Buffer)'
  BY DEF OneMain, OneProc, Running, Capturing, Processing, NoneLeft, Delivered,
     Reading, Ending, Buffer, Alive, Active, Ended, MainIn, Pausing, ShellAt, shared,
     process, capture
<1> QED
  BY <1>1, <1>2

-----------------------------------------------------------------------------
(* The main thread. *)

LEMMA MainCaptureWell ==
  ASSUME TypeOK, CleanInv, NEW m \in Mains, MainCapture(m)
  PROVE  CleanInv'
<1> USE DEF CleanInv, MainCapture
<1>1. Capturing'
  BY DEF Capturing, Ended, MainIn, At, Goto, CaptureStart, TypeOK, capture
<1>2. Processing'
  BY DEF Processing, NoneLeft, Alive, Active, MainIn, At, process, capture
<1>3. Ending'  BY DEF Ending, NoneLeft, Alive, Active, Pausing, At, process, capture
<1>4. Listening'
  BY DEF Listening, Capturing, Ended, MainIn, Stopping, At, Goto, CaptureStart, Fails,
     shared, process, capture
<1>5. (OneMain /\ OneProc /\ Running /\ NoneLeft /\ Delivered /\ Reading /\ Buffer)'
  BY DEF OneMain, OneProc, Running, NoneLeft, Delivered, Reading, Buffer, Alive,
     Active, Ended, MainIn, At, Goto, CaptureStart, shared, process, capture
<1> QED
  BY <1>1, <1>2, <1>3, <1>4, <1>5

LEMMA MainProcessWell ==
  ASSUME TypeOK, CleanInv, NEW m \in Mains, MainProcess(m)
  PROVE  CleanInv'
<1> USE DEF CleanInv, MainProcess
<1>1. OneMain'  BY DEF OneMain, Ended, At, Goto, ProcessStart, TypeOK
<1>2. OneProc'  BY DEF OneProc, NoneLeft, Alive, Active, At, ProcessStart, TypeOK
<1>3. Running'  BY DEF Running, Goto, ProcessStart, TypeOK
<1>4. Capturing'
  BY DEF Capturing, OneMain, Ended, MainIn, At, Goto, ProcessStart, CaptureStop,
     TypeOK, capture
<1>5. Processing'
  BY DEF Processing, Alive, MainIn, Goto, ProcessStart, TypeOK, process, capture
<1>6. NoneLeft'
  BY DEF NoneLeft, OneMain, Alive, Active, Ended, At, Goto, ProcessStart, TypeOK,
     process
<1>7. Delivered'  BY DEF Delivered, Active, MainIn, At, process
<1>8. Reading'
  BY DEF Reading, NoneLeft, Alive, Active, At, ProcessStart, TypeOK, capture
<1>9. Ending'
  BY DEF Ending, NoneLeft, Alive, Active, Pausing, At, ProcessStart, TypeOK, process,
     capture
<1>10. Buffer'  BY DEF Buffer, MainIn, At, Goto, ProcessStart, TypeOK
<1>11. Listening'
  BY DEF Listening, MainIn, Stopping, At, Goto, ProcessStart, Fails, TypeOK, process,
     capture
<1> QED
  BY <1>1, <1>2, <1>3, <1>4, <1>5, <1>6, <1>7, <1>8, <1>9, <1>10, <1>11

LEMMA MainWhileWell ==
  ASSUME TypeOK, CleanInv, NEW m \in Mains, MainWhile(m)
  PROVE  CleanInv'
BY DEF CleanInv, MainWhile, Goto, OneMain, OneProc, Running, Capturing, Processing,
   NoneLeft, Delivered, Reading, Ending, Buffer, Listening, Alive, Active, Ended,
   MainIn, Pausing, Stopping, At, shared, process, capture

\* The recording changes hands; its processing thread ends during the pause.
LEMMA MainWokenWell ==
  ASSUME TypeOK, CleanInv, NEW m \in Mains, MainWoken(m)
  PROVE  CleanInv'
<1> USE DEF CleanInv, MainWoken, Woken
<1>1. OneMain'  BY DEF OneMain, Ended, At, Goto, TypeOK
<1>2. Running'  BY DEF Running, Goto, TypeOK
<1>3. Capturing'  BY DEF Capturing, Ended, MainIn, At, Goto, TypeOK, capture
<1>4. Processing'  BY DEF Processing, Alive, MainIn, Goto, TypeOK, process, capture
<1>5. NoneLeft'
  BY DelayAssumption DEF NoneLeft, Delivered, Alive, Active, MainIn, Goto, TypeOK,
     process
<1>6. Reading'  BY ThreadAssumption DEF Reading, TypeOK, capture
<1>7. Ending'  BY DEF Ending, Pausing, At, Goto, TypeOK, process, capture
<1>8. Buffer'  BY DEF Buffer, Delivered, Active, MainIn, At, Goto, TypeOK
<1>9. Listening'
  BY DEF Listening, OneMain, Ended, MainIn, Stopping, At, Goto, TypeOK, process,
     capture
<1>10. (OneProc /\ Delivered)'  BY DEF OneProc, Delivered, Alive, Active, MainIn, process
<1> QED
  BY <1>1, <1>2, <1>3, <1>4, <1>5, <1>6, <1>7, <1>8, <1>9, <1>10

\* The pause is over, and with it the last processing thread.
LEMMA MainRestartWell ==
  ASSUME TypeOK, CleanInv, NEW m \in Mains, MainRestart(m)
  PROVE  CleanInv'
<1> USE DEF CleanInv, MainRestart
<1>1. Capturing'
  BY DEF Capturing, Ended, MainIn, At, Goto, CaptureStart, TypeOK, capture
<1>2. Processing'
  BY DEF Processing, NoneLeft, Alive, Active, MainIn, At, process, capture
<1>3. Ending'  BY DEF Ending, NoneLeft, Alive, Active, Pausing, At, process, capture
<1>4. Listening'
  BY DEF Listening, NoneLeft, Capturing, Alive, Active, Ended, MainIn, Stopping, At,
     Goto, CaptureStart, Fails, shared, process, capture
<1>5. (OneMain /\ OneProc /\ Running /\ NoneLeft /\ Delivered /\ Reading /\ Buffer)'
  BY DEF OneMain, OneProc, Running, NoneLeft, Delivered, Reading, Buffer, Alive,
     Active, Ended, MainIn, At, Goto, CaptureStart, shared, process, capture
<1> QED
  BY <1>1, <1>2, <1>3, <1>4, <1>5

\* No processing thread is left: there is one again.
LEMMA MainListenWell ==
  ASSUME TypeOK, CleanInv, NEW m \in Mains, MainListen(m)
  PROVE  CleanInv'
<1> USE DEF CleanInv, MainListen, ListenAgain
<1>1. OneMain'  BY DEF OneMain, Ended, At, Goto, TypeOK
<1>2. OneProc'  BY DEF OneProc, NoneLeft, Alive, Active, At, ProcessStart, TypeOK
<1>3. Running'  BY DEF Running, Goto, TypeOK
<1>4. Capturing'  BY DEF Capturing, Ended, MainIn, At, Goto, TypeOK, capture
<1>5. Processing'
  BY DEF Processing, Alive, MainIn, Goto, ProcessStart, TypeOK, process, capture
<1>6. NoneLeft'
  BY DEF NoneLeft, OneMain, Alive, Active, Ended, At, Goto, TypeOK, process
<1>7. Delivered'  BY DEF Delivered, Active, MainIn, At, process
<1>8. Reading'  BY DEF Reading, ProcessStart, TypeOK, capture
<1>9. Ending'  BY DEF Ending, Pausing, At, Goto, ProcessStart, TypeOK, process, capture
<1>10. Buffer'  BY DEF Buffer, MainIn, Goto, ProcessStart, TypeOK
<1>11. Listening'
  BY DEF Listening, MainIn, Stopping, At, Goto, ProcessStart, Fails, TypeOK, process,
     capture
<1> QED
  BY <1>1, <1>2, <1>3, <1>4, <1>5, <1>6, <1>7, <1>8, <1>9, <1>10, <1>11

LEMMA AnswerWell ==
  ASSUME TypeOK, CleanInv, NEW m \in Mains, Answer(m)
  PROVE  CleanInv'
BY DEF CleanInv, Answer, Goto, OneMain, OneProc, Running, Capturing, Processing,
   NoneLeft, Delivered, Reading, Ending, Buffer, Listening, Alive, Active, Ended,
   MainIn, Pausing, Stopping, process, capture

LEMMA MainStopWell ==
  ASSUME TypeOK, CleanInv, NEW m \in Mains, MainStop(m)
  PROVE  CleanInv'
<1> USE DEF CleanInv, MainStop
<1>1. NoneLeft'
  BY DEF NoneLeft, Alive, Active, Goto, ProcessStop, Unprocess, AfterProcessStop,
     TypeOK
<1>2. Reading'  BY ThreadAssumption DEF Reading, ProcessStop, Unprocess, capture
<1>3. Ending'
  BY DelayAssumption DEF Ending, Running, Processing, Alive, MainIn, Pausing, At,
     Goto, ProcessStop, Unprocess, AfterProcessStop, TypeOK, capture
<1>4. Listening'  BY DEF Listening, Running, MainIn, Stopping, At, shared, capture
<1>5. (OneMain /\ OneProc /\ Running /\ Capturing /\ Processing /\ Delivered /\
      Buffer)'
  BY DEF OneMain, OneProc, Running, Capturing, Processing, Delivered, Buffer, Alive,
     Active, Ended, MainIn, At, Goto, ProcessStop, Unprocess, AfterProcessStop,
     shared, capture
<1> QED
  BY <1>1, <1>2, <1>3, <1>4, <1>5

LEMMA MainForgetWell ==
  ASSUME TypeOK, CleanInv, NEW m \in Mains, MainForget(m)
  PROVE  CleanInv'
<1> USE DEF CleanInv, MainForget
<1>1. Processing'  BY DEF Processing, OneMain, Alive, Ended, MainIn, At, capture
<1>2. (OneMain /\ OneProc /\ Running /\ Capturing /\ NoneLeft /\ Delivered /\ Reading
      /\ Ending /\ Buffer /\ Listening)'
  BY DEF OneMain, OneProc, Running, Capturing, NoneLeft, Delivered, Reading, Ending,
     Buffer, Listening, Alive, Active, Ended, MainIn, Pausing, Stopping, At, Goto,
     shared, capture
<1> QED
  BY <1>1, <1>2

LEMMA MainCloseWell ==
  ASSUME TypeOK, CleanInv, NEW m \in Mains, MainClose(m)
  PROVE  CleanInv'
<1> USE DEF CleanInv, MainClose, Close
<1>1. Capturing'  BY DEF Capturing, Running, Ended, MainIn, At, CaptureStop, TypeOK
<1>2. Processing'
  BY DEF Processing, Alive, MainIn, At, Goto, CaptureStop, TypeOK, process
<1>3. Reading'
  BY DEF Reading, Running, Ending, OneMain, Processing, Alive, Ended, MainIn, Pausing,
     At
<1>4. Ending'
  BY DEF Ending, OneMain, Running, Processing, Alive, Ended, MainIn, Pausing, At,
     CaptureStop, TypeOK, process
<1>5. Listening'  BY DEF Listening, Running, MainIn, Stopping, At, shared, process
<1>6. (OneMain /\ OneProc /\ Running /\ NoneLeft /\ Delivered /\ Buffer)'
  BY DEF OneMain, OneProc, Running, NoneLeft, Delivered, Buffer, Alive, Active, Ended,
     MainIn, At, Goto, shared, process
<1> QED
  BY <1>1, <1>2, <1>3, <1>4, <1>5, <1>6

LEMMA MainFreeWell ==
  ASSUME TypeOK, CleanInv, NEW m \in Mains, MainFree(m)
  PROVE  CleanInv'
<1> USE DEF CleanInv, MainFree
<1>1. Buffer'
  BY DEF Buffer, OneMain, Capturing, Ending, Ended, MainIn, Pausing, At, TypeOK
<1>2. Listening'  BY DEF Listening, Running, MainIn, Stopping, At, process, capture
<1>3. (OneMain /\ OneProc /\ Running /\ Capturing /\ Processing /\ NoneLeft /\
      Delivered /\ Reading /\ Ending)'
  BY DEF OneMain, OneProc, Running, Capturing, Processing, NoneLeft, Delivered,
     Reading, Ending, Alive, Active, Ended, MainIn, Pausing, At, Goto, process,
     capture
<1> QED
  BY <1>1, <1>2, <1>3

-----------------------------------------------------------------------------
(* The processing thread. *)

LEMMA ProcExitWell ==
  ASSUME TypeOK, CleanInv, NEW p \in Procs, ProcExit(p)
  PROVE  CleanInv'
BY DEF CleanInv, ProcExit, OneMain, OneProc, Running, Capturing, Processing, NoneLeft,
   Delivered, Reading, Ending, Buffer, Listening, Alive, Active, Ended, MainIn,
   Pausing, Stopping, ProcGoto, shared, process, capture

LEMMA ProcReadWell ==
  ASSUME TypeOK, CleanInv, NEW p \in Procs, ProcRead(p)
  PROVE  CleanInv'
<1> USE DEF CleanInv, ProcRead
<1>1. Reading'  BY DelayAssumption DEF Reading, ProcGoto, TypeOK, capture
<1>2. (OneMain /\ OneProc /\ Running /\ Capturing /\ Processing /\ NoneLeft /\
      Delivered /\ Ending /\ Buffer /\ Listening)'
  BY DEF OneMain, OneProc, Running, Capturing, Processing, NoneLeft, Delivered,
     Ending, Buffer, Listening, Alive, Active, Ended, MainIn, Pausing, Stopping,
     ProcGoto, shared, process, capture
<1> QED
  BY <1>1, <1>2

LEMMA ProcFrameWell ==
  ASSUME TypeOK, CleanInv, NEW p \in Procs, ProcFrame(p)
  PROVE  CleanInv'
BY DEF CleanInv, ProcFrame, OneMain, OneProc, Running, Capturing, Processing,
   NoneLeft, Delivered, Reading, Ending, Buffer, Listening, Alive, Active, Ended,
   MainIn, Pausing, Stopping, ProcGoto, shared, process, capture

LEMMA ProcUtteranceWell ==
  ASSUME TypeOK, CleanInv, NEW p \in Procs, ProcUtterance(p)
  PROVE  CleanInv'
<1> USE DEF CleanInv, ProcUtterance
<1>1. Buffer'
  BY DEF Buffer, NoneLeft, Capturing, Ending, Alive, Active, Ended, MainIn, Pausing
<1>2. (OneMain /\ OneProc /\ Running /\ Capturing /\ Processing /\ NoneLeft /\
      Delivered /\ Reading /\ Ending /\ Listening)'
  BY DEF OneMain, OneProc, Running, Capturing, Processing, NoneLeft, Delivered,
     Reading, Ending, Listening, Alive, Active, Ended, MainIn, Pausing, Stopping,
     ProcGoto, process, capture
<1> QED
  BY <1>1, <1>2

LEMMA ProcMallocFailsWell ==
  ASSUME TypeOK, CleanInv, NEW p \in Procs, ProcMallocFails(p)
  PROVE  CleanInv'
<1> USE DEF CleanInv, ProcMallocFails
<1>1. Delivered'
  BY DEF Delivered, OneProc, NoneLeft, Alive, Active, MainIn, ProcGoto, Released,
     TypeOK, process
<1>2. Listening'
  BY DelayAssumption DEF Listening, MainIn, Stopping, Fails, Released, TypeOK,
     process, capture
<1>3. (OneMain /\ OneProc /\ Running /\ Capturing /\ Processing /\ NoneLeft /\ Reading
      /\ Ending /\ Buffer)'
  BY DEF OneMain, OneProc, Running, Capturing, Processing, NoneLeft, Reading, Ending,
     Buffer, Alive, Active, Ended, MainIn, Pausing, ProcGoto, Locked, process, capture
<1> QED
  BY <1>1, <1>2, <1>3

\* The first delivery since the main thread has begun to listen.
LEMMA ProcConvertWell ==
  ASSUME TypeOK, CleanInv, NEW p \in Procs, ProcConvert(p)
  PROVE  CleanInv'
<1> USE DEF CleanInv, ProcConvert, Convert
<1>1. Delivered'
  BY DEF Delivered, OneProc, NoneLeft, Alive, Active, MainIn, ProcGoto, Released,
     TypeOK, process
<1>2. Buffer'
  BY DelayAssumption DEF Buffer, OneProc, Alive, MainIn, ProcGoto, Released, TypeOK
<1>3. Listening'
  BY DelayAssumption DEF Listening, MainIn, Stopping, Released, TypeOK, process,
     capture
<1>4. (OneMain /\ OneProc /\ Running /\ Capturing /\ Processing /\ NoneLeft /\ Reading
      /\ Ending)'
  BY DEF OneMain, OneProc, Running, Capturing, Processing, NoneLeft, Reading, Ending,
     Alive, Active, Ended, MainIn, Pausing, ProcGoto, process, capture
<1> QED
  BY <1>1, <1>2, <1>3, <1>4

\* Whatever it has delivered, the thread ends now.
LEMMA ProcResetWell ==
  ASSUME TypeOK, CleanInv, NEW p \in Procs, ProcReset(p)
  PROVE  CleanInv'
<1> USE DEF CleanInv, ProcReset, Reset
<1>1. Ending'  BY DEF Ending, OneProc, Alive, Pausing, ProcGoto, TypeOK, capture
<1>2. Listening'  BY DEF Listening, OneMain, Ended, MainIn, Stopping, shared, capture
<1>3. (OneMain /\ OneProc /\ Running /\ Capturing /\ Processing /\ NoneLeft /\
      Delivered /\ Reading /\ Buffer)'
  BY DEF OneMain, OneProc, Running, Capturing, Processing, NoneLeft, Delivered,
     Reading, Buffer, Alive, Active, Ended, MainIn, ProcGoto, shared, capture
<1> QED
  BY <1>1, <1>2, <1>3

-----------------------------------------------------------------------------
(* Time. *)

\* A frame for each read, or a tick less of its timeout.
LEMMA TickWell ==
  ASSUME TypeOK, CleanInv, Tick
  PROVE  CleanInv'
<1> USE DEF CleanInv, Tick
<1>1. Reading'  BY DelayAssumption DEF Reading, TypeOK, capture
<1>2. Ending'
  <2>1. UNCHANGED <<shared, process, capture, main, shell>> /\ ~Busy
    OBVIOUS
  <2>2. \A p \in Procs : proc[p] \in {"none", "read"} \/ proc[p] = "loop"
    BY DEF Busy, Spins
  <2>3. ASSUME NEW t \in Mains \cup {Shell}, delay[t] >= 2
        PROVE  delay'[t] >= 1
    BY <2>3, ThreadAssumption DEF TypeOK
  <2>4. ASSUME NEW p \in Procs
        PROVE  proc'[p] \in {"frame", "convert", "reset"} => proc[p] = "read" /\ mic
    BY <2>2 DEF TypeOK
  <2>5. ASSUME NEW p \in Procs
        PROVE  proc'[p] = "read" => proc[p] = "read" /\ ~mic
    BY <2>2 DEF TypeOK
  <2>6. ASSUME Pausing(2) PROVE Pausing(1)'
    BY <2>1, <2>3, <2>6 DEF Pausing
  <2> QED
    BY <2>1, <2>4, <2>5, <2>6 DEF CleanInv, Ending, process, capture
<1>3. (OneMain /\ OneProc /\ Running /\ Capturing /\ Processing /\ NoneLeft /\
      Delivered /\ Buffer /\ Listening)'
  BY DEF OneMain, OneProc, Running, Capturing, Processing, NoneLeft, Delivered,
     Buffer, Listening, Alive, Active, Ended, MainIn, Stopping, Busy, Spins, shared,
     process, capture
<1> QED
  BY <1>1, <1>2, <1>3

-----------------------------------------------------------------------------
(* The invariant. *)

\* A failure or a dirty start is not forgotten.
LEMMA FaultsGrow ==
  ASSUME [Next]_vars
  PROVE  faults \subseteq faults'
BY DEF Next, Command, MainStep, ProcStep, Start, Fails, Trigger, TriggerReturn, Stop,
       StopForget, StopHalt, StopMark, StopLower, StopWake, StopReturn, Tick, MainCapture,
       MainProcess, MainWhile, MainWoken, Woken, MainRestart, MainListen, ListenAgain,
       Answer, MainStop, MainForget, MainClose, Close, CaptureStop, MainFree, CaptureStart,
       ProcessStart, ProcExit, ProcRead, ProcFrame, ProcUtterance, ProcMallocFails,
       ProcConvert, Convert, ProcReset, Reset, vars

LEMMA InitInv == Init => IInv
<1> SUFFICES ASSUME Init PROVE TypeOK /\ CleanInv
  BY DEF IInv
<1> USE DelayAssumption DEF Init
<1>1. TypeOK
  <2>1. /\ main \in [Mains -> {"none"}] /\ proc \in [Procs -> {"none"}]
        /\ delay \in [Mains \cup Procs \cup {Shell} -> Nat]
    OBVIOUS
  <2>2. trigger_sem \in 0 .. SemMax /\ speech_ready_sem \in 0 .. SemMax
    OBVIOUS
  <2> QED
    BY <2>1, <2>2 DEF TypeOK
<1>2. (\A m \in Mains : main[m] = "none") /\ (\A p \in Procs : proc[p] = "none")
  OBVIOUS
<1>3. OneMain /\ OneProc /\ Running /\ Capturing /\ Processing /\ NoneLeft
  BY <1>2 DEF OneMain, OneProc, Running, Capturing, Processing, NoneLeft, Ended, Alive
<1>4. Delivered /\ Reading /\ Ending /\ Buffer /\ Listening
  BY <1>2 DEF Delivered, Reading, Ending, Buffer, Listening
<1> QED
  BY <1>1, <1>3, <1>4 DEF CleanInv

LEMMA CleanStep ==
  ASSUME TypeOK, CleanInv, Clean', [Next]_vars
  PROVE  CleanInv'
<1>1. CASE Start
  BY <1>1, StartWell
<1>2. CASE Trigger
  BY <1>2, TriggerWell
<1>3. CASE Stop
  BY <1>3, StopWell
<1>4. CASE Command
  BY <1>4, TriggerReturnWell, StopForgetWell, StopHaltWell, StopMarkWell, StopLowerWell,
     StopWakeWell, StopReturnWell
  DEF Command
<1>5. ASSUME NEW m \in Mains, MainStep(m)
      PROVE  CleanInv'
  BY <1>5, MainCaptureWell, MainProcessWell, MainWhileWell, MainWokenWell, MainRestartWell,
     MainListenWell, MainStopWell, MainForgetWell, MainCloseWell, MainFreeWell
  DEF MainStep
<1>6. ASSUME NEW m \in Mains, Answer(m)
      PROVE  CleanInv'
  BY <1>6, AnswerWell
<1>7. ASSUME NEW p \in Procs, ProcStep(p)
      PROVE  CleanInv'
  BY <1>7, ProcExitWell, ProcReadWell, ProcFrameWell, ProcUtteranceWell,
     ProcMallocFailsWell, ProcConvertWell, ProcResetWell
  DEF ProcStep
<1>8. CASE Tick
  BY <1>8, TickWell
<1>9. CASE UNCHANGED vars
  BY <1>9 DEF CleanInv, OneMain, OneProc, Running, Capturing, Processing, NoneLeft,
              Delivered, Reading, Ending, Buffer, Listening, Ended, Alive, Active,
              MainIn, Pausing, Stopping, vars, shared, process, capture
<1> QED
  BY <1>1, <1>2, <1>3, <1>4, <1>5, <1>6, <1>7, <1>8, <1>9 DEF Next

\* The invariant holds in every state of the assistant.
THEOREM Inductive == Spec => []IInv
<1>1. IInv /\ [Next]_vars => IInv'
  <2> SUFFICES ASSUME IInv, [Next]_vars PROVE IInv'
    OBVIOUS
  <2>1. TypeOK'
    BY TypeStep DEF IInv
  <2>2. ASSUME Clean' PROVE CleanInv'
    <3>1. Clean
      BY <2>2, FaultsGrow DEF Clean
    <3> QED
      BY <2>2, <3>1, CleanStep DEF IInv
  <2> QED
    BY <2>1, <2>2 DEF IInv
<1> QED
  BY InitInv, <1>1, PTL DEF Spec

-----------------------------------------------------------------------------
(* What follows from it. *)

\* Every variable keeps its type: no semaphore is released past its limit, and a
\* main thread that asks the cloud owns a recording.
THEOREM TypeCorrect == Spec => []TypeOK
<1>1. IInv => TypeOK
  BY DEF IInv
<1> QED
  BY <1>1, Inductive, PTL

\* There are never two processing threads, although audio_process_start makes one
\* without looking whether the last has ended.
THEOREM AlwaysOneListener == Spec => []OneListener
<1>1. IInv => OneListener
  <2> SUFFICES ASSUME OneProc
               PROVE  Cardinality({p \in Procs : proc[p] # "none"}) <= 1
    BY DEF IInv, CleanInv, OneListener
  <2> DEFINE Threads == {p \in Procs : proc[p] # "none"}
  <2>1. CASE Threads = {}
    BY <2>1, FS_EmptySet
  <2>2. CASE Threads # {}
    <3>1. PICK p \in Threads : TRUE
      BY <2>2
    <3>2. Threads = {p}
      BY <3>1 DEF OneProc, Alive
    <3>3. Cardinality(Threads) = 1
      BY <3>2, FS_Singleton
    <3> QED
      BY <3>3
  <2> QED
    BY <2>1, <2>2
<1> QED
  BY <1>1, Inductive, PTL

\* The callback converts into the buffer it has allocated: the main thread never
\* takes it over or frees it meanwhile.
THEOREM AlwaysFillsOwnBuffer == Spec => []FillsOwnBuffer
<1>1. IInv => FillsOwnBuffer
  BY DEF IInv, CleanInv, Buffer, FillsOwnBuffer
<1> QED
  BY <1>1, Inductive, PTL

\* Unless a call has failed, the main thread never waits for speech while nobody
\* listens.
THEOREM AlwaysAttentive == Spec => []Attentive
<1>1. IInv => Attentive
  BY DEF IInv, CleanInv, Listening, Processing, Alive, Attentive, SomebodyListens
<1> QED
  BY <1>1, Inductive, PTL

\* An assistant that has been stopped and whose main thread has ended leaves no
\* capture, no processing and no recording behind.
THEOREM AlwaysQuietInTheEnd == Spec => []QuietWhenEnded
<1>1. IInv => QuietWhenEnded
  BY DEF IInv, CleanInv, Capturing, Processing, Buffer, MainIn, Ended, QuietWhenEnded
<1> QED
  BY <1>1, Inductive, PTL

\* A recording that is ready goes to the main thread: no later one overwrites it.
THEOREM NoUtteranceIsLost == Spec => NoUtteranceLost
<1>1. ASSUME IInv, [Next]_vars, Clean, running,
             pcm16_buffer = "full", pcm16_buffer' # "full"
      PROVE  taken' # taken
  <2> USE <1>1
  <2>1. /\ \A p \in Procs : ~Active(p)
        /\ long_enough
        /\ \A m \in taken : main[m] \in {"restart", "listen", "stt"}
    BY DEF IInv, CleanInv, Buffer, Delivered, TypeOK
  <2>2. ASSUME NEW p \in Procs
        PROVE  ~ProcUtterance(p) /\ ~ProcMallocFails(p) /\ ~ProcConvert(p)
    BY <2>1 DEF Active, ProcUtterance, ProcMallocFails, ProcConvert, Convert
  <2>3. ASSUME NEW m \in Mains
        PROVE  ~MainFree(m)
    BY DEF IInv, CleanInv, Running, MainFree, At
  <2>4. \E m \in Mains : MainWoken(m)
    BY <2>2, <2>3
    DEF Next, Command, MainStep, ProcStep, Start, Trigger, TriggerReturn, Stop, StopForget,
        StopHalt, StopMark, StopLower, StopWake, StopReturn, Tick, MainCapture, MainProcess,
        MainWhile, MainRestart, MainListen, ListenAgain, Answer, MainStop, MainForget,
        MainClose, Close, ProcExit, ProcRead, ProcFrame, ProcReset, Reset, vars, shared
  <2>5. PICK m \in Mains : MainWoken(m)
    BY <2>4
  <2>6. m \notin taken
    BY <2>1, <2>5 DEF MainWoken, Woken, At
  <2>7. m \in taken'
    BY <2>1, <2>5 DEF MainWoken, Woken
  <2> QED
    BY <2>6, <2>7
<1>2. IInv /\ [Next]_vars =>
        [Clean /\ pcm16_buffer = "full" /\ pcm16_buffer' # "full"
           => taken' # taken \/ ~running]_vars
  BY <1>1
<1> QED
  BY <1>2, Inductive, PTL DEF Spec, NoUtteranceLost
=============================================================================
