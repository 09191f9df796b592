--------------------------- MODULE WakeupDetector ---------------------------
(***************************************************************************)
(* The wake-up detector, src/applications/wakeup_detector.c, on the        *)
(* capture of audio_capture_inmp441.c, which it shares with the voice      *)
(* assistant (VoiceAssistant has that one's own steps, here are those that *)
(* start and stop the capture, or keep the detector from running).         *)
(*                                                                         *)
(*   thread[t]   "wakeup", one created by each wakeup_start, priority 12   *)
(*   main[m]     "voice_asst", one created by each va_start, priority 10   *)
(*   processing  "audio_proc", priority 10                                 *)
(*   shell       the finsh thread with the commands, priority 20: it runs  *)
(*               only while no other thread can                            *)
(*                                                                         *)
(* A value of thread, main and shell is the call made next.  Time passes   *)
(* in Ticks of 500 ms, the timeout of a read and the pause between         *)
(* windows; the delays of 100 ms are over before the next.                 *)
(* The wake word is modelled as two halves, because strncpy writes it      *)
(* while a detector thread may wake up.  No code sets a callback.          *)
(***************************************************************************)
EXTENDS Integers, FiniteSets

CONSTANTS
  Threads,      \* thread objects of the detector
  Mains,        \* thread objects of the assistant
  Words,        \* the arguments of wakeup_start
  Window,       \* reads that fill WAKEUP_BUFFER_SIZE
  StopTicks,    \* the delay of wakeup_detector_stop, 1 s
  SemMax,       \* RT_SEM_VALUE_MAX
  MayFail       \* "capture", "create", "malloc"

ASSUME WindowAssumption == Window \in Nat
ASSUME StopTicksAssumption == StopTicks \in Nat
ASSUME SemAssumption == SemMax \in Nat
ASSUME ThreadsAssumption == "shell" \notin Threads

VARIABLES
  running, wakeup_word,  \* wakeup_ctrl
  recording,   \* g_capture_state = AUDIO_CAPTURE_RECORDING
  thread,
  total_read,  \* reads in a thread's buffer, or -1 if it has none
  delay,       \* ticks a thread or the shell still waits
  shell,
  listening,     \* voice_assistant_ctrl.running
  main,
  processing,    \* "off", it "reads" the microphone, "hears" an utterance, or
                 \* "loops" over a failing read
  speech_ready_sem,
  compared,    \* history: the last word a text was searched for
  faults       \* history: failed calls, and misuse a property excepts

ctrl == <<running, wakeup_word>>
assistant == <<listening, main, processing, speech_ready_sem>>
user == <<shell, assistant>>
vars == <<ctrl, recording, thread, total_read, delay, user, compared, faults>>

Shell == "shell"
Unset == <<"", "">>

Init ==
  /\ running = FALSE
  /\ wakeup_word = Unset
  /\ recording = FALSE
  /\ thread = [t \in Threads |-> "none"]
  /\ total_read = [t \in Threads |-> -1]
  /\ delay = [p \in Threads \cup {Shell} |-> 0]
  /\ shell = "idle"
  /\ listening = FALSE
  /\ main = [m \in Mains |-> "none"]
  /\ processing = "off"
  /\ speech_ready_sem = 0
  /\ compared = Unset
  /\ faults = {}

-----------------------------------------------------------------------------
(* The scheduler and the capture adapter. *)

Alive == {t \in Threads : thread[t] # "none"}

\* A read of a capture that is not recording fails at once, and the inner loop
\* tries again without waiting.
Spins(t) == thread[t] = "fill" /\ running /\ ~recording /\ total_read[t] < Window

Runnable(t) ==
  \/ thread[t] \in {"begin", "while", "end"}
  \/ thread[t] = "fill" /\ ~Spins(t)
  \/ thread[t] \in {"reading", "pause"} /\ delay[t] = 0

\* The processing thread has no pause either, once its read fails at once.
Starves == processing = "loops" /\ ~recording

Released(sem) == IF sem < SemMax THEN sem + 1 ELSE sem

\* What of the assistant runs without waiting, above the detector.
Runs(m) ==
  \/ main[m] \in {"begin", "end"}
  \/ main[m] = "wait" /\ speech_ready_sem > 0

Preempted == Starves \/ \E m \in Mains : Runs(m)

Tick ==
  /\ \A t \in Threads : ~Runnable(t) \/ Starves
  /\ \A m \in Mains : ~Runs(m) /\ main[m] \notin {"pause", "close"}
  /\ processing = "reads" \/ \E p \in DOMAIN delay : delay[p] > 0
  /\ delay' = [p \in DOMAIN delay |-> IF delay[p] > 0 THEN delay[p] - 1 ELSE 0]
  /\ processing' = IF processing = "reads" /\ recording THEN "hears" ELSE processing
  /\ UNCHANGED <<ctrl, recording, thread, total_read, shell, listening, main,
                 speech_ready_sem, compared, faults>>

CaptureStart ==
  \/ recording' = TRUE /\ UNCHANGED faults
  \/ /\ "capture" \in MayFail
     /\ ~recording
     /\ faults' = faults \cup {"capture"}
     /\ UNCHANGED recording

CaptureStop == recording' = FALSE

\* The assistant stops the capture under a detector.
StopShared ==
  /\ CaptureStop
  /\ faults' = IF Alive # {} THEN faults \cup {"shared"} ELSE faults

-----------------------------------------------------------------------------
(* wakeup_detector_thread_entry. *)

Goto(t, call) == thread' = [thread EXCEPT ![t] = call]

\* Without a buffer the thread returns; running stays TRUE.
NoBuffer(t) ==
  /\ thread[t] = "begin"
  /\ "malloc" \in MayFail
  /\ Goto(t, "none")
  /\ UNCHANGED <<ctrl, recording, total_read, delay, user, compared, faults>>

\* The result of audio_capture_start is not looked at.
Begin(t) ==
  /\ thread[t] = "begin"
  /\ CaptureStart
  /\ total_read' = [total_read EXCEPT ![t] = 0]
  /\ Goto(t, "while")
  /\ UNCHANGED <<ctrl, delay, user, compared>>

While(t) ==
  /\ thread[t] = "while"
  /\ total_read' = [total_read EXCEPT ![t] = 0]
  /\ Goto(t, IF running THEN "fill" ELSE "end")
  /\ UNCHANGED <<ctrl, recording, delay, user, compared, faults>>

StartRead(t) ==
  /\ thread[t] = "fill"
  /\ running
  /\ recording
  /\ delay' = [delay EXCEPT ![t] = 1]
  /\ Goto(t, "reading")
  /\ UNCHANGED <<ctrl, recording, total_read, user, compared, faults>>

\* Mutant: reads on when the buffer is full.
ReadOver(t) == StartRead(t)

Read(t) == StartRead(t) /\ total_read[t] < Window

\* A capture stopped in the meantime gives nothing or a part; so does one
\* whose frames the assistant takes.
ReadReturns(t) ==
  /\ thread[t] = "reading"
  /\ delay[t] = 0
  /\ \/ total_read' = [total_read EXCEPT ![t] = @ + 1]
     \/ UNCHANGED total_read
  /\ Goto(t, "fill")
  /\ UNCHANGED <<ctrl, recording, delay, user, compared, faults>>

EndWindow(t) ==
  /\ thread[t] = "fill"
  /\ total_read[t] = Window \/ ~running
  /\ Goto(t, IF running THEN "stt" ELSE "end")
  /\ UNCHANGED <<ctrl, total_read, delay, user, compared, faults>>

\* Mutant: nothing is recorded during the request, nor after it.
FilledStopping(t) == EndWindow(t) /\ CaptureStop

Filled(t) == EndWindow(t) /\ UNCHANGED recording

\* The cloud answers with an error, or with a text that is searched for the
\* word of this moment.
Answer(t) ==
  /\ thread[t] = "stt"
  /\ compared' \in {compared, wakeup_word}
  /\ delay' = [delay EXCEPT ![t] = 1]
  /\ Goto(t, "pause")
  /\ UNCHANGED <<ctrl, recording, total_read, user, faults>>

Pause(t) ==
  /\ thread[t] = "pause"
  /\ delay[t] = 0
  /\ Goto(t, "while")
  /\ UNCHANGED <<ctrl, recording, total_read, delay, user, compared, faults>>

Leave(t) ==
  /\ thread[t] = "end"
  /\ total_read' = [total_read EXCEPT ![t] = -1]
  /\ Goto(t, "none")
  /\ UNCHANGED <<ctrl, delay, user, compared, faults>>

\* Mutant: the capture is left on.
EndRecording(t) == Leave(t) /\ UNCHANGED recording

End(t) == Leave(t) /\ CaptureStop

Step(t) ==
  /\ ~Preempted
  /\ NoBuffer(t) \/ Begin(t) \/ While(t) \/ Read(t) \/ ReadReturns(t)
       \/ Filled(t) \/ Pause(t) \/ End(t)

-----------------------------------------------------------------------------
(* The assistant: voice_assistant_thread_entry and audio_process_thread_entry. *)

MainGoto(m, call) == main' = [main EXCEPT ![m] = call]
WaitOrEnd == IF listening THEN "wait" ELSE "end"

\* audio_process_start, after a start of the capture; no thread may be created.
ProcessStart ==
  IF processing = "off"
  THEN \/ processing' = "reads"
       \/ "create" \in MayFail /\ UNCHANGED processing
  ELSE processing' = IF processing = "loops" /\ recording' THEN "reads" ELSE processing

\* It waits for speech if both starts succeed; otherwise the thread returns,
\* and voice_assistant_ctrl.running stays TRUE.
MainBegin(m) ==
  /\ main[m] = "begin"
  /\ \/ CaptureStart /\ recording' /\ ProcessStart /\ processing' # "off"
        /\ MainGoto(m, "wait")
     \/ CaptureStart /\ ~recording' /\ MainGoto(m, "none") /\ UNCHANGED processing
     \/ "create" \in MayFail /\ processing = "off" /\ StopShared
        /\ MainGoto(m, "none") /\ UNCHANGED processing
  /\ UNCHANGED <<ctrl, thread, total_read, delay, shell, listening, speech_ready_sem, compared>>

\* Woken by a recording, by the stop, or by what an earlier stop left.
MainWoken(m) ==
  /\ main[m] = "wait"
  /\ speech_ready_sem > 0
  /\ speech_ready_sem' = speech_ready_sem - 1
  /\ MainGoto(m, IF listening THEN "pause" ELSE "end")
  /\ UNCHANGED <<ctrl, recording, thread, total_read, delay, shell, listening,
                 processing, compared, faults>>

\* After 100 ms both are started again, whatever was stopped meanwhile, and
\* with no regard to the results; a short recording is not sent.
MainRestart(m) ==
  /\ main[m] = "pause"
  /\ CaptureStart
  /\ ProcessStart
  /\ \E call \in {"stt", WaitOrEnd} : MainGoto(m, call)
  /\ UNCHANGED <<ctrl, thread, total_read, delay, shell, listening, speech_ready_sem, compared>>

\* The cloud answers.
MainAnswer(m) ==
  /\ main[m] = "stt"
  /\ MainGoto(m, WaitOrEnd)
  /\ UNCHANGED <<ctrl, recording, thread, total_read, delay, shell, listening,
                 processing, speech_ready_sem, compared, faults>>

MainEnd(m) ==
  /\ main[m] = "end"
  /\ processing' = "off"
  /\ MainGoto(m, "close")
  /\ UNCHANGED <<ctrl, recording, thread, total_read, delay, shell, listening,
                 speech_ready_sem, compared, faults>>

\* 100 ms later the capture is stopped, whoever else has begun to use it.
MainClose(m) ==
  /\ main[m] = "close"
  /\ StopShared
  /\ MainGoto(m, "none")
  /\ UNCHANGED <<ctrl, thread, total_read, delay, shell, listening, processing,
                 speech_ready_sem, compared>>

MainStep(m) ==
  \/ MainBegin(m) \/ MainWoken(m) \/ MainRestart(m) \/ MainEnd(m) \/ MainClose(m)

\* The processing thread has delivered a recording, and ends.  An utterance is
\* longer than a tick: the hangover alone takes 1 s.
Delivered ==
  /\ processing = "hears" /\ recording
  /\ processing' = "off"
  /\ speech_ready_sem' = Released(speech_ready_sem)
  /\ UNCHANGED <<ctrl, recording, thread, total_read, delay, shell, listening, main,
                 compared, faults>>

\* Its read over a stopped capture fails.
ReadFails ==
  /\ processing \in {"reads", "hears"} /\ ~recording
  /\ processing' = "loops"
  /\ UNCHANGED <<ctrl, recording, thread, total_read, delay, shell, listening, main,
                 speech_ready_sem, compared, faults>>

-----------------------------------------------------------------------------
(* The commands. *)

ShellAt(call) ==
  /\ ~Preempted
  /\ shell = call
  /\ delay[Shell] = 0
  /\ \A t \in Threads : ~Runnable(t) /\ ~Spins(t)

\* cmd_wakeup_start: strncpy copies the word, whoever is reading it.
SetWord(w) ==
  /\ ShellAt("idle")
  /\ wakeup_word' = <<w, wakeup_word[2]>>
  /\ shell' = "copy"
  /\ UNCHANGED <<running, recording, thread, total_read, delay, assistant, compared, faults>>

CopyWord ==
  /\ ShellAt("copy")
  /\ wakeup_word' = <<wakeup_word[1], wakeup_word[1]>>
  /\ shell' = "start"
  /\ UNCHANGED <<running, recording, thread, total_read, delay, assistant, compared, faults>>

StartRunning ==
  /\ ShellAt("start")
  /\ shell' = IF running THEN "idle" ELSE "create"
  /\ running' = TRUE
  /\ UNCHANGED <<wakeup_word, recording, thread, total_read, delay, assistant, compared, faults>>

Create(t) ==
  /\ ShellAt("create")
  /\ thread[t] = "none"
  /\ faults' = IF Alive # {} THEN faults \cup {"hasty"} ELSE faults
  /\ Goto(t, "begin")
  /\ shell' = "idle"
  /\ UNCHANGED <<ctrl, recording, total_read, delay, assistant, compared>>

CreateFails ==
  /\ ShellAt("create")
  /\ "create" \in MayFail
  /\ running' = FALSE
  /\ shell' = "idle"
  /\ UNCHANGED <<wakeup_word, recording, thread, total_read, delay, assistant, compared, faults>>

Stop ==
  /\ ShellAt("idle")
  /\ running
  /\ running' = FALSE
  /\ delay' = [delay EXCEPT ![Shell] = StopTicks]
  /\ shell' = "stop"
  /\ UNCHANGED <<wakeup_word, recording, thread, total_read, assistant, compared, faults>>

StopReturns ==
  /\ ShellAt("stop")
  /\ shell' = "idle"
  /\ UNCHANGED <<ctrl, recording, thread, total_read, delay, assistant, compared, faults>>

\* A thread that cannot be created leaves all as it is.
AssistantStart(m) ==
  /\ ShellAt("idle") /\ ~listening
  /\ main[m] = "none"
  /\ listening' = TRUE
  /\ MainGoto(m, "begin")
  /\ UNCHANGED <<ctrl, recording, thread, total_read, delay, shell, processing,
                 speech_ready_sem, compared, faults>>

\* audio_process_stop, for 100 ms.
AssistantStop ==
  /\ ShellAt("idle") /\ listening
  /\ processing' = "off"
  /\ shell' = "close"
  /\ UNCHANGED <<ctrl, recording, thread, total_read, delay, listening, main,
                 speech_ready_sem, compared, faults>>

AssistantClose ==
  /\ ShellAt("close")
  /\ StopShared
  /\ shell' = "lower"
  /\ UNCHANGED <<ctrl, thread, total_read, delay, assistant, compared>>

AssistantLower ==
  /\ ShellAt("lower")
  /\ listening' = FALSE
  /\ speech_ready_sem' = Released(speech_ready_sem)
  /\ delay' = [delay EXCEPT ![Shell] = 1]
  /\ shell' = "stop"
  /\ UNCHANGED <<ctrl, recording, thread, total_read, main, processing, compared, faults>>

\* A command that has begun goes on; nothing makes the user type another.
Command ==
  \/ CopyWord \/ StartRunning \/ CreateFails \/ StopReturns
  \/ AssistantClose \/ AssistantLower
  \/ \E t \in Threads : Create(t)

Next ==
  \/ \E t \in Threads : Step(t) \/ Answer(t)
  \/ \E m \in Mains : MainStep(m) \/ MainAnswer(m) \/ AssistantStart(m)
  \/ Delivered \/ ReadFails
  \/ \E w \in Words : SetWord(w)
  \/ Command \/ Stop \/ AssistantStop
  \/ Tick

Spec == Init /\ [][Next]_vars

\* Threads of one priority share the processor, the web client gives up in the
\* end, time passes, and the shell runs when it can time and again.
FairSpec ==
  /\ Spec
  /\ \A m \in Mains : WF_vars(MainStep(m) \/ MainAnswer(m))
  /\ \A t \in Threads : WF_vars(Step(t) \/ Answer(t))
  /\ SF_vars(Command)
  /\ WF_vars(Tick)

-----------------------------------------------------------------------------
(* Properties. *)

TypeOK ==
  /\ running \in BOOLEAN /\ recording \in BOOLEAN /\ listening \in BOOLEAN
  /\ wakeup_word \in ({""} \cup Words) \X ({""} \cup Words)
  /\ compared \in ({""} \cup Words) \X ({""} \cup Words)
  /\ thread \in [Threads -> {"none", "begin", "while", "fill", "reading", "stt",
                             "pause", "end"}]
  /\ total_read \in [Threads -> -1 .. Window]
  /\ delay \in [Threads \cup {Shell} -> Nat]
  /\ shell \in {"idle", "copy", "start", "create", "stop", "close", "lower"}
  /\ main \in [Mains -> {"none", "begin", "wait", "pause", "stt", "end", "close"}]
  /\ processing \in {"off", "reads", "hears", "loops"}
  /\ speech_ready_sem \in 0 .. SemMax
  /\ faults \subseteq {"capture", "hasty", "shared"}

\* A detector whose capture could be started never polls a capture that is
\* off, whatever was stopped and started before: the shell gets its turn.  It
\* is excepted that the assistant stopped the capture both share ("shared"),
\* and that a stopped detector had not ended at the next start ("hasty").
\* (the inner read loop, which does not wait after an error)
NeverSpins ==
  faults \cap {"capture", "hasty", "shared"} = {} => \A t \in Threads : ~Spins(t)

\* An assistant thread that will stop the capture.
MainOwns == \E m \in Mains : main[m] \notin {"none", "begin"}

\* A stop that no start follows ends every detector thread, even one that was
\* waiting for the cloud, with its buffer freed and the capture off but for an
\* assistant that still uses it; unless the assistant's processing thread takes
\* the processor for ever (VoiceAssistant's StopReturns).
\* (the end of wakeup_detector_thread_entry)
StopIsFinal ==
  \/ <>[]Starves
  \/ ~running /\ shell = "idle" ~>
        running \/ (Alive = {} /\ (recording => MainOwns)
                      /\ \A t \in Threads : total_read[t] = -1)

(* What the comments say and the code does not do. *)

\* "等待线程结束" (wait for the thread to end): wakeup_stop returns when the
\* detector thread has ended.  It has not if it is waiting for the cloud.
StopJoins == [][shell = "stop" /\ shell' = "idle" => Alive = {}]_vars

\* "等待VAD检测到语音" (wait for the VAD to detect speech): an assistant that
\* waits for speech has a capture.  The detector's end switches it off.
AssistantHears ==
  \A m \in Mains : main[m] = "wait" /\ speech_ready_sem = 0 /\ listening /\ shell = "idle"
                     => recording

\* "text contains the wake word": a text is searched for a word the user typed.
\* Over a live detector the new word is copied while the old one is searched.
SearchesWholeWord == compared[1] = compared[2]
=============================================================================
