--------------------------- MODULE VoiceAssistant ---------------------------
(***************************************************************************)
(* The threads of the voice assistant: src/applications/voice_assistant.c  *)
(* with the thread life cycle of audio_process.c and the capture state of  *)
(* audio_capture_inmp441.c, from the return of va_init on.                 *)
(*                                                                         *)
(*   main[m]  "voice_asst", one created by each va_start, priority 10      *)
(*   proc[p]  "audio_proc", one created by each audio_process_start,       *)
(*            priority 10                                                  *)
(*   shell    the finsh thread that runs the va_ commands, priority 20:    *)
(*            it runs only while no thread of priority 10 can              *)
(*                                                                         *)
(* A value of main, proc and shell is the call the thread makes next.      *)
(* Time passes in Ticks of 50 ms: a frame of the microphone takes less (32 *)
(* ms), the shortest delay is two of them.  Threads of equal priority      *)
(* interleave freely (they share the processor by time slices); what they  *)
(* do between two waits takes no time, except a loop that never waits.     *)
(*                                                                         *)
(* In the configuration of voice_assistant_config.h the cloud only returns *)
(* text, so nothing is ever played (VOICE_ASSISTANT_SPEAKING).             *)
(***************************************************************************)
EXTENDS Integers, FiniteSets

CONSTANTS
  Mains, Procs,   \* thread objects, as many as may be alive at once
  Shell,
  MayFail,        \* the calls that may fail: "capture", "thread", "malloc", "main"
  PauseTicks,     \* the delays of 100 ms
  ReadTicks,      \* the timeout of a read, 500 ms
  StopTicks,      \* the delay that ends voice_assistant_stop, 500 ms
  SemMax          \* RT_SEM_VALUE_MAX

\* A pause of 100 ms is longer than two frames take, and a read has timed out
\* when voice_assistant_stop returns.
ASSUME DelayAssumption ==
  /\ PauseTicks \in Nat \ {0, 1}
  /\ ReadTicks \in Nat \ {0} /\ StopTicks \in Nat /\ ReadTicks <= StopTicks
  /\ SemMax \in Nat \ {0}

ASSUME ThreadAssumption ==
  Mains \cap Procs = {} /\ Shell \notin Mains \cup Procs

VARIABLES
  running, state, trigger_sem, speech_ready_sem,  \* voice_assistant_ctrl
  pcm16_buffer,    \* NULL, being filled by the callback, or full
  long_enough,     \* pcm16_size >= 3200
  processing, process_thread,     \* g_audio_ctx.running; .process_thread # NULL
  recording,       \* g_capture_state = AUDIO_CAPTURE_RECORDING
  mic,             \* the is_running of the microphone driver
  main, proc, shell,
  taken,           \* the main threads that own a buffer worth sending
  delay,           \* ticks each thread still sleeps or waits for a frame
  faults           \* history: calls that have failed, and "dirty_start"

shared == <<running, state, trigger_sem, speech_ready_sem, pcm16_buffer, long_enough>>
process == <<processing, process_thread>>
capture == <<recording, mic>>
vars == <<shared, process, capture, main, proc, shell, taken, delay, faults>>

Init ==
  /\ running = FALSE
  /\ state = "IDLE"
  /\ trigger_sem = 0
  /\ speech_ready_sem = 0
  /\ pcm16_buffer = "null"
  /\ long_enough = FALSE
  /\ processing = FALSE
  /\ process_thread = FALSE
  /\ recording = FALSE
  /\ mic = FALSE
  /\ main = [m \in Mains |-> "none"]
  /\ proc = [p \in Procs |-> "none"]
  /\ shell = "idle"
  /\ taken = {}
  /\ delay = [t \in Mains \cup Procs \cup {Shell} |-> 0]
  /\ faults = {}

-----------------------------------------------------------------------------
(* The kernel: semaphores, failing calls, priorities and time. *)

Released(sem) == IF sem < SemMax THEN sem + 1 ELSE sem

\* Only the failures a property excepts are remembered.
Fails(call) ==
  /\ call \in MayFail
  /\ faults' = faults \cup ({call} \cap {"capture", "thread"})

\* A processing thread that loops over a microphone that is off: the read
\* fails at once and the loop goes on.
Spins(p) == proc[p] = "loop" /\ processing /\ ~mic

Runnable(m) ==
  /\ main[m] \notin {"none", "stt"}
  /\ delay[m] = 0
  /\ main[m] = "take" => speech_ready_sem > 0

Busy ==
  \/ \E m \in Mains : Runnable(m)
  \/ \E p \in Procs : proc[p] \notin {"none", "read"} /\ ~Spins(p)

\* Every processing thread that waits for a frame gets one within a tick
\* while the microphone is on; a timeout ends the wait
\* if it is not.
Tick ==
  /\ ~Busy
  /\ proc' = [p \in Procs |->
       CASE proc[p] = "read" /\ mic                       -> "frame"
         [] proc[p] = "read" /\ ~mic /\ delay[p] = 1      -> "loop"
         [] OTHER                                         -> proc[p]]
  /\ delay' = [t \in DOMAIN delay |->
       IF delay[t] = 0 \/ (t \in Procs /\ mic) THEN 0 ELSE delay[t] - 1]
  /\ UNCHANGED <<shared, process, capture, main, shell, taken, faults>>

-----------------------------------------------------------------------------
(* audio_capture_start and _stop, audio_process_start and _stop. *)

CaptureStart(ok) ==
  \/ /\ ok
     /\ recording' = TRUE
     /\ mic' = (mic \/ ~recording)    \* not asked for again if already recording
     /\ UNCHANGED faults
  \/ /\ ~ok
     /\ ~recording
     /\ ~mic
     /\ Fails("capture")
     /\ UNCHANGED capture

CaptureStop ==
  /\ recording' = FALSE
  /\ mic' = (mic /\ ~recording)

ProcessStart(ok) ==
  \/ /\ ok
     /\ processing
     /\ UNCHANGED <<process, proc, faults>>
  \/ /\ ok
     /\ ~processing
     /\ processing' = TRUE
     /\ process_thread' = TRUE
     /\ \E p \in Procs : proc[p] = "none" /\ proc' = [proc EXCEPT ![p] = "loop"]
     /\ UNCHANGED faults
  \/ /\ ~ok
     /\ ~processing
     /\ Fails("thread")
     /\ process_thread' = FALSE
     /\ UNCHANGED <<processing, proc>>

Unprocess(t, pause) ==
  /\ processing' = FALSE
  /\ delay' = [delay EXCEPT ![t] = pause]
  /\ UNCHANGED process_thread

\* Mutant: the thread is not given the time to end.
ProcessStopAtOnce(t) == Unprocess(t, 0)

\* The first half of audio_process_stop; thread t goes on with its second
\* half ("forget") after 100 ms, or returns at once.
ProcessStop(t) == Unprocess(t, IF processing /\ process_thread THEN PauseTicks ELSE 0)

AfterProcessStop(return) == IF processing THEN "forget" ELSE return

-----------------------------------------------------------------------------
(* voice_assistant_thread_entry. *)

Ended(m) == main[m] = "none"
At(m, call) == main[m] = call /\ delay[m] = 0
Goto(m, call) == main' = [main EXCEPT ![m] = call]

\* If the capture fails the thread returns; running stays TRUE.
MainCapture(m) ==
  /\ At(m, "capture")
  /\ \E ok \in BOOLEAN :
       CaptureStart(ok) /\ Goto(m, IF ok THEN "process" ELSE "none")
  /\ UNCHANGED <<shared, process, proc, shell, taken, delay>>

MainProcess(m) ==
  /\ At(m, "process")
  /\ \/ /\ ProcessStart(TRUE)
        /\ state' = "LISTENING"
        /\ Goto(m, "while")
        /\ UNCHANGED capture
     \/ /\ ProcessStart(FALSE)
        /\ CaptureStop
        /\ Goto(m, "none")
        /\ UNCHANGED state
  /\ UNCHANGED <<running, trigger_sem, speech_ready_sem, pcm16_buffer, long_enough,
                 shell, taken, delay>>

MainWhile(m) ==
  /\ At(m, "while")
  /\ Goto(m, IF running THEN "take" ELSE "stop")
  /\ UNCHANGED <<shared, process, capture, proc, shell, taken, delay, faults>>

Woken(m, pause) ==
  /\ At(m, "take")
  /\ speech_ready_sem > 0
  /\ speech_ready_sem' = speech_ready_sem - 1
  /\ IF running
     THEN /\ Goto(m, "restart")
          /\ delay' = [delay EXCEPT ![m] = pause]
          /\ taken' = IF pcm16_buffer # "null" /\ long_enough
                      THEN taken \cup {m} ELSE taken
          /\ pcm16_buffer' = "null"
          /\ long_enough' = FALSE
     ELSE /\ Goto(m, "stop")
          /\ UNCHANGED <<delay, taken, pcm16_buffer, long_enough>>
  /\ UNCHANGED <<running, state, trigger_sem, process, capture, proc, shell, faults>>

\* Mutant: the capture is restarted without the pause.
MainWokenHasty(m) == Woken(m, 0)

\* The recording is taken over (so that the callback cannot free it) and the
\* processing thread gets 100 ms to end.
MainWoken(m) == Woken(m, PauseTicks)

\* Results of the two starts are not looked at.
MainRestart(m) ==
  /\ At(m, "restart")
  /\ \E ok \in BOOLEAN : CaptureStart(ok)
  /\ Goto(m, "listen")
  /\ UNCHANGED <<shared, process, proc, shell, taken, delay>>

ListenAgain(m, worth) ==
  /\ At(m, "listen")
  /\ \E ok \in BOOLEAN : ProcessStart(ok)
  /\ IF worth
     THEN Goto(m, "stt") /\ state' = "PROCESSING"
     ELSE Goto(m, "while") /\ UNCHANGED state
  /\ UNCHANGED <<running, trigger_sem, speech_ready_sem, pcm16_buffer, long_enough,
                 capture, shell, taken, delay>>

\* Mutant: the recording is sent whatever it is.
MainListenUnchecked(m) == ListenAgain(m, TRUE)

\* No recording, or less than 100 ms of it, is skipped.
MainListen(m) == ListenAgain(m, m \in taken)

\* ai_cloud_service_speech_to_text returns, with a text or an error.
Answer(m) ==
  /\ main[m] = "stt"
  /\ state' = "LISTENING"
  /\ taken' = taken \ {m}
  /\ Goto(m, "while")
  /\ UNCHANGED <<running, trigger_sem, speech_ready_sem, pcm16_buffer, long_enough,
                 process, capture, proc, shell, delay, faults>>

MainStop(m) ==
  /\ At(m, "stop")
  /\ ProcessStop(m)
  /\ Goto(m, AfterProcessStop("close"))
  /\ UNCHANGED <<shared, capture, proc, shell, taken, faults>>

MainForget(m) ==
  /\ At(m, "forget")
  /\ process_thread' = FALSE
  /\ Goto(m, "close")
  /\ UNCHANGED <<shared, processing, capture, proc, shell, taken, delay, faults>>

Close(m) ==
  /\ At(m, "close")
  /\ Goto(m, "free")
  /\ UNCHANGED <<shared, process, proc, shell, taken, delay, faults>>

\* Mutant: the capture is left to va_stop.
MainCloseNothing(m) == Close(m) /\ UNCHANGED capture

MainClose(m) == Close(m) /\ CaptureStop

MainFree(m) ==
  /\ At(m, "free")
  /\ pcm16_buffer' = "null"
  /\ state' = "IDLE"
  /\ Goto(m, "none")
  /\ UNCHANGED <<running, trigger_sem, speech_ready_sem, long_enough, process,
                 capture, proc, shell, taken, delay, faults>>

MainStep(m) ==
  \/ MainCapture(m) \/ MainProcess(m) \/ MainWhile(m) \/ MainWoken(m)
  \/ MainRestart(m) \/ MainListen(m)
  \/ MainStop(m) \/ MainForget(m) \/ MainClose(m) \/ MainFree(m)

-----------------------------------------------------------------------------
(* audio_process_thread_entry; which frames end an utterance is in VadRecorder, *)
(* here any frame may.                                                          *)

ProcGoto(p, call) == proc' = [proc EXCEPT ![p] = call]

ProcExit(p) ==
  /\ proc[p] = "loop"
  /\ ~processing
  /\ ProcGoto(p, "none")
  /\ UNCHANGED <<shared, process, capture, main, shell, taken, delay, faults>>

ProcRead(p) ==
  /\ proc[p] = "loop"
  /\ processing
  /\ mic
  /\ ProcGoto(p, "read")
  /\ delay' = [delay EXCEPT ![p] = ReadTicks]
  /\ UNCHANGED <<shared, process, capture, main, shell, taken, faults>>

\* The processing threads share one lock, held over the callback.
Locked == \E p \in Procs : proc[p] \in {"convert", "reset"}

ProcFrame(p) ==
  /\ proc[p] = "frame"
  /\ ~Locked
  /\ ProcGoto(p, "loop")
  /\ UNCHANGED <<shared, process, capture, main, shell, taken, delay, faults>>

\* speech_data_handler frees the last buffer and allocates one.
ProcUtterance(p) ==
  /\ proc[p] = "frame"
  /\ ~Locked
  /\ pcm16_buffer' = "filling"
  /\ ProcGoto(p, "convert")
  /\ UNCHANGED <<running, state, trigger_sem, speech_ready_sem, long_enough,
                 process, capture, main, shell, taken, delay, faults>>

ProcMallocFails(p) ==
  /\ proc[p] = "frame"
  /\ ~Locked
  /\ Fails("malloc")
  /\ pcm16_buffer' = "null"
  /\ long_enough' = FALSE
  /\ speech_ready_sem' = Released(speech_ready_sem)
  /\ ProcGoto(p, "reset")
  /\ UNCHANGED <<running, state, trigger_sem, process, capture, main, shell, taken, delay>>

Convert(p, sem) ==
  /\ proc[p] = "convert"
  /\ pcm16_buffer' = IF pcm16_buffer = "filling" THEN "full" ELSE pcm16_buffer
  /\ long_enough' = TRUE
  /\ speech_ready_sem' = sem
  /\ ProcGoto(p, "reset")
  /\ UNCHANGED <<running, state, trigger_sem, process, capture, main, shell,
                 taken, delay, faults>>

\* Mutant: the main thread is not told.
ProcConvertSilent(p) == Convert(p, speech_ready_sem)

ProcConvert(p) == Convert(p, Released(speech_ready_sem))

Reset(p, listening) ==
  /\ proc[p] = "reset"
  /\ processing' = listening
  /\ ProcGoto(p, "loop")
  /\ UNCHANGED <<shared, process_thread, capture, main, shell, taken, delay, faults>>

\* Mutant: the thread goes on listening after it has delivered.
ProcResetListening(p) == Reset(p, processing)

\* After an utterance the thread ends, until it is started again.
ProcReset(p) == Reset(p, FALSE)

ProcStep(p) ==
  \/ ProcExit(p) \/ ProcRead(p) \/ ProcFrame(p) \/ ProcUtterance(p)
  \/ ProcMallocFails(p) \/ ProcConvert(p) \/ ProcReset(p)

-----------------------------------------------------------------------------
(* The commands va_start, va_trigger and va_stop. *)

ShellAt(call) ==
  /\ shell = call
  /\ delay[Shell] = 0
  /\ ~Busy
  /\ \A p \in Procs : ~Spins(p)

\* A main thread starts anew even if an earlier one has not ended or has left
\* the semaphore up (a dirty start).
Start ==
  /\ ShellAt("idle")
  /\ ~running
  /\ \/ /\ running' = TRUE
        /\ \E m \in Mains : Ended(m) /\ main' = [main EXCEPT ![m] = "capture"]
        /\ faults' = IF speech_ready_sem > 0 \/ \E m \in Mains : ~Ended(m)
                     THEN faults \cup {"dirty_start"} ELSE faults
     \/ Fails("main") /\ UNCHANGED <<running, main>>
  /\ UNCHANGED <<state, trigger_sem, speech_ready_sem, pcm16_buffer, long_enough,
                 process, capture, proc, shell, taken, delay>>

Trigger ==
  /\ ShellAt("idle")
  /\ running
  /\ IF state = "IDLE"
     THEN trigger_sem' = Released(trigger_sem) /\ UNCHANGED shell
     ELSE shell' = "refused" /\ UNCHANGED trigger_sem
  /\ UNCHANGED <<running, state, speech_ready_sem, pcm16_buffer, long_enough,
                 process, capture, main, proc, taken, delay, faults>>

TriggerReturn ==
  /\ ShellAt("refused")
  /\ shell' = "idle"
  /\ UNCHANGED <<shared, process, capture, main, proc, taken, delay, faults>>

Stop ==
  /\ ShellAt("idle")
  /\ running
  /\ ProcessStop(Shell)
  /\ shell' = AfterProcessStop("halt")
  /\ UNCHANGED <<shared, capture, main, proc, taken, faults>>

StopForget ==
  /\ ShellAt("forget")
  /\ process_thread' = FALSE
  /\ shell' = "halt"
  /\ UNCHANGED <<shared, processing, capture, main, proc, taken, delay, faults>>

\* audio_capture_stop: the driver is stopped first, the state set after it.
StopHalt ==
  /\ ShellAt("halt")
  /\ mic' = (mic /\ ~recording)
  /\ shell' = IF recording THEN "mark" ELSE "lower"
  /\ UNCHANGED <<shared, process, recording, main, proc, taken, delay, faults>>

StopMark ==
  /\ ShellAt("mark")
  /\ recording' = FALSE
  /\ shell' = "lower"
  /\ UNCHANGED <<shared, process, mic, main, proc, taken, delay, faults>>

StopLower ==
  /\ ShellAt("lower")
  /\ running' = FALSE
  /\ trigger_sem' = Released(trigger_sem)
  /\ shell' = "wake"
  /\ UNCHANGED <<state, speech_ready_sem, pcm16_buffer, long_enough, process,
                 capture, main, proc, taken, delay, faults>>

StopWake ==
  /\ ShellAt("wake")
  /\ speech_ready_sem' = Released(speech_ready_sem)
  /\ delay' = [delay EXCEPT ![Shell] = StopTicks]
  /\ shell' = "return"
  /\ UNCHANGED <<running, state, trigger_sem, pcm16_buffer, long_enough, process,
                 capture, main, proc, taken, faults>>

StopReturn ==
  /\ ShellAt("return")
  /\ shell' = "idle"
  /\ UNCHANGED <<shared, process, capture, main, proc, taken, delay, faults>>

\* A command that has begun goes on; nothing makes the user type another.
Command ==
  \/ TriggerReturn \/ StopForget \/ StopHalt \/ StopMark \/ StopLower
  \/ StopWake \/ StopReturn

Next ==
  \/ Start \/ Trigger \/ Stop \/ Command
  \/ \E m \in Mains : MainStep(m) \/ Answer(m)
  \/ \E p \in Procs : ProcStep(p)
  \/ Tick

Spec == Init /\ [][Next]_vars

\* Threads of equal priority share the processor, time passes, the web client
\* gives up in the end (its timeouts are 10 s and 30 s).  The shell runs when
\* it can time and again: threads of priority 10 that wait leave it the rest.
FairSpec ==
  /\ Spec
  /\ \A m \in Mains : WF_vars(MainStep(m)) /\ WF_vars(Answer(m))
  /\ \A p \in Procs : WF_vars(ProcStep(p))
  /\ SF_vars(Command)
  /\ WF_vars(Tick)

-----------------------------------------------------------------------------
(* Properties. *)

Stopping == shell \notin {"idle", "refused"}

\* Each va_start has found the threads of the last one ended and the
\* semaphore down.
Clean == "dirty_start" \notin faults

\* While a main thread waits for speech, the capture runs and a processing
\* thread reads it.  ("等待VAD检测到语音", wait for the VAD to detect speech,
\* before the rt_sem_take of the main loop; it fails after a dirty start)
SomebodyListens ==
  \A m \in Mains :
    main[m] = "take" /\ speech_ready_sem = 0 /\ running /\ ~Stopping
      /\ faults \cap {"capture", "thread"} = {}
      => mic /\ processing /\ \E p \in Procs : proc[p] # "none"

TypeOK ==
  /\ running \in BOOLEAN
  /\ state \in {"IDLE", "LISTENING", "PROCESSING"}
  /\ trigger_sem \in 0 .. SemMax
  /\ speech_ready_sem \in 0 .. SemMax
  /\ pcm16_buffer \in {"null", "filling", "full"}
  /\ long_enough \in BOOLEAN
  /\ processing \in BOOLEAN /\ process_thread \in BOOLEAN
  /\ recording \in BOOLEAN /\ mic \in BOOLEAN
  /\ main \in [Mains -> {"none", "capture", "process", "while", "take", "restart",
                         "listen", "stt", "stop", "forget", "close", "free"}]
  /\ proc \in [Procs -> {"none", "loop", "read", "frame", "convert", "reset"}]
  /\ shell \in {"idle", "refused", "forget", "halt", "mark", "lower", "wake", "return"}
  /\ taken \subseteq Mains
  /\ delay \in [Mains \cup Procs \cup {Shell} -> Nat]
  /\ faults \subseteq MayFail \cup {"dirty_start"}
  /\ \A m \in Mains : main[m] = "stt" => m \in taken

\* The callback fills a buffer that nobody has taken or freed meanwhile.
\* (audio_convert_32to16 writes through the pointer the main thread takes over)
FillsOwnBuffer ==
  Clean => \A p \in Procs : proc[p] = "convert" => pcm16_buffer = "filling"

\* A recording that is ready is given up only to the main thread, or when the
\* assistant has been stopped; no later recording overwrites it.
\* (the rt_free at the head of speech_data_handler)
NoUtteranceLost ==
  [][Clean /\ pcm16_buffer = "full" /\ pcm16_buffer' # "full"
       => taken' # taken \/ ~running]_vars

\* The recording buffer has one writer: there are never two processing
\* threads.  (audio_process_start makes one while the last may not have ended)
OneListener == Clean => Cardinality({p \in Procs : proc[p] # "none"}) <= 1

\* The main thread is never deaf: each delivery ends the processing thread,
\* and somebody listens again before the main thread waits again.
\* (the restart after rt_thread_mdelay(100) in the main loop)
Attentive == Clean => SomebodyListens

\* When all threads and the stop command have ended nothing is left on: the
\* capture is off, no thread processes it, no recording is kept.
\* (the clean-up of the main thread, which may have restarted the capture
\* after va_stop stopped it)
QuietWhenEnded ==
  Clean /\ (\A m \in Mains : Ended(m)) /\ ~running /\ ~Stopping
    => ~mic /\ ~processing /\ pcm16_buffer = "null"

\* A recording that is ready is taken or thrown away in the end.
\* (every delivery releases speech_ready_sem)
EveryUtteranceHandled ==
  pcm16_buffer = "full" /\ Clean ~> pcm16_buffer # "full" \/ ~Clean

(* What the comments and the documentation say and the code does not do. *)

\* "等待线程结束" (wait for the thread to end): when va_stop returns the main
\* thread has ended.  It has not if it is waiting for the cloud.
StopJoinsMain ==
  [][shell = "return" /\ shell' = "idle" => \A m \in Mains : Ended(m)]_vars

\* The command va_stop returns.  It does not when the main thread restarts
\* the processing while the capture is being stopped: the processing thread
\* then loops without waiting, above the shell's priority.
StopReturns == Stopping ~> ~Stopping

\* "释放信号量以退出线程" (release the semaphores so that the thread exits):
\* once the last va_stop has returned every main thread ends.
StoppedMainsEnd == <>[](~running /\ shell = "idle") => <>[](\A m \in Mains : Ended(m))

\* "手动触发语音识别" (trigger recognition by hand): va_trigger is accepted
\* while the assistant is listening.
TriggerAccepted == shell = "refused" => state # "LISTENING"

\* "Voice assistant already running": when va_start refuses because running
\* is set, there is a main thread.
RunningHasMain == running /\ shell = "idle" /\ ~Busy => \E m \in Mains : ~Ended(m)
=============================================================================
