# The voice assistant firmware in TLA+

This directory is a verification project for the I2S voice assistant: an
STM32H7R7 board (ART-Pi2, RT-Thread) that records speech with an INMP441
microphone, finds utterances in it, sends them to a speech service through a
proxy on a PC, and plays sound on a MAX98357A. It holds TLA+ modules translated
from the C and Python sources, TLC configurations that check them on small
instances, and TLAPS proofs of the results that matter most.

`PROJECT.json` maps every definition to the lines it models and lists runs,
mutants, findings, hazards and theorems. Unless said otherwise, file names are
those of `src/applications/`.

Run a model from this directory with
`tlc -workers 2 -config Inmp441Ring.cfg Inmp441Ring`, a proof with
`tlapm Inmp441Ring_proofs.tla`.

## 1. The system

```
 INMP441 --SAI DMA--> drv_sai_inmp441 --ring--> audio_capture_inmp441
                                                    |          |
                                    audio_process (VAD)   wakeup_detector
                                                    | callback |
                                             voice_assistant   |
                                                    |          |
                                  ai_cloud_service / ai_chat_service
                                                    | HTTP (web_client)
                                        xfyun_*_proxy.py (PC) --> iFlytek
 MAX98357A <--I2S DMA-- drv_audio_max98357a <-- audio_player <-- shell tools
```

Only the shell starts anything (`VOICE_ASSISTANT_AUTO_START` in `main.c` is 0, so
`voice_assistant_init` is called by the command `va_init`). There is one core.
Interrupts preempt threads anywhere; a thread is preempted by a thread of higher
priority (`voice_asst`, `audio_proc` 10, `wakeup` 12, `audio_play` 16, the shell
20) and shares the processor with its equals.

| Component | State | Operations | Interacts by |
|---|---|---|---|
| Microphone driver, `drv_sai_inmp441.c` | ring of frames, its indexes and counts, semaphore, mutex, DMA | three interrupt handlers; init, start, stop, read | semaphore and memory shared with interrupts |
| Capture, `audio_capture_inmp441.c` | `g_capture_state` | start, stop, read | calls the driver; called by two consumers |
| Voice activity detector, `audio_process.c` | recording buffer, hangover and speech counts, thread | process start, stop, one turn per frame | reads the capture, calls back the assistant |
| Voice assistant, `voice_assistant.c` | run flag, state, two semaphores, PCM buffer, main thread | `va_init`, `va_start`, `va_stop`, `va_trigger`, the callback, the main loop | all of the above, the cloud |
| Player, `audio_player.c` | state, buffer, position, thread, lock | play, stop, pause, resume | blocking writes to the DAC |
| DAC driver, `drv_audio_max98357a.c` | transfer under way, semaphore | transmit, its completion interrupt | DMA plays from the player's buffer |
| Wake-up detector, `wakeup_detector.c` | run flag, wake word, thread, its buffer | start, stop, the detection loop | a second consumer of the capture, the cloud |
| HTTP client, `web_client.c` | a socket and buffers per call | GET, POST, file upload | blocking sockets, 10 s and 30 s limits |
| Cloud and chat clients, `ai_cloud_service.c`, `ai_chat_service.c` | one configuration each, a response per call | speech to text, text to speech, both in a row, dialogue | the HTTP client |
| Proxies, `xfyun_stt_proxy.py`, `xfyun_tts_proxy.py`, `xfyun_proxy.py`, `tools/xfyun_proxy.py` | a session per request | one handler per URL | a web socket with callbacks on its own thread |
| Shell tools | none | test commands | call the services in sequence |

**What is hard.** The driver's counters are shared by interrupt handlers and
threads, and the mutex protects them from threads only. Starting, stopping and
restarting a recording takes several steps in three modules while three threads
run them. Threads are ended by clearing a flag and sleeping 100 or 500 ms, not
by joining. The player's buffer is played from by the DMA while a new playback
wants to be copied into it. The proxy's handler, socket thread and sender meet
in one event. Calls fail one at a time: memory, threads, transfers, sockets.

**What makes each part correct.**

- *Driver*: every captured frame is delivered once, in order and intact, or is
  refused because the ring is full; a capture that says it runs has its DMA armed.
- *Detector*: the recording stays in its buffer, has no hole, and is exactly the
  first utterance of what was heard.
- *Assistant*: one listener at a time, never deaf while it waits, the buffer has
  one owner, no recording is lost, everything is off after a stop.
- *Player and DAC*: the speaker gets the last playback from its start, every chunk
  once, to the last whole sample; the buffer is not overwritten while it plays; a
  stop silences; a playback ends even when the DMA does not.
- *Proxy session*: the service hears one utterance, a final text is whole, an
  error is reported, each request is answered, and its threads end.
- *Wake-up detector*: a stop ends its thread and leaves the capture off, its read
  loop never starves the shell, it finds the word in the text it heard, and it
  must not stop the assistant's capture.
- *HTTP, cloud*: each socket and string is freed once, a cut answer is not a
  success, success means a result.
- *Arithmetic and codecs*: the filter is stable, no cast distorts a sound of
  ordinary level, base64 carries the audio bit by bit.

## 2. The modules

**`FrameChannel`** is what the driver promises: a bounded queue of numbered
frames; a capture appends, or refuses when at most one place is free (a reader that has
taken its frame gives the place back a step later); a read takes the head.

**`Inmp441Ring`** is the driver. An interrupt handler is one action
(`RxHalfCplt`, `RxCplt`, `DmaError`); `inmp441_read_frame` is nine
(`BeginRead`, `TakeToken`, `Timeout`, `TakeLock`, `MallocFails`, `BeginCopy`,
`EndCopy`, `LoadCount`, `StoreCount`), because an interrupt may come between any
two of its accesses to shared memory: `dev->frame_count--` is a load and a store,
and the copy has a beginning and an end. Init, start and stop are split the same
way; the three stores of a start are three steps (`StartWrite`, `StartRead`,
`StartCount`), since another thread may have started the capture meanwhile. A
call of the HAL that arms the DMA may fail. A frame is its number in the order of
capture.

Six known events break the agreement of the ring and its counters. The history
variable `faults` records them: `lost_update` (an interrupt between the load and
the store of `frame_count--`), `stale_token` (a start zeroes the ring but not the
semaphore), `leaked_slot` (`rt_malloc` fails with the token taken), `deaf_start`
(the transfer ends before `is_running` is set), `failed_rearm` (the handler's call
that arms the next transfer fails and nobody looks at the result) and
`double_start` (a start zeroes the ring of a capture that another thread has
started). The properties say that *until one of these six happens* the driver is
right, so the list is complete; they say nothing of the events themselves. For
each of the first four a configuration shows that it does happen and what it
breaks.

**`VadRecorder`** is the detector's loop, one action per outcome of a frame
(`Ignore`, `Begin`, `Continue`, `HangOver`, `FinishSilent`, `FinishFull`) with
the buffer arithmetic kept: the capacity is no multiple of the frame (80000
samples, frames of 512), so what fits is a question. A frame is its position and
whether it is speech; the energy sum is abstracted.

**`VoiceAssistant`** puts the threads together: `main[m]`, one for each
`va_start`; `proc[p]`, one for each `audio_process_start`; the shell with the
three commands. Between two waits a thread makes one action for each call that
other threads could see half done. Thread priorities are guards (`Busy`, `Spins`,
`ShellAt`): the shell runs only while no thread of priority 10 can, which matters
because a processing thread that loops over a stopped microphone never waits.
Delays and time-outs are counted in `Tick`s of 50 ms. The ring is abstracted to "a
frame comes within a tick while the microphone is on", the detector to "a frame
may end an utterance". A `va_start` while an older main thread lives, or with the
semaphore up, is recorded in `faults` as `dirty_start`; the safety properties are
for behaviours without one and `MCVoiceAssistant_restart` and `_two_mains` show
what one does. The player is not used by the assistant in the shipped
configuration (the cloud returns text only).

**`AudioPlayer`** is the player over the DAC's transmit path: the client's call
(`Play`, `PlayCopy`, `PlayCreate`, `Stop...`, `Pause`, `Resume`), each player
thread (`Begin`, `While`, `Transmit`, `Advance`, `TimeOut`, `Refused`, `Complete`),
the completion interrupt `TxCplt` and time. Data is counted in bytes: it is cut to
the buffer (`Smaller`), the last chunk may be short (`ChunkSize`), and the driver
sends the whole samples of a chunk, so that an odd byte at the end is counted as
written and not sent, and a last chunk of one byte is refused by the HAL. A
transfer may be refused or stall for ever; the driver's wait then ends after 1 s.
What the speaker has played is the history variable `sent`.

**`SttSession`** is one recognition in `xfyun_stt_proxy.py`: the handler that
waits for the event, the callbacks on the web-socket thread, the sender. Where a
callback first writes the result or the error and then sets the event these are
two actions. An answer holds any number of words, which `on_message` appends one
by one (`KeepWord`); the final answer may hold none, and an answer may turn out
not to be one after some of its words were kept (`broken`), which is kept as an
error. The iFlytek service and the web-socket library are external, modelled from
how the proxy uses them: the service speaks, ends the recognition (after the last
frame, or on the silence `vad_eos` asks for), refuses or hangs up. The 30 s of the
wait may pass at any moment, which covers every speed of the service. An error
text is taken to be non-empty.

**`NoiseReduction`** is what `audio_process.c` does to the samples: the high-pass
filter, the energy, the conversion to 16 bits. The widths are constants (`Scale` =
2^8, `PcmHalf` = 2^15, `IntHalf` = 2^31, and the unsigned sizes), so that the
proofs speak of the real ones and TLC of small ones in the same proportions. A
cast is `Wrapped`. The float product 0.95f * y is one of the two integers next to
the exact product, which covers every rounding.

**`WakeupDetector`** is the detection thread and its two commands over the capture
it shares with the assistant. Of the assistant it has what touches the capture or
the processor: its main thread (`MainBegin` to `MainClose`), which starts the
capture, starts it again 100 ms after each utterance, also when `va_stop` has come
in between, and stops it at its own end, perhaps after a cloud request and with a
detector started meanwhile; its processing thread (`processing`: off, reading,
having heard a frame, or looping over a capture that is off); and `va_start` and
`va_stop` in the shell. The detector's threads have priority 12, the assistant's
10, the shell 20, which are the guards `ShellAt` and `Preempted`; a `Tick` is 500
ms, and the assistant's pauses of 100 ms end within one. A read of a capture that
is not recording fails at once and is tried again (`Spins`). The wake word is two
halves, because `strncpy` writes it while a thread may compare. Three events are
recorded in `faults`: `capture` (a start of the capture failed and the thread went
on), `hasty` (a start while the thread of an earlier one lives) and `shared` (the
assistant stopped the capture under a detector, in `va_stop` or in its own
thread).

**`CloudService`** is one call of `ai_cloud_service.c` or `ai_chat_service.c` with
the call of `web_client.c` in it, made by one thread after the other, each step of
which may fail (`MayFail`). What is followed is what the call holds (`held`, a
count per block and socket), how much of the answer it has got (`answer` is a
sequence of parts, `got` how many came before the buffer was full, the network
failed or the service was done) and what it returns. `Clears` says whether the
caller has cleared the response it passes. A status line has one of `Statuses` or,
when `sscanf` cannot read it, leaves 0 with `RT_EOK` (`Parse`). `faults` records such
a line (`no_status`), audio that could not be allocated (`inaudible`), a body that is
a null pointer and is searched (`null_read`) and an error text stored over another
(`overwritten`).

**`Base64`**, **`WakeWord`** and **`Codecs`**: `base64_encode`, `base64_decode` and
`wakeup_detector_check_text` as operators on sequences of bytes, and `Codecs`, which
compares them with reference definitions on bits and characters. Its variables
are the `arguments`; they grow by one byte or character a step, so that TLC sees
every argument up to the bound. A character is a member of `Chars`, its bytes are
`Utf8[c]` and its small letter `LowerCase[c]`; `Utf8Assumption` says what UTF-8 is
(the first byte tells how many follow, no two characters have the same bytes) and
which characters the names of the separators stand for.

Composition: `Inmp441Ring` implements `FrameChannel` (`Channel`, checked by
`ring` and proved in `Inmp441Ring_proofs`). `VoiceAssistant` composes capture,
processing and assistant and stands on the ring and the detector through their
interfaces; `WakeupDetector` composes the detector with the capture and with
the assistant's threads as far as they use it.

An MC module defines what a `.cfg` cannot write: answers, sets of samples,
symmetry. The other modules need none and are run with their configurations
directly.

## 3. The runs

| Run | Instance | Shows |
|---|---|---|
| `ring` | 2 readers, 1 controller, 2 buffers, 3 frames, 2 starts, one malloc failure, one DMA error, arming the DMA may fail | `TypeOK`, `TokensMatchFrames`, `RingInOrder`, `RunningIsArmed`, `ReadsInOrder`, `EveryFrameDelivered`, `ImplementsChannel` |
| `ring_lost_update` | 1 reader, 4 frames, no failures | finding `CountWithinRing` |
| `vad` | frames of 2 in a buffer of 11, hangover 2, minimum 4, 14 frames heard | `TypeOK`, `StaysInBuffer`, `NoHole`, `DeliversFirstUtterance` |
| `va` | one main and two processing threads, every call may fail | `TypeOK`, `FillsOwnBuffer`, `OneListener`, `Attentive`, `QuietWhenEnded`, `NoUtteranceLost`, `EveryUtteranceHandled` |
| `va_hang` | the same, longer delays | finding `StopReturns` |
| `player` | 2 threads, 3 playbacks of 4, 7, 9 or 13 bytes, buffer of 12, chunks of 4, pause and resume, the DMA may fail | `TypeOK`, `OnePlaybackAtATime`, `SentInOrder`, `CompleteIsWhole`, `StopSilences`, `PlaybackEnds` |
| `stt` | audio of 1 to 5 units, frames of 2, up to 2 words in up to 3 answers | `OneUtterance`, `FinalIsWhole`, `ErrorIsReported`, `RequestAnswered`, `ThreadsEnd` |
| `filter` | 6-bit samples up to 15, frames of 2, 4-bit PCM, 8-bit ints | `Stable`, `Undistorted` |
| `wakeup` | 2 threads, 1 word, windows of 2 reads, the assistant with one main and one processing thread, every call may fail | `TypeOK`, `NeverSpins`, `StopIsFinal` |
| `cloud` | answers of up to 6 parts, buffer of 5, every step may fail | `TypeOK`, `NothingLeaked`, `AnswerIsWhole`, `SuccessHasResult` |
| `cloud_url` | the same | finding `SpeechGoesToProxy` |
| `codec` | audio of up to 7 bytes; texts of up to 4 and words of up to 2 characters | `AudioSurvives`, `DetectsWord` |

The types of `SttSession` are proved; those of `NoiseReduction` (as far as its
theorems need them) are part of its invariant, and `Codecs` has nothing but its
arguments. Further configurations are kept beside these, one for each other known
disagreement (section 4); each ends in a counterexample.

**Why the bounds are enough.** *Ring*: two buffers wrap, fill and overflow with
three frames; two starts let a token of the first capture meet the second; two
readers contend for the mutex while one is in the middle of its copy; one
controller starts and stops (two make more than ten million states, and
`double_start` needs two); the proofs remove the bounds, that one too, for the
safety properties and for the refinement. *Detector*: 14 frames hold the longest
recording (5 frames), its hangover and a second stretch of speech after a noise,
and 11 is no multiple of 2, as 80000 is none of 512. *Assistant*: two processing
threads are what a restart can overlap, and a third would need a delay of 100 ms
shorter than a tick; threads that have ended are created again, so neither the
utterances nor the starts and stops are bounded. A second main thread beside a
live one is a dirty start, which the properties except; the configurations
`_restart` and `_two_mains` have two. The delays of 500 ms are ten ticks there and
in `va_hang`, their true ratio to the 100 ms of two; in `va` they are four, longer
than the pause, which is what the order of events depends on. `SemMax` is only
reached where releases go untaken. *Player*: of the sizes one is a chunk, one ends
in a short chunk with an odd byte, one in a single byte, and one is cut to the
buffer of 3 chunks; a playback may be interrupted by a second, and that by a
third; the proofs remove the bounds for the safety properties. *Proxy*: 1, 2, 3, 4
and 5 units are one short frame, one exact, and two and three frames; two words
come together or apart, and three answers leave room for an empty final one and
for one that cannot be parsed. *Filter*: the peak is the largest below half of
full scale (16), where the casts begin to matter; TLC runs the filter until no new
state appears, so the behaviours are not bounded. *Wake-up*: two threads are a
detector and the one a hasty start puts beside it, two reads make a window that
can be stopped in its middle, and the second of `wakeup_stop` is two ticks, its
true length; one main thread of the assistant ends and is started again without
bound, and a semaphore of two keeps a release of an earlier stop beside a new one.
A second word matters only to `SearchesWholeWord`, whose configuration has it.
*Cloud*: an answer of 6 parts can be cut after each of them by the network, and by
the buffer in its last; the configuration and the calls follow each other without
bound. *Codecs*: 7 bytes are two whole groups and each incomplete one; the buffers
of 8 and 6 bytes are smaller than the longest text and word, so both get cut.

`CHECK_DEADLOCK FALSE` is set where the environment may stop calling (nobody need
type a command, play a sound or start the capture) or a bound ends the behaviour.
In `vad`, `stt`, `filter` and the cloud runs deadlock is checked.

**Fairness and its justification.** *Ring*: a thread inside a driver call runs
on, and a reader calls `inmp441_read_frame` in a loop; nothing is assumed of the
DMA or of those who start and stop. *Assistant*: a thread that can run does (equal
priorities are sliced), time passes, a request to the cloud ends (the client's
limits are 10 s and 30 s), and a command that has begun goes on whenever the
shell gets to run time and again (strong fairness: its guard asks for idle
threads of priority 10; a processing thread that spins for ever leaves it
never enabled, so `va_hang` is not hidden). Nobody has to type. *Wake-up*: the
same, with the detector's threads besides; `StopIsFinal` says for itself that an
assistant whose processing thread loops for ever (`Starves`, the finding of
`va_hang`) is excepted. *Player*: the same, and
a transfer that does not stall ends. *Proxy*: the threads of one process are
scheduled and the wait is timed; nothing is assumed of the service, of opening
the connection or of the network, except that the library's reading loop notices
a closed socket and gives up a connection attempt in the end. The other runs state
no fairness: they check safety alone.

**Mutants.** For each property of each passing run `PROJECT.json` names a wrong
form of a mapped definition, such as a lock not taken, a pause left out or a
chunk forgotten, under which the property fails. They stand in the modules
before the definition they replace.

## 4. The findings

Where the code and what it says of itself (a comment, the header, the
documentation) disagree. The first three are runs; the others are configurations
of the same modules, named in the second column.

| Property | Configuration | What the code does |
|---|---|---|
| `CountWithinRing` | `Inmp441Ring_lost_update` | `frame_count--` in a thread loses an increment by the interrupt |
| `StopReturns` | `MCVoiceAssistant_hang` | the processing thread is restarted during a stop and starves the shell |
| `SpeechGoesToProxy` | `MCCloudService_url` | `ai_say` replaces the one URL of all services; speech then goes to it |
| `ReadBlocksUntilFrame` | `Inmp441Ring_stale_token` | tokens survive a restart; a read then returns a blank or repeated frame |
| `AvailableCanBeRead` | `Inmp441Ring_leaked_slot` | a failed `rt_malloc` costs a slot of the ring for good |
| `StartedIsCapturing` | `Inmp441Ring_deaf_start` | a transfer that completes during `inmp441_start` is never rearmed |
| `SomebodyListens` | `MCVoiceAssistant_restart` | the clean-up of the old main thread turns off the new one's capture |
| `StopJoinsMain` | `MCVoiceAssistant_join` | `va_stop` returns while the main thread waits for the cloud |
| `StoppedMainsEnd` | `MCVoiceAssistant_two_mains` | two main threads, one release: one of them never ends |
| `TriggerAccepted` | `MCVoiceAssistant_trigger` | `va_trigger` is refused whenever the assistant listens |
| `RunningHasMain` | `MCVoiceAssistant_failed_start` | a failed capture start leaves `running` set with no thread |
| `PlayingHasPlayer` | `AudioPlayer_resume` | resume after a pause plays nothing and says it does |
| `LastFrameMarked` | `SttSession_one_frame` | audio of one frame is never marked as ended |
| `TextIsFinal` | `SttSession_partial` | a timed-out or broken recognition is returned as a text |
| `FinalIsReturned` | `SttSession_late_error` | an error after the final answer discards it |
| `StopJoins` | `WakeupDetector_join` | `wakeup_stop` returns while the detector waits for the cloud |
| `AssistantHears` | `WakeupDetector_deaf` | the end of the detector switches off the assistant's capture |
| `SearchesWholeWord` | `WakeupDetector_word` | a new wake word is copied while the old detector searches for it |
| `ReplyIsShown` | `MCCloudService_reply` | a status line `sscanf` cannot read leaves status 0, which is copied to `error_code`: `ai_ask` shows a reply that is not there |
| `FreesOwnPointers` | `MCCloudService_wild` | `ai_test tts` before `ai_test init` frees what an uninitialised structure points to |
| `NothingOverwritten` | `MCCloudService_overwritten` | a full duplex call stores its error text over the one of text to speech |
| `BodyIsThere` | `MCCloudService_null` | a body that could not be copied is a null pointer, and is searched |
| `SkipsChineseComma` | `MCCodecs_comma` | the "Chinese comma" that is skipped is U+3001, not U+FF0C |
| `Undistorted` | `MCNoiseReduction_loud` | above half of full scale the filter's output wraps in the cast to 16 bits |

## 5. The proofs

The theorems hold for every value of the constants, from the assumptions named in
the modules: `RingAssumption`, `ThreadAssumption` and `BoundAssumption` of the
driver, `DelayAssumption` and `ThreadAssumption` of the assistant,
`VadAssumption`, `SttAssumption`, `PlayerAssumption`, `AnswersAssumption`;
`WindowAssumption`, `StopTicksAssumption`, `SemAssumption` and `ThreadsAssumption`
of the wake-up detector; `PeakAssumption`, `FrameSizeAssumption` and
`WidthAssumption` of the filter; and `BytesAssumption`, `MaxAssumption` and
`Utf8Assumption` of the codecs. Most of them only say of what kind a constant is;
those that say more are the code's: a frame fits in the recording buffer, the two
delays of the assistant (below), UTF-8. What a theorem needs beyond them stands in
its ASSUME. Every safety invariant and action property of the runs is stated by a
theorem; what is left to TLC is the liveness (at the end of this section).

**`Inmp441Ring_proofs`**

- `TypeCorrect`: in particular both indexes stay in the ring.
- `RingInvariant`: `RingInv` is inductive. `TokensMatchFrames` and `RingInOrder`
  alone are not: they count the readers between taking a token and giving back
  the count, and say nothing of who those are or what they hold. The strengthening
  adds that the mutex is owned by exactly the reader between its take and its
  release (`LockOwned`), so that one reader at most is there, and that, while no
  fault has happened, this reader copies from `read_idx` and what it has copied is
  the frame that is due (`CopyInPlace`). While a start is between its three stores
  the ring is empty and the capture off (`ZeroesEmpty`), so that the ring that is
  half zeroed is not read or filled. There is a lemma for each action that moves
  the ring (`PutStep`, `ZeroWriteStep`, `ZeroReadStep`, `ZeroCountStep`, `MoveStep`,
  `TokenStep`, `DeliverStep`, `CountStep`), over lemmas on ring arithmetic
  (`AfterIs`, `AfterFacts`) and on the number of readers in a stage (`Counts`,
  `Numbers`).
- `TokensAlwaysMatch`, `RingAlwaysInOrder`, `RunningAlwaysArmed`,
  `ReadsAlwaysInOrder`: the safety properties of the run `ring`, as consequences.
- `RefusesOnlyFull`: a frame is refused only when the ring is full, or a reader
  is about to give the last place back. No run checks it by itself; it is
  part of what `ImplementsChannel` says.

- `DriverIsChannel`, the refinement. By `RingInv` and as long as there is no
  fault, the frames in the channel are the run of numbers from the last one
  delivered to the last one captured (`QueueIs`). A step of the driver moves at
  most one of the two ends, or refuses a frame (`OneMove`), and that is a step of
  `FrameChannel` or a stutter (`ChannelStep`).

**`VadRecorder_proofs`**

- `TypeCorrect`, `AlwaysInBuffer`: with `SizeInv`, for every frame size and
  capacity.
- `NeverAHole`: `NoHole` is not inductive, because a frame dropped for want of
  room must never be followed by one that is kept; `RunInv` adds that the
  recording reaches to the frame just heard as long as there is room for more.
- `DeliversTheFirst`: `DeliversFirstUtterance` compares what the callback was given
  with a definition over the whole history of frames that knows nothing of the
  detector's states. The invariant is `Tracks`: the state is idle exactly when
  no recording is open in the history (`Begun`), the recording is the frames kept
  since then, the speech count is the number of speech frames among them, and the
  hangover tells how many frames ago the last of them was. `Open`, the recursive
  function that says where a recording begins, is followed one frame at a time.

**`VoiceAssistant_proofs`**: `TypeCorrect`, `AlwaysOneListener`,
`AlwaysFillsOwnBuffer`, `AlwaysAttentive`, `AlwaysQuietInTheEnd` and
`NoUtteranceIsLost`, for any number of threads, from one invariant (`IInv`). Nothing in
the code keeps the threads apart but the order in which they wake, so the
invariant says at each wait who may still be alive: no processing thread that
could deliver is left while the main thread pauses, and none at all when its pause
is over (`NoneLeft`); a thread that was told to end has the ticks it needs left in
the pause of the one that told it (`Ending`); a read over a microphone that is off
times out before `va_stop` returns (`Reading`); a delivered utterance is the only one
(`Delivered`); what is on has a main thread that will switch it off (`Capturing`,
`Processing`). This needs of the delays only what `DelayAssumption` says: a pause
is at least two ticks (100 ms, longer than two frames) and a read times out within the
delay that ends `va_stop` (500 ms each). The second has no margin in the code.
There is a lemma for each action, which shows that a conjunct it disturbs holds again.

**`SttSession_proofs`**

- `TypeCorrect`.
- `ErrorsAlwaysReported`: by `ErrorInv`, which says at every point of the three
  threads where an error is about to be announced that it is already in its slot.
- `AlwaysOneUtterance`: `OneUtterance` speaks of the frames alone; `SendInv` ties
  the last frame to the sender's offset.
- `FinalAlwaysWhole`: `InboxInv` says that the list of words, what is left of the
  answer `on_message` works on and the answers on their way are in this order all
  the service has said, and that nothing follows a final answer; `WholeInv` says
  that once a final answer has been taken, even before the
  event is set, the list is complete and stays so.

**`AudioPlayer_proofs`**: `TypeCorrect`, `AlwaysOnePlayback`, `AlwaysInOrder`,
`StopAlwaysSilences` and `CompleteIsAlwaysWhole`, from one invariant: the lock is
held by exactly the player that waits for the DMA (`LockIsWaiters`), there is one
player at most and none when one is about to be created (`OnePlayer`), while the
lock is held the device plays the chunk at `buffer_pos` or its completion has
been signalled, and otherwise it is at rest (`Transfer`), and what was sent ends at the
last whole sample before `buffer_pos`, or before the end of the chunk that has just
been played; before the end of the data `buffer_pos` is even, so no byte is left out
there (`Loaded`). The argument does not need the two delays of 100 ms: the
lock and the priorities are what keeps a new playback off the old.

**`WakeupDetector_proofs`**, for any number of threads, words and reads:

- `TypeCorrect`: in particular no read goes past the window (`Buffers`: a thread
  that is reading has room for one more).
- `AlwaysWaits`: `NeverSpins` speaks of one moment; the invariant says for every
  point of a thread between its start and its end that the capture is on
  (`Recorded`), and this holds because until one of the three faults there is one
  thread at most (`Alone`), so that nobody else ends its capture.
- `EndsClean`: whichever calls failed, a capture that is on has a detection thread
  or a main thread of the assistant that will stop it (`Owned`), so that the last
  detection thread to end leaves neither a buffer nor, unless such a main thread
  lives (`MainOwns`), the capture. No run checks it by itself; it is the safety half of
  `StopIsFinal`.

**`CloudService_proofs`**, all four for callers that clear their response (`Clears`
without FALSE), any buffer size and any set of failing steps:

- `TypeCorrect`, for any answers and statuses: no block is held or freed twice but
  the error text that was overwritten. It stands on the invariant of the next
  theorem, which counts what is held.
- `NothingIsLeaked`, for any answers and statuses. The invariant gives for every
  `pc` exactly what is held: the inputs prepared so far, what the HTTP client has
  open at that step (`Connection`), the body, what the response points to, and the
  text a full duplex call keeps aside.
- `SuccessHasItsResult`, for any answers and status lines, with the two exceptions
  the property names (`no_status`, `inaudible`): by `SuccessInv`, which follows the error
  code from the step that found no result to the return.
- `AnswerIsAlwaysWhole`, if the service closes the quotes it opens, once and at the
  end (`ClosesQuotes`): what is cut has lost its closing quote and is refused
  (`QuotedIsWhole`), and `WholeInv` carries that from the parser to the caller.

**`Conversions_proofs`**, the filter, Base64 and the search for the wake word.

- `Stability`: the output stays within the peak of the input, hence within twice
  the peak, for ever. `DecayStaysNear` is the reason: a factor between 0 and 1
  moves a value towards zero, whichever way the product is rounded.
- `CastsKeepValues`: below half of full scale (`BelowHalfScale`), and with an `int`
  that holds the square of a PCM sample (`IntHoldsSquares`), no cast changes a
  sample or its square.
- `NeverDistorted`: if moreover the words hold the sums (`WordsHoldSums`), the
  fixed-width energy of a frame is the true mean of its squares. In the code
  these are 2^30 < 2^31 for the square, 512 * 2^30 < 2^64 for the sum and 2^30 <
  2^32 for the mean. As long as the sum is below the width it wraps at, the
  two folds go step by step together (`SumsAgree`).
- `DecodeUndoesEncode`, for audio of every length. The encoded text is given group
  by group (`EncodedIs`), so no induction is needed; each of the groups of three,
  two and one bytes is an identity of `\div` and `%`.
- `AudioAlwaysSurvives`: besides, bit p of the audio is bit p of the text
  (`EncodedBits`), which comes down to a group of 24 bits read in four sextets or
  in three octets (`GroupBits`).
- `WordAlwaysFound`: `DetectsWord` for every alphabet in UTF-8, every text and word
  and any size of the two buffers. A text's bytes are laid out character by
  character (`Layout`), and a byte that does not continue a character begins one
  (`LeadBegins`); so a mark found among the bytes is one character, and a byte is
  skipped exactly when its character is a separator (`SkippedIs`). Hence what is in
  the buffer is the beginning of what counts (`SkimsText`), and since a match must
  begin where a character does (`BeginsAtChar`) and goes on character by character
  (`NextChar`), searching bytes is searching characters (`OccursBytes`).

**Recursion and induction.** The installed provers cannot instantiate the library's
induction theorems, which take an operator. Induction over the numbers is done with
a set instead: the numbers with a property are a set that has 0 and with n also n +
1, and a set of numbers has a least element (`LeastElement`, `Induction`, from
`WFMin`, which takes a set). A recursive function or a fold is a CHOOSE: a function
that satisfies its equation is shown to exist (`FoldExists`, `FoldLeftExists` and,
for `Open`, its own), and then the chosen one satisfies it. So what the recursions
compute is proved too, and not only checked.

**Only model-checked.** All liveness (`EveryFrameDelivered`,
`EveryUtteranceHandled`, `PlaybackEnds`, `RequestAnswered`, `ThreadsEnd`,
`StopIsFinal`): fairness and `ENABLED` are out of the prover's reach. The findings
are counterexamples, which TLC gives.

## 6. What is not modelled

- Memory contents: a frame of the ring is a number, a chunk its place and length. Whether
  a frame is speech is a free choice; `NoiseReduction` has the sample values.
- The SAI and I2S registers, clocks and pin set-up; DMA and cache maintenance
  below "a half is full" and "a chunk is played".
- The start of the system: `VoiceAssistant` begins after `va_init`,
  `AudioPlayer` after `audio_player_init`.
- The registration of the DAC as an RT-Thread audio device and its configuration record.
- Text to speech, full duplex and wake-up inside the assistant: off in
  `voice_assistant_config.h`. (The two calls themselves are in `CloudService`.)
- Of the clients: `parse_url`, `ai_chat_service_set_system_prompt`, the decoding
  of Unicode escapes. The code hides two limits
  that follow from sizes: synthesised speech of more than about 0.75 s does not fit
  the 32 KB answer buffer, and raw audio has no end mark, so that `AnswerIsWhole`
  speaks of quoted audio only.
- The single-file proxy `tools/xfyun_proxy.py` (the session of `SttSession` in a
  server of one thread), `xfyun_tts_proxy.py` (a smaller form of the same session)
  and the chat proxy (it forwards a request and keeps nothing).
- The LVGL user interface (not compiled), generated sample tables, RT-Thread,
  HAL, board support and the Wi-Fi driver (vendored).

## 7. The plan

Done, in this order:

1. `FrameChannel`, `Inmp441Ring`, with the invariant and the refinement proved.
2. `VadRecorder`, with its buffer safety proved.
3. `VoiceAssistant`, its safety proved.
4. `AudioPlayer` with the DAC's transmit path, its safety proved.
5. `SttSession`, with its safety properties proved.
6. `WakeupDetector`: the detector on a capture it shares, its safety proved.
7. `CloudService`: `web_client.c` and its users with every step failing, its
   safety proved.
8. `NoiseReduction`, `Base64`, `WakeWord`: the arithmetic and the codecs, proved
   for all widths, lengths and alphabets.

What is left:

9. `ProxyQueue`: the single-threaded proxy with the device's 30 s limit, composed
   of `SttSession` and `CloudService`.
10. The safety halves of the liveness properties as theorems, as `EndsClean` is of
    `StopIsFinal`: what a request, a playback or a stop leaves behind when it ends.
