---------------------------- MODULE VadRecorder ----------------------------
(***************************************************************************)
(* The voice activity detector of src/applications/audio_process.c: what   *)
(* the processing thread does with the frames it reads, from the start of  *)
(* audio_process_start to the one utterance it delivers.                   *)
(*                                                                         *)
(* A frame is speech or it is not (its energy exceeds VAD_THRESHOLD); it   *)
(* is identified by its position among the frames heard since the start.   *)
(* The recording buffer holds CAPACITY samples and a frame FRAME_SIZE of   *)
(* them, and one does not divide the other (80000 and 512 in the code).    *)
(*                                                                         *)
(* The thread alone touches this state while it runs; the life of the      *)
(* thread, its callback and the threads that stop it are in VoiceAssistant.*)
(***************************************************************************)
EXTENDS Integers, Sequences, FiniteSets

CONSTANTS
  VAD_HANGOVER_FRAMES, VAD_MIN_SPEECH_FRAMES,
  FRAME_SIZE, CAPACITY,
  MaxHeard              \* bound: frames heard between a start and its end

ASSUME VadAssumption ==
  /\ VAD_HANGOVER_FRAMES \in Nat
  /\ VAD_MIN_SPEECH_FRAMES \in Nat
  /\ FRAME_SIZE \in Nat \ {0}
  /\ CAPACITY \in Nat
  /\ FRAME_SIZE <= CAPACITY
  /\ MaxHeard \in Nat

VARIABLES
  running, state,
  vad_hangover_count, speech_frame_count,
  recording,   \* recording.data: the positions of the frames in it
  heard,       \* history: was it speech, for each frame since the start
  delivered    \* history: the recording given to the callback, if any

vars == <<running, state, vad_hangover_count, speech_frame_count, recording,
          heard, delivered>>

Init ==
  /\ running = FALSE
  /\ state = "IDLE"
  /\ vad_hangover_count = 0
  /\ speech_frame_count = 0
  /\ recording = <<>>
  /\ heard = <<>>
  /\ delivered = <<>>

\* audio_process_start.  speech_frame_count keeps its value.
Start ==
  /\ ~running
  /\ running' = TRUE
  /\ state' = "IDLE"
  /\ recording' = <<>>
  /\ vad_hangover_count' = 0
  /\ heard' = <<>>
  /\ delivered' = <<>>
  /\ UNCHANGED speech_frame_count

\* audio_process_stop.
Stop ==
  /\ running
  /\ running' = FALSE
  /\ state' = "IDLE"
  /\ UNCHANGED <<vad_hangover_count, speech_frame_count, recording, heard, delivered>>

-----------------------------------------------------------------------------
(* One turn of the thread's loop. *)

\* Mutant: the size of the frame is forgotten.
FitsOneMore(rec) == Len(rec) * FRAME_SIZE <= CAPACITY

\* recording.size + frame.size <= recording.capacity
Fits(rec) == Len(rec) * FRAME_SIZE + FRAME_SIZE <= CAPACITY

Kept(rec) == IF Fits(rec) THEN Append(rec, Len(heard) + 1) ELSE rec

Heard(speech) ==
  /\ running
  /\ Len(heard) < MaxHeard
  /\ heard' = Append(heard, speech)

\* No recording and no speech.
Ignore ==
  /\ state = "IDLE"
  /\ Heard(FALSE)
  /\ UNCHANGED <<running, state, vad_hangover_count, speech_frame_count,
                 recording, delivered>>

Begin ==
  /\ state = "IDLE"
  /\ Heard(TRUE)
  /\ state' = "RECORDING"
  /\ recording' = Kept(<<>>)
  /\ vad_hangover_count' = VAD_HANGOVER_FRAMES
  /\ speech_frame_count' = 1
  /\ UNCHANGED <<running, delivered>>

Continue ==
  /\ state = "RECORDING"
  /\ Fits(recording)
  /\ Heard(TRUE)
  /\ vad_hangover_count' = VAD_HANGOVER_FRAMES
  /\ speech_frame_count' = speech_frame_count + 1
  /\ recording' = Kept(recording)
  /\ UNCHANGED <<running, state, delivered>>

Pause(left, rec) ==
  /\ state = "RECORDING"
  /\ left
  /\ Heard(FALSE)
  /\ vad_hangover_count' = vad_hangover_count - 1
  /\ recording' = rec
  /\ UNCHANGED <<running, state, speech_frame_count, delivered>>

\* Mutants: the hangover is not tested, and its frames are not recorded.
HangOverForever == Pause(TRUE, Kept(recording))
HangOverUnrecorded == Pause(vad_hangover_count > 0, recording)

\* Silence within the hangover is recorded too; a frame that does not fit is
\* dropped and the recording goes on.
HangOver == Pause(vad_hangover_count > 0, Kept(recording))

\* finish_recording: too little speech is noise; the callback gets the rest
\* and the thread ends.
Finish(speechFrames) ==
  /\ state' = "IDLE"
  /\ recording' = <<>>
  /\ \/ /\ speechFrames < VAD_MIN_SPEECH_FRAMES
        /\ UNCHANGED <<running, delivered>>
     \/ /\ speechFrames >= VAD_MIN_SPEECH_FRAMES
        /\ delivered' = recording
        /\ running' = FALSE

FinishSilent ==
  /\ state = "RECORDING"
  /\ vad_hangover_count = 0
  /\ Heard(FALSE)
  /\ Finish(speech_frame_count)
  /\ UNCHANGED <<vad_hangover_count, speech_frame_count>>

FullAfter(speechFrames) ==
  /\ state = "RECORDING"
  /\ ~Fits(recording)
  /\ Heard(TRUE)
  /\ vad_hangover_count' = VAD_HANGOVER_FRAMES
  /\ speech_frame_count' = speechFrames
  /\ Finish(speechFrames)

\* Mutant: the frame that does not fit is not counted.
FinishFullUncounted == FullAfter(speech_frame_count)

\* Speech that does not fit.
FinishFull == FullAfter(speech_frame_count + 1)

Next ==
  \/ Start \/ Stop
  \/ Ignore \/ Begin \/ Continue \/ HangOver \/ FinishSilent \/ FinishFull

Spec == Init /\ [][Next]_vars

-----------------------------------------------------------------------------
(* The reference: which part of what was heard is an utterance. *)

\* The frames that fit in the buffer.
Frames == CAPACITY \div FRAME_SIZE

\* A stretch begun at frame s ends at frame i: with the last of
\* VAD_HANGOVER_FRAMES + 1 frames of silence, or with speech the buffer has
\* no room for.
Ends(h, s, i) ==
  \/ /\ i - s > VAD_HANGOVER_FRAMES
     /\ \A j \in i - VAD_HANGOVER_FRAMES .. i : ~h[j]
  \/ h[i] /\ i - s >= Frames

\* The first frame of the stretch that is open after each frame, 0 if none.
Open(h) ==
  LET open[i \in 0 .. Len(h)] ==
        IF i = 0 THEN 0
        ELSE LET s == open[i - 1]
             IN CASE s = 0 /\ h[i]              -> i
                  [] s # 0 /\ ~Ends(h, s, i)    -> s
                  [] OTHER                      -> 0
  IN open

\* The stretches <<s, i>> that hold enough speech.
Utterances(h) ==
  LET Enough(s, i) ==
        Cardinality({j \in s .. i : h[j]}) >= VAD_MIN_SPEECH_FRAMES
  IN {u \in {<<Open(h)[i - 1], i>> : i \in 1 .. Len(h)} :
        u[1] # 0 /\ Ends(h, u[1], u[2]) /\ Enough(u[1], u[2])}

\* What is recorded of a stretch: all but the frame that ends it, as far as
\* there is room.
Recorded(s, i) ==
  [k \in 1 .. (IF i - s < Frames THEN i - s ELSE Frames) |-> s + k - 1]

-----------------------------------------------------------------------------
(* Properties. *)

TypeOK ==
  /\ running \in BOOLEAN
  /\ state \in {"IDLE", "RECORDING"}
  /\ vad_hangover_count \in 0 .. VAD_HANGOVER_FRAMES
  /\ speech_frame_count \in Nat
  /\ recording \in Seq(Nat)
  /\ heard \in Seq(BOOLEAN)
  /\ delivered \in Seq(Nat)

\* The recording never outgrows its buffer, whatever is heard and however
\* frames and buffer divide.  (the four rt_memcpy of audio_process_thread_entry)
StaysInBuffer == Len(recording) * FRAME_SIZE <= CAPACITY

\* A recording has no hole: it is a run of consecutive frames, the first of
\* them speech.  (a frame dropped in the hangover is never followed by a kept one)
NoHole ==
  state = "RECORDING" =>
    /\ recording # <<>>
    /\ heard[recording[1]]
    /\ \A k \in 1 .. Len(recording) : recording[k] = recording[1] + k - 1

\* The callback gets exactly the first utterance of what was heard, at the
\* frame that ends it, and a thread that runs on has heard none.
DeliversFirstUtterance ==
  /\ running => Utterances(heard) = {}
  /\ delivered # <<>> =>
       \E s, i \in 1 .. Len(heard) :
         /\ Utterances(heard) = {<<s, i>>}
         /\ i = Len(heard)
         /\ delivered = Recorded(s, i)
=============================================================================
