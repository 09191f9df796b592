---------------------------- MODULE AudioPlayer ----------------------------
(***************************************************************************)
(* The audio player, src/applications/audio_player.c, over the transmit    *)
(* path of drv_audio_max98357a.c, from a successful audio_player_init on.  *)
(*                                                                         *)
(*   client      the thread that calls the player (the shell, priority 20) *)
(*   player[t]   "audio_play", one created by each audio_player_play,      *)
(*               priority 16, so that the client runs only while no player *)
(*               can                                                       *)
(*   DMA         plays one chunk of the buffer straight from memory        *)
(*                                                                         *)
(* A playback is identified by a number, its data by their positions.      *)
(* Sizes are in bytes, CHUNK_SIZE of them at most to a transfer, and what  *)
(* a transfer moves is samples of two bytes.                               *)
(* Time passes in Ticks of 50 ms, as in VoiceAssistant.                    *)
(***************************************************************************)
EXTENDS Integers, Sequences, FiniteSets

CONSTANTS
  Players,        \* threads to be created
  Calls,          \* the calls clients make: "play", "stop", "pause", "resume"
  AUDIO_PLAY_BUFFER_SIZE,
  CHUNK_SIZE,
  Sizes,          \* bound: the sizes clients ask for
  MaxPlays,       \* bound: calls of audio_player_play
  PauseTicks,     \* the delays of 100 ms
  ChunkTicks,     \* the longest a chunk plays
  TimeoutTicks,   \* how long the driver waits for the DMA, 1000 ms
  DmaMayFail      \* whether a transfer may be refused, or never complete

ASSUME PlayerAssumption ==
  /\ AUDIO_PLAY_BUFFER_SIZE \in Nat \ {0}
  /\ CHUNK_SIZE \in Nat \ {0} /\ CHUNK_SIZE = 2 * (CHUNK_SIZE \div 2)
  /\ Sizes \subseteq Nat \ {0}
  /\ MaxPlays \in Nat
  /\ PauseTicks \in Nat
  /\ "free" \notin Players
  /\ ChunkTicks \in Nat /\ ChunkTicks < TimeoutTicks
  /\ TimeoutTicks \in Nat
  /\ DmaMayFail \in BOOLEAN

VARIABLES
  dac,                             \* dac_dev # NULL
  state, buffer_size, buffer_pos,  \* audio_player_ctrl
  buffer,         \* the playback whose data is in the buffer
  player_thread,  \* player_thread # NULL
  lock,           \* "free" or the player that holds it
  client, restarting,   \* the client's next step; is it a stop within a play
  sleep,          \* ticks the client still sleeps
  player,         \* each player's next step
  waited,         \* ticks the driver has waited for the DMA
  dma,            \* what it plays: idle, or a piece of a playback
  age, stalled,   \* how long it has played it; it will never be done
  dma_sem,
  plays, sent     \* history: playbacks so far; pieces of the last one played out

control == <<state, buffer_size, buffer_pos, buffer>>
device == <<waited, dma, age, stalled, dma_sem, sent>>
vars == <<dac, control, player_thread, lock, client, restarting, sleep, player,
          device, plays>>

\* A piece of a playback: its number, the first byte, the number of samples.
Silent == <<0, 0, 0>>
UpTo(piece) == piece[2] + 2 * piece[3]

Smaller(a, b) == IF a < b THEN a ELSE b

Init ==
  /\ dac \in BOOLEAN
  /\ state = "IDLE"
  /\ buffer_size = 0
  /\ buffer_pos = 0
  /\ buffer = 0
  /\ player_thread = FALSE
  /\ lock = "free"
  /\ client = "idle"
  /\ restarting = FALSE
  /\ sleep = 0
  /\ player = [t \in Players |-> "none"]
  /\ waited = 0
  /\ dma = Silent
  /\ age = 0
  /\ stalled = FALSE
  /\ dma_sem = 0
  /\ plays = 0
  /\ sent = <<>>

-----------------------------------------------------------------------------
(* audio_player_thread_entry. *)

Goto(t, step) == player' = [player EXCEPT ![t] = step]

\* Without an audio device the thread ends at once.
NoDevice(t) ==
  /\ player[t] = "begin"
  /\ ~dac
  /\ state' = "IDLE"
  /\ Goto(t, "none")
  /\ UNCHANGED <<dac, buffer_size, buffer_pos, buffer, player_thread, lock, client,
                 restarting, sleep, device, plays>>

Begin(t) ==
  /\ player[t] = "begin"
  /\ dac
  /\ Goto(t, "while")
  /\ UNCHANGED <<dac, control, player_thread, lock, client, restarting, sleep,
                 device, plays>>

While(t) ==
  /\ player[t] = "while"
  /\ Goto(t, IF state = "PLAYING" THEN "lock" ELSE "none")
  /\ UNCHANGED <<dac, control, player_thread, lock, client, restarting, sleep,
                 device, plays>>

\* chunk_size, less at the end of the data.
ChunkSize == Smaller(buffer_size - buffer_pos, CHUNK_SIZE)

\* audio_transmit starts the DMA on the buffer itself; an odd byte at the end
\* of the data is not sent.
Transmit(t) ==
  /\ player[t] = "lock"
  /\ lock = "free"
  /\ buffer_pos < buffer_size
  /\ ChunkSize \div 2 > 0
  /\ dma = Silent
  /\ lock' = t
  /\ dma' = <<buffer, buffer_pos, ChunkSize \div 2>>
  /\ age' = 0
  /\ waited' = 0
  /\ stalled' \in {FALSE, DmaMayFail}
  /\ Goto(t, "wait")
  /\ UNCHANGED <<dac, control, player_thread, client, restarting, sleep, dma_sem,
                 sent, plays>>

\* The HAL is busy or fails, as it does for no samples: the write fails and
\* the playback is given up.
Refused(t) ==
  /\ player[t] = "lock"
  /\ lock = "free"
  /\ buffer_pos < buffer_size
  /\ dma # Silent \/ ChunkSize \div 2 = 0 \/ DmaMayFail
  /\ state' = "IDLE"
  /\ Goto(t, "while")
  /\ UNCHANGED <<dac, buffer_size, buffer_pos, buffer, player_thread, lock, client,
                 restarting, sleep, device, plays>>

Complete(t, done) ==
  /\ player[t] = "lock"
  /\ lock = "free"
  /\ done
  /\ state' = "IDLE"
  /\ buffer_size' = 0
  /\ buffer_pos' = 0
  /\ Goto(t, "none")
  /\ UNCHANGED <<dac, buffer, player_thread, lock, client, restarting, sleep,
                 device, plays>>

\* Mutant: a short last chunk is left out.
CompletedEarly(t) == Complete(t, buffer_pos + CHUNK_SIZE > buffer_size)

Completed(t) == Complete(t, buffer_pos >= buffer_size)

Advance(t, pos) ==
  /\ player[t] = "wait"
  /\ dma_sem > 0
  /\ dma_sem' = dma_sem - 1
  /\ buffer_pos' = pos
  /\ lock' = "free"
  /\ Goto(t, "while")
  /\ UNCHANGED <<dac, state, buffer_size, buffer, player_thread, client, restarting,
                 sleep, waited, dma, age, stalled, sent, plays>>

\* Mutant: a short chunk is counted as a whole one.
WrittenChunk(t) == Advance(t, buffer_pos + CHUNK_SIZE)

\* Mutant: the position stays.
WrittenNothing(t) == Advance(t, buffer_pos)

\* audio_transmit says that all of the chunk is written, the odd byte too.
Written(t) == Advance(t, buffer_pos + ChunkSize)

TimeOut(t, next) ==
  /\ player[t] = "wait"
  /\ waited = TimeoutTicks
  /\ dma_sem = 0
  /\ dma' = Silent
  /\ stalled' = FALSE
  /\ state' = next
  /\ lock' = "free"
  /\ Goto(t, "while")
  /\ UNCHANGED <<dac, buffer_size, buffer_pos, buffer, player_thread, client,
                 restarting, sleep, waited, age, dma_sem, sent, plays>>

\* Mutant: the write is tried again.
TimeoutRetried(t) == TimeOut(t, state)

\* The driver stops the DMA and the playback is given up.
Timeout(t) == TimeOut(t, "IDLE")

PlayerStep(t) ==
  \/ NoDevice(t) \/ Begin(t) \/ While(t) \/ Transmit(t) \/ Refused(t)
  \/ Completed(t) \/ Written(t) \/ Timeout(t)

-----------------------------------------------------------------------------
(* The DMA interrupt, HAL_I2S_TxCpltCallback, and time. *)

TxCplt ==
  /\ dma # Silent
  /\ ~stalled
  /\ dma_sem' = dma_sem + 1
  /\ sent' = Append(sent, dma)
  /\ dma' = Silent
  /\ UNCHANGED <<dac, control, player_thread, lock, client, restarting, sleep,
                 player, waited, age, stalled, plays>>

PlayerRuns ==
  \E t \in Players :
    \/ player[t] \in {"begin", "while"}
    \/ player[t] = "lock" /\ lock = "free"
    \/ player[t] = "wait" /\ (dma_sem > 0 \/ waited = TimeoutTicks)

Older(n, limit) == IF n < limit THEN n + 1 ELSE n

Tick ==
  /\ ~PlayerRuns
  /\ dma # Silent \/ sleep > 0
  /\ dma # Silent => age < ChunkTicks \/ stalled
  /\ age' = IF dma = Silent THEN age ELSE Older(age, ChunkTicks)
  /\ waited' = IF \E t \in Players : player[t] = "wait"
               THEN Older(waited, TimeoutTicks) ELSE waited
  /\ sleep' = IF sleep > 0 THEN sleep - 1 ELSE 0
  /\ UNCHANGED <<dac, control, player_thread, lock, client, restarting, player,
                 dma, stalled, dma_sem, sent, plays>>

-----------------------------------------------------------------------------
(* The calls. *)

ClientAt(step) == client = step /\ sleep = 0 /\ ~PlayerRuns

Call(name) == ClientAt("idle") /\ name \in Calls

\* A playback under way is stopped first.
Play ==
  /\ Call("play")
  /\ plays < MaxPlays
  /\ plays' = plays + 1
  /\ restarting' = (state = "PLAYING")
  /\ client' = IF state = "PLAYING" THEN "stop" ELSE "copy"
  /\ UNCHANGED <<dac, control, player_thread, lock, sleep, player, device>>

Copy(free) ==
  /\ ClientAt("copy")
  /\ free
  /\ buffer' = plays
  /\ \E size \in Sizes : buffer_size' = Smaller(size, AUDIO_PLAY_BUFFER_SIZE)
  /\ buffer_pos' = 0
  /\ state' = "PLAYING"
  /\ sent' = <<>>
  /\ restarting' = FALSE
  /\ client' = "create"
  /\ UNCHANGED <<dac, player_thread, lock, sleep, player, waited, dma, age, stalled,
                 dma_sem, plays>>

\* Mutant: the lock is not taken.
PlayCopyNoLock == Copy(TRUE)

\* Too much data is truncated to the buffer.
PlayCopy == Copy(lock = "free")

PlayCreate ==
  /\ ClientAt("create")
  /\ client' = "idle"
  /\ \/ /\ \E t \in Players : player[t] = "none" /\ Goto(t, "begin")
        /\ player_thread' = TRUE
        /\ UNCHANGED state
     \/ /\ player_thread' = FALSE
        /\ state' = "IDLE"
        /\ UNCHANGED player
  /\ UNCHANGED <<dac, buffer_size, buffer_pos, buffer, lock, restarting, sleep,
                 device, plays>>

\* audio_player_stop.
Stop ==
  /\ Call("stop")
  /\ client' = "stop"
  /\ UNCHANGED <<dac, control, player_thread, lock, restarting, sleep, player,
                 device, plays>>

Returned == IF restarting THEN "copy" ELSE "idle"
ReturnSleep == IF restarting THEN PauseTicks ELSE 0

StopIdle ==
  /\ ClientAt("stop")
  /\ state = "IDLE"
  /\ client' = Returned
  /\ sleep' = ReturnSleep
  /\ UNCHANGED <<dac, control, player_thread, lock, restarting, player, device, plays>>

StopBegin ==
  /\ ClientAt("stop")
  /\ state # "IDLE"
  /\ client' = "stopped"
  /\ UNCHANGED <<dac, control, player_thread, lock, restarting, sleep, player,
                 device, plays>>

\* The state that was looked at may be another by now.
StopSet ==
  /\ ClientAt("stopped")
  /\ state' = "STOPPED"
  /\ sleep' = IF player_thread THEN PauseTicks ELSE 0
  /\ client' = "clear"
  /\ UNCHANGED <<dac, buffer_size, buffer_pos, buffer, player_thread, lock,
                 restarting, player, device, plays>>

Clear(free) ==
  /\ ClientAt("clear")
  /\ free
  /\ player_thread' = FALSE
  /\ buffer_size' = 0
  /\ buffer_pos' = 0
  /\ state' = "IDLE"
  /\ client' = Returned
  /\ sleep' = ReturnSleep
  /\ UNCHANGED <<dac, buffer, lock, restarting, player, device, plays>>

\* Mutant: the lock is not taken.
StopClearNoLock == Clear(TRUE)

\* Whatever the delay left undone, the lock comes free after the chunk.
StopClear == Clear(lock = "free")

Pause ==
  /\ Call("pause")
  /\ state = "PLAYING"
  /\ client' = "pausing"
  /\ UNCHANGED <<dac, control, player_thread, lock, restarting, sleep, player,
                 device, plays>>

PauseSet ==
  /\ ClientAt("pausing")
  /\ state' = "PAUSED"
  /\ client' = "idle"
  /\ UNCHANGED <<dac, buffer_size, buffer_pos, buffer, player_thread, lock,
                 restarting, sleep, player, device, plays>>

Resume ==
  /\ Call("resume")
  /\ state = "PAUSED"
  /\ state' = "PLAYING"
  /\ UNCHANGED <<dac, buffer_size, buffer_pos, buffer, player_thread, lock, client,
                 restarting, sleep, player, device, plays>>

\* What a client that has begun a call does next.
ClientStep ==
  \/ PlayCopy \/ PlayCreate
  \/ StopIdle \/ StopBegin \/ StopSet \/ StopClear \/ PauseSet

Next ==
  \/ \E t \in Players : PlayerStep(t)
  \/ TxCplt \/ Tick
  \/ Play \/ Stop \/ Pause \/ Resume \/ ClientStep

Spec == Init /\ [][Next]_vars

\* Runnable threads run, time passes, a transfer that does not stall ends.  The
\* client runs again and again: between two chunks the players wait.
FairSpec ==
  /\ Spec
  /\ \A t \in Players : WF_vars(PlayerStep(t))
  /\ WF_vars(TxCplt)
  /\ WF_vars(Tick)
  /\ SF_vars(ClientStep)

-----------------------------------------------------------------------------
(* Properties. *)

Playing(t) == player[t] # "none"

TypeOK ==
  /\ dac \in BOOLEAN
  /\ state \in {"IDLE", "PLAYING", "PAUSED", "STOPPED"}
  /\ buffer_size \in 0 .. AUDIO_PLAY_BUFFER_SIZE
  /\ buffer_pos \in 0 .. buffer_size
  /\ buffer \in 0 .. MaxPlays
  /\ player_thread \in BOOLEAN
  /\ lock \in Players \cup {"free"}
  /\ client \in {"idle", "copy", "create", "stop", "stopped", "clear", "pausing"}
  /\ restarting \in BOOLEAN
  /\ sleep \in 0 .. PauseTicks
  /\ player \in [Players -> {"none", "begin", "while", "lock", "wait"}]
  /\ waited \in 0 .. TimeoutTicks
  /\ dma \in {Silent} \cup (1 .. MaxPlays) \X Nat \X Nat
  /\ age \in 0 .. ChunkTicks
  /\ stalled \in BOOLEAN
  /\ dma_sem \in Nat
  /\ plays \in 0 .. MaxPlays
  /\ sent \in Seq((1 .. MaxPlays) \X Nat \X Nat)

\* The buffer is not written while the DMA plays from it, and there is one
\* player at most.  (a play during a play: 100 ms, the lock, 100 ms, the lock)
OnePlaybackAtATime ==
  /\ dma # Silent => dma[1] = buffer
  /\ Cardinality({t \in Players : Playing(t)}) <= 1

\* The first byte that has not been played.
Played == IF sent = <<>> THEN 0 ELSE UpTo(sent[Len(sent)])

\* What comes out of the speaker is the last playback from its beginning,
\* every sample once and in order.
\* (buffer_pos is moved by the player and reset by the calls)
SentInOrder ==
  \A k \in DOMAIN sent :
    /\ sent[k][1] = buffer
    /\ sent[k][2] = IF k = 1 THEN 0 ELSE UpTo(sent[k - 1])

\* When a player ends with the playback complete every sample of it has been
\* sent, those of a short last chunk too; only an odd byte is not.
CompleteIsWhole ==
  [][\A t \in Players : player[t] = "lock" /\ player'[t] = "none"
       => Played = 2 * (buffer_size \div 2)]_vars

\* When a stop returns there is no player and the speaker is silent.
\* ("等待线程结束", wait for the thread to end, in audio_player_stop)
StopSilences ==
  [][client = "clear" /\ client' # "clear"
       => dma = Silent /\ \A t \in Players : ~Playing(t)]_vars

\* A playback that has a player ends, also when the DMA stalls: the loops that
\* poll audio_player_get_state end.
PlaybackEnds ==
  \A t \in Players : state = "PLAYING" /\ Playing(t) ~> state # "PLAYING"

\* "恢复播放" (resume playback): a player plays while the state says so.
\* After a pause the thread is gone, and resume makes no other.
PlayingHasPlayer ==
  state = "PLAYING" /\ client = "idle" => \E t \in Players : Playing(t)
=============================================================================
