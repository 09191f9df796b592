------------------------- MODULE AudioPlayer_proofs -------------------------
(***************************************************************************)
(* The safety of the audio player, for any number of threads and sizes,    *)
(* any delays, and a DMA that may refuse a transfer or never end it.       *)
(***************************************************************************)
EXTENDS AudioPlayer, FiniteSetTheorems, TLAPS

(* The inductive invariant. *)

\* The lock is held by the player that waits for the DMA.
LockIsWaiters == \A t \in Players : player[t] = "wait" <=> lock = t

\* There is one player at most, and none when one is about to be made.
OnePlayer ==
  /\ \A t, u \in Players : Playing(t) /\ Playing(u) => t = u
  /\ client = "create" => \A t \in Players : ~Playing(t)

\* While the lock is held the chunk at buffer_pos is played, or has been and
\* its semaphore is up; while it is free the device is at rest.
Transfer ==
  /\ lock = "free" => dma = Silent /\ dma_sem = 0
  /\ lock # "free" =>
       /\ buffer_pos < buffer_size
       /\ \/ dma = <<buffer, buffer_pos, ChunkSize \div 2>> /\ dma_sem = 0
          \/ dma = Silent /\ dma_sem = 1

\* The whole samples in the first n bytes end here.
Whole(n) == 2 * (n \div 2)

\* A player has data; what has been sent of it ends at buffer_pos, or at the
\* chunk after it, and before the end of the data no byte is left out.
Loaded ==
  /\ client = "create" \/ (\E t \in Players : Playing(t)) => buffer_size > 0
  /\ buffer_size > 0 =>
       /\ buffer >= 1
       /\ Played = Whole(IF dma_sem = 0 THEN buffer_pos ELSE buffer_pos + ChunkSize)
  /\ buffer_pos < buffer_size => Whole(buffer_pos) = buffer_pos
  /\ client = "copy" \/ restarting => plays >= 1

IInv ==
  /\ TypeOK /\ LockIsWaiters /\ OnePlayer /\ Transfer /\ Loaded /\ SentInOrder

-----------------------------------------------------------------------------
(* Halves. *)

\* The chunk before the end of the data is whole, and the samples of two
\* stretches of data add up when the first has no odd byte.
LEMMA Halves ==
  /\ \A n \in Nat : n \div 2 \in Nat /\ Whole(n) \in {n, n - 1}
  /\ \A m, n \in Nat : Whole(m) = m => Whole(m + n) = m + Whole(n)
  /\ Whole(CHUNK_SIZE) = CHUNK_SIZE
  /\ Whole(0) = 0
BY PlayerAssumption DEF Whole

LEMMA ChunkFacts ==
  ASSUME TypeOK
  PROVE  /\ buffer_pos \in Nat /\ buffer_size \in Nat /\ buffer_pos <= buffer_size
         /\ ChunkSize \in Nat /\ buffer_pos + ChunkSize <= buffer_size
         /\ ChunkSize = CHUNK_SIZE \/ buffer_pos + ChunkSize = buffer_size
         /\ buffer_pos < buffer_size => ChunkSize > 0
BY PlayerAssumption DEF TypeOK, ChunkSize, Smaller

-----------------------------------------------------------------------------
(* The client runs only while no player can. *)

LEMMA NoPlayerLeft ==
  ASSUME IInv, ~PlayerRuns, lock = "free"
  PROVE  \A t \in Players : ~Playing(t)
<1>1. "free" \notin Players
  BY PlayerAssumption
<1>2. ASSUME NEW t \in Players
      PROVE  player[t] = "none"
  <2>1. player[t] \in {"none", "begin", "while", "lock", "wait"}
    BY DEF IInv, TypeOK
  <2>2. player[t] # "wait"
    BY <1>1 DEF IInv, LockIsWaiters
  <2>. QED
    BY <2>1, <2>2 DEF PlayerRuns
<1>. QED
  BY <1>2 DEF Playing

LEMMA InitInv ==
  ASSUME Init
  PROVE  IInv
<1>1. TypeOK
  <2>1. /\ dac \in BOOLEAN /\ player_thread \in BOOLEAN /\ restarting \in BOOLEAN
        /\ stalled \in BOOLEAN
    BY Zenon DEF Init
  <2>2. dma \in {Silent} \cup (1 .. MaxPlays) \X Nat \X Nat
    BY Zenon DEF Init
  <2>3. sent \in Seq((1 .. MaxPlays) \X Nat \X Nat)
    BY DEF Init
  <2>4. player \in [Players -> {"none", "begin", "while", "lock", "wait"}]
    BY DEF Init
  <2>. QED
    BY <2>1, <2>2, <2>3, <2>4, PlayerAssumption DEF Init, TypeOK
<1>2. LockIsWaiters /\ OnePlayer /\ Transfer /\ Loaded /\ SentInOrder
  BY PlayerAssumption, Halves
  DEF Init, LockIsWaiters, OnePlayer, Transfer, Loaded, SentInOrder, Playing
<1>. QED
  BY <1>1, <1>2 DEF IInv

-----------------------------------------------------------------------------
(* Steps that leave the playback alone. *)

LEMMA PlaybackKept ==
  ASSUME IInv, TypeOK',
         UNCHANGED <<player, lock, dma, dma_sem, buffer, buffer_pos, buffer_size, sent>>,
         client' = "create" => client = "create",
         client' = "copy" \/ restarting' => plays' >= 1
  PROVE  IInv'
<1>1. LockIsWaiters' /\ OnePlayer' /\ Transfer'
  BY DEF IInv, LockIsWaiters, OnePlayer, Transfer, Playing, ChunkSize
<1>2. Loaded'
  BY DEF IInv, Loaded, Playing, Played, ChunkSize
<1>3. SentInOrder'
  BY DEF IInv, SentInOrder
<1>. QED
  BY <1>1, <1>2, <1>3 DEF IInv

\* A player goes on without the lock, or ends.
LEMMA PlayerMoves ==
  ASSUME IInv, TypeOK', NEW t \in Players, Playing(t), player[t] # "wait",
         NEW step, step # "wait", Goto(t, step),
         UNCHANGED <<client, restarting, plays, lock, dma, dma_sem, buffer, buffer_pos,
                     buffer_size, sent>>
  PROVE  IInv'
<1>1. /\ player'[t] = step
      /\ \A u \in Players : u # t => player'[u] = player[u]
  BY DEF IInv, TypeOK, Goto
<1>2. LockIsWaiters' /\ OnePlayer' /\ Transfer'
  BY <1>1 DEF IInv, LockIsWaiters, OnePlayer, Transfer, Playing, ChunkSize
<1>3. Loaded'
  BY <1>1 DEF IInv, Loaded, Playing, Played, ChunkSize
<1>4. SentInOrder'
  BY DEF IInv, SentInOrder
<1>. QED
  BY <1>2, <1>3, <1>4 DEF IInv

-----------------------------------------------------------------------------
(* The types. *)

Chunks == (1 .. MaxPlays) \X Nat \X Nat

\* What every step keeps of the types, or sets to a constant of them.
Small ==
  /\ dac \in BOOLEAN
  /\ state \in {"IDLE", "PLAYING", "PAUSED", "STOPPED"}
  /\ player_thread \in BOOLEAN
  /\ lock \in Players \cup {"free"}
  /\ client \in {"idle", "copy", "create", "stop", "stopped", "clear", "pausing"}
  /\ restarting \in BOOLEAN
  /\ sleep \in 0 .. PauseTicks
  /\ player \in [Players -> {"none", "begin", "while", "lock", "wait"}]
  /\ waited \in 0 .. TimeoutTicks
  /\ age \in 0 .. ChunkTicks
  /\ stalled \in BOOLEAN

Large ==
  /\ buffer_size \in 0 .. AUDIO_PLAY_BUFFER_SIZE
  /\ buffer_pos \in 0 .. buffer_size
  /\ buffer \in 0 .. MaxPlays
  /\ dma \in {Silent} \cup Chunks
  /\ dma_sem \in Nat
  /\ plays \in 0 .. MaxPlays
  /\ sent \in Seq(Chunks)

LEMMA TypeParts == TypeOK <=> Small /\ Large
BY DEF TypeOK, Small, Large, Chunks

LEMMA PlayerTypes ==
  ASSUME TypeOK, NEW t \in Players, PlayerStep(t)
  PROVE  Small'
<1>1. CASE NoDevice(t) \/ Begin(t)
  BY <1>1, TypeParts DEF NoDevice, Begin, Small, Goto, control, device
<1>2. CASE While(t) \/ Refused(t)
  BY <1>2, TypeParts DEF While, Refused, Small, Goto, device, control
<1>3. CASE Transmit(t)
  <2>1. stalled' \in BOOLEAN
    BY <1>3, PlayerAssumption, Zenon DEF Transmit
  <2>. QED
    BY <1>3, <2>1, TypeParts, PlayerAssumption DEF Transmit, Small, Goto, control
<1>4. CASE Completed(t)
  BY <1>4, TypeParts DEF Completed, Complete, Small, Goto, device
<1>5. CASE Written(t)
  BY <1>5, TypeParts DEF Written, Advance, Small, Goto
<1>6. CASE Timeout(t)
  BY <1>6, TypeParts DEF Timeout, TimeOut, Small, Goto
<1>. QED
  BY <1>1, <1>2, <1>3, <1>4, <1>5, <1>6 DEF PlayerStep

LEMMA ClientTypes ==
  ASSUME TypeOK,
         TxCplt \/ Tick \/ Play \/ Stop \/ Pause \/ Resume \/ ClientStep
  PROVE  Small'
<1>1. CASE TxCplt
  BY <1>1, TypeParts DEF TxCplt, Small, control
<1>2. CASE Tick
  BY <1>2, TypeParts, PlayerAssumption DEF Tick, Small, control, Older
<1>3. CASE Play \/ Stop \/ Pause \/ Resume
  BY <1>3, TypeParts DEF Play, Stop, Pause, Resume, Small, control, device
<1>4. CASE PlayCopy
  BY <1>4, TypeParts DEF PlayCopy, Copy, Small
<1>5. CASE PlayCreate
  BY <1>5, TypeParts DEF PlayCreate, Small, device, Goto
<1>6. CASE StopIdle \/ StopBegin \/ StopSet
  BY <1>6, TypeParts, PlayerAssumption
  DEF StopIdle, StopBegin, StopSet, Small, control, device, Returned, ReturnSleep
<1>7. CASE StopClear
  <2>1. player_thread' \in BOOLEAN
    BY <1>7, Zenon DEF StopClear, Clear
  <2>. QED
    BY <1>7, <2>1, TypeParts, PlayerAssumption
    DEF StopClear, Clear, Small, device, Returned, ReturnSleep
<1>8. CASE PauseSet
  BY <1>8, TypeParts DEF PauseSet, Small, device
<1>. QED
  BY <1>1, <1>2, <1>3, <1>4, <1>5, <1>6, <1>7, <1>8 DEF ClientStep

\* Most steps leave the playback as it is.
LEMMA LargeKept ==
  ASSUME TypeOK,
         UNCHANGED <<dma, dma_sem, buffer, buffer_pos, buffer_size, sent>>,
         plays' \in 0 .. MaxPlays
  PROVE  Large'
BY TypeParts DEF Large

LEMMA TypesNow ==
  ASSUME Small', Large'
  PROVE  TypeOK'
BY DEF TypeOK, Small, Large, Chunks

-----------------------------------------------------------------------------
(* The players. *)

LEMMA QuietPlayer ==
  ASSUME IInv, NEW t \in Players, NoDevice(t) \/ Begin(t) \/ While(t) \/ Refused(t)
  PROVE  IInv'
<1>1. /\ Playing(t) /\ player[t] # "wait"
      /\ UNCHANGED <<client, restarting, plays, lock, dma, dma_sem, buffer, buffer_pos,
                     buffer_size, sent>>
  BY DEF NoDevice, Begin, While, Refused, Playing, control, device
<1>2. TypeOK'
  <2>1. Small'
    BY PlayerTypes DEF PlayerStep, IInv
  <2>2. plays' \in 0 .. MaxPlays
    BY <1>1 DEF IInv, TypeOK
  <2>. QED
    BY <1>1, <2>1, <2>2, LargeKept, TypesNow DEF IInv
<1>3. \/ Goto(t, "none") \/ Goto(t, "while") \/ Goto(t, "lock")
  BY DEF NoDevice, Begin, While, Refused
<1>. QED
  BY <1>1, <1>2, <1>3, PlayerMoves

LEMMA TransmitInv ==
  ASSUME IInv, NEW t \in Players, Transmit(t)
  PROVE  IInv'
<1>1. /\ player[t] = "lock" /\ lock = "free" /\ buffer_pos < buffer_size /\ lock' = t
      /\ dma' = <<buffer, buffer_pos, ChunkSize \div 2>> /\ dma = Silent
      /\ UNCHANGED <<client, restarting, plays, dma_sem, buffer, buffer_pos, buffer_size, sent>>
  BY DEF Transmit, control
<1>2. /\ player'[t] = "wait"
      /\ \A u \in Players : u # t => player'[u] = player[u]
  BY DEF Transmit, Goto, IInv, TypeOK
<1>3. "free" \notin Players
  BY PlayerAssumption
<1>4. buffer \in 1 .. MaxPlays /\ buffer_pos \in Nat /\ ChunkSize \div 2 \in Nat
  <2>1. buffer_pos \in Nat /\ buffer_size \in Nat /\ ChunkSize \in Nat
    BY ChunkFacts DEF IInv
  <2>2. ChunkSize \div 2 \in Nat
    BY <2>1, Halves
  <2>3. buffer >= 1
    BY <1>1, <2>1 DEF IInv, Loaded
  <2>4. buffer \in 0 .. MaxPlays
    BY DEF IInv, TypeOK
  <2>. QED
    BY <2>1, <2>2, <2>3, <2>4, PlayerAssumption
<1>5. dma' \in Chunks
  BY <1>1, <1>4 DEF Chunks
<1>6. TypeOK'
  <2>1. Small'
    BY PlayerTypes DEF PlayerStep, IInv
  <2>2. Large'
    BY <1>1, <1>5, TypeParts DEF IInv, Large
  <2>. QED
    BY <2>1, <2>2, TypesNow
<1>7. LockIsWaiters'
  BY <1>1, <1>2, <1>3 DEF IInv, LockIsWaiters
<1>8. OnePlayer'
  BY <1>1, <1>2 DEF IInv, OnePlayer, Playing
<1>9. Transfer'
  BY <1>1, <1>3 DEF IInv, Transfer, ChunkSize
<1>10. Loaded' /\ SentInOrder'
  BY <1>1, <1>2 DEF IInv, Loaded, SentInOrder, Playing, Played, ChunkSize
<1>. QED
  BY <1>6, <1>7, <1>8, <1>9, <1>10 DEF IInv

LEMMA CompletedInv ==
  ASSUME IInv, NEW t \in Players, Completed(t)
  PROVE  IInv'
<1>1. /\ player[t] = "lock" /\ lock = "free" /\ buffer_size' = 0 /\ buffer_pos' = 0
      /\ UNCHANGED <<client, restarting, plays, lock, dma, dma_sem, buffer, sent>>
  BY DEF Completed, Complete, device
<1>2. /\ player'[t] = "none"
      /\ \A u \in Players : u # t => player'[u] = player[u]
  BY DEF Completed, Complete, Goto, IInv, TypeOK
<1>3. TypeOK'
  <2>1. Small'
    BY PlayerTypes DEF PlayerStep, IInv
  <2>2. Large'
    BY <1>1, TypeParts, PlayerAssumption DEF IInv, Large
  <2>. QED
    BY <2>1, <2>2, TypesNow
<1>4. \A u \in Players : ~Playing(u)'
  BY <1>1, <1>2 DEF IInv, OnePlayer, Playing
<1>5. client # "create"
  BY <1>1 DEF IInv, OnePlayer, Playing
<1>6. LockIsWaiters'
  BY <1>1, <1>2, PlayerAssumption DEF IInv, LockIsWaiters
<1>7. OnePlayer' /\ Transfer' /\ Loaded'
  BY <1>1, <1>4, <1>5 DEF IInv, OnePlayer, Transfer, Loaded, Playing
<1>8. SentInOrder'
  BY <1>1 DEF IInv, SentInOrder
<1>. QED
  BY <1>3, <1>6, <1>7, <1>8 DEF IInv

LEMMA LockFreed ==
  ASSUME IInv, NEW t \in Players, player[t] = "wait", Goto(t, "while"), lock' = "free"
  PROVE  /\ LockIsWaiters' /\ lock # "free"
         /\ client' = client => OnePlayer'
         /\ \A u \in Players : Playing(u)' <=> Playing(u)
<1>1. /\ player'[t] = "while"
      /\ \A u \in Players : u # t => player'[u] = player[u]
  BY DEF Goto, IInv, TypeOK
<1>2. lock = t /\ "free" \notin Players
  BY PlayerAssumption DEF IInv, LockIsWaiters
<1>3. LockIsWaiters'
  BY <1>1, <1>2 DEF IInv, LockIsWaiters
<1>4. \A u \in Players : Playing(u)' <=> Playing(u)
  BY <1>1 DEF Playing
<1>. QED
  BY <1>2, <1>3, <1>4 DEF IInv, OnePlayer

LEMMA WrittenInv ==
  ASSUME IInv, NEW t \in Players, Written(t)
  PROVE  IInv'
<1>1. /\ player[t] = "wait" /\ dma_sem > 0 /\ dma_sem' = dma_sem - 1
      /\ buffer_pos' = buffer_pos + ChunkSize /\ lock' = "free" /\ Goto(t, "while")
      /\ UNCHANGED <<client, restarting, plays, dma, buffer, buffer_size, sent>>
  BY DEF Written, Advance
<1>2. /\ LockIsWaiters' /\ OnePlayer' /\ lock # "free"
      /\ \A u \in Players : Playing(u)' <=> Playing(u)
  BY <1>1, LockFreed
<1>3. dma = Silent /\ dma_sem = 1 /\ buffer_pos < buffer_size
  BY <1>1, <1>2 DEF IInv, Transfer
<1>4. /\ buffer_pos \in Nat /\ buffer_size \in Nat /\ ChunkSize \in Nat
      /\ buffer_pos + ChunkSize <= buffer_size
      /\ ChunkSize = CHUNK_SIZE \/ buffer_pos + ChunkSize = buffer_size
  BY ChunkFacts DEF IInv
<1>5. TypeOK'
  <2>1. Small'
    BY PlayerTypes DEF PlayerStep, IInv
  <2>2. Large'
    BY <1>1, <1>3, <1>4, TypeParts DEF IInv, Large
  <2>. QED
    BY <2>1, <2>2, TypesNow
<1>6. Transfer'
  BY <1>1, <1>3 DEF Transfer
<1>7. Loaded'
  <2>1. Played' = Whole(buffer_pos')
    <3>1. Played = Whole(buffer_pos + ChunkSize)
      BY <1>3, <1>4 DEF IInv, Loaded
    <3>. QED
      BY <1>1, <3>1 DEF Played
  <2>2. buffer_pos' < buffer_size => Whole(buffer_pos') = buffer_pos'
    <3>1. Whole(buffer_pos) = buffer_pos
      BY <1>3 DEF IInv, Loaded
    <3>2. Whole(buffer_pos + ChunkSize) = buffer_pos + Whole(ChunkSize)
      BY <1>4, <3>1, Halves
    <3>3. buffer_pos' < buffer_size => ChunkSize = CHUNK_SIZE
      BY <1>1, <1>4
    <3>. QED
      BY <1>1, <3>2, <3>3, Halves
  <2>. QED
    BY <1>1, <1>2, <1>3, <2>1, <2>2 DEF IInv, Loaded
<1>8. SentInOrder'
  BY <1>1 DEF IInv, SentInOrder
<1>. QED
  BY <1>2, <1>5, <1>6, <1>7, <1>8 DEF IInv

LEMMA TimeoutInv ==
  ASSUME IInv, NEW t \in Players, Timeout(t)
  PROVE  IInv'
<1>1. /\ player[t] = "wait" /\ dma_sem = 0 /\ dma' = Silent
      /\ lock' = "free" /\ Goto(t, "while")
      /\ UNCHANGED <<client, restarting, plays, dma_sem, buffer, buffer_pos, buffer_size, sent>>
  BY DEF Timeout, TimeOut
<1>2. /\ LockIsWaiters' /\ OnePlayer'
      /\ \A u \in Players : Playing(u)' <=> Playing(u)
  BY <1>1, LockFreed
<1>3. TypeOK'
  <2>1. Small'
    BY PlayerTypes DEF PlayerStep, IInv
  <2>2. Large'
    BY <1>1, TypeParts DEF IInv, Large
  <2>. QED
    BY <2>1, <2>2, TypesNow
<1>4. Transfer'
  BY <1>1 DEF Transfer
<1>5. Loaded' /\ SentInOrder'
  BY <1>1, <1>2 DEF IInv, Loaded, SentInOrder, Played, ChunkSize
<1>. QED
  BY <1>2, <1>3, <1>4, <1>5 DEF IInv

-----------------------------------------------------------------------------
(* The interrupt, time and the client. *)

LEMMA TxCpltInv ==
  ASSUME IInv, TxCplt
  PROVE  IInv'
<1>1. /\ dma # Silent /\ dma' = Silent /\ dma_sem' = dma_sem + 1
      /\ sent' = Append(sent, dma)
      /\ UNCHANGED <<client, restarting, plays, player, lock, buffer, buffer_pos, buffer_size>>
  BY DEF TxCplt, control
<1>2. /\ lock # "free" /\ dma = <<buffer, buffer_pos, ChunkSize \div 2>> /\ dma_sem = 0
      /\ buffer_pos < buffer_size
  BY <1>1 DEF IInv, Transfer
<1>3. /\ dma \in Chunks /\ sent \in Seq(Chunks)
      /\ buffer_pos \in Nat /\ buffer_size \in Nat /\ ChunkSize \in Nat
  BY <1>1, ChunkFacts DEF IInv, TypeOK, Chunks
<1>4. Played = buffer_pos
  BY <1>2, <1>3 DEF IInv, Loaded
<1>5. TypeOK'
  <2>1. Small'
    BY ClientTypes DEF IInv
  <2>2. sent' \in Seq(Chunks)
    BY <1>1, <1>3
  <2>3. Large'
    BY <1>1, <1>2, <2>2, TypeParts DEF IInv, Large
  <2>. QED
    BY <2>1, <2>3, TypesNow
<1>6. LockIsWaiters' /\ OnePlayer' /\ Transfer'
  BY <1>1, <1>2 DEF IInv, LockIsWaiters, OnePlayer, Transfer, Playing
<1>7. /\ Len(sent) \in Nat /\ Len(sent') = Len(sent) + 1 /\ sent' # <<>>
      /\ sent'[Len(sent) + 1] = dma
      /\ \A k \in 1 .. Len(sent) : sent'[k] = sent[k]
  <2>. HIDE DEF Chunks
  <2>. QED
    BY <1>1, <1>3
<1>8. Loaded'
  <2>1. UpTo(dma) = buffer_pos + Whole(ChunkSize)
    BY <1>2 DEF UpTo, Whole
  <2>2. UpTo(dma) = Whole(buffer_pos + ChunkSize)
    BY <1>2, <1>3, <2>1, Halves DEF IInv, Loaded
  <2>3. Played' = UpTo(dma)
    BY <1>7 DEF Played
  <2>4. ChunkSize' = ChunkSize
    BY <1>1 DEF ChunkSize
  <2>. QED
    BY <1>1, <1>2, <2>2, <2>3, <2>4 DEF IInv, Loaded, Playing
<1>9. SentInOrder'
  <2>1. ASSUME NEW k \in 1 .. Len(sent')
        PROVE  /\ sent'[k][1] = buffer
               /\ sent'[k][2] = IF k = 1 THEN 0 ELSE UpTo(sent'[k - 1])
    <3>1. CASE k = Len(sent) + 1
      <4>1. sent'[k] = dma /\ (k = 1 <=> sent = <<>>)
        BY <1>3, <1>7, <3>1
      <4>2. buffer_pos = IF k = 1 THEN 0 ELSE UpTo(sent'[k - 1])
        BY <1>4, <1>7, <3>1, <4>1 DEF Played
      <4>. QED
        BY <1>2, <4>1, <4>2
    <3>2. CASE k # Len(sent) + 1
      <4>1. /\ k \in 1 .. Len(sent) /\ sent'[k] = sent[k]
            /\ k # 1 => sent'[k - 1] = sent[k - 1]
        BY <1>7, <3>2
      <4>2. k \in DOMAIN sent
        BY <1>3, <4>1
      <4>. QED
        BY <4>1, <4>2 DEF IInv, SentInOrder
    <3>. QED
      BY <3>1, <3>2
  <2>2. DOMAIN sent' = 1 .. Len(sent')
    BY <1>5 DEF TypeOK
  <2>. QED
    BY <1>1, <2>1, <2>2 DEF SentInOrder
<1>. QED
  BY <1>5, <1>6, <1>8, <1>9 DEF IInv

LEMMA QuietClient ==
  ASSUME IInv,
         Tick \/ Play \/ Stop \/ Pause \/ Resume \/ StopIdle \/ StopBegin \/ StopSet \/ PauseSet
  PROVE  IInv'
<1>1. UNCHANGED <<player, lock, dma, dma_sem, buffer, buffer_pos, buffer_size, sent>>
  BY DEF Tick, Play, Stop, Pause, Resume, StopIdle, StopBegin, StopSet, PauseSet, control, device
<1>2. plays' \in 0 .. MaxPlays
  <2>1. plays \in 0 .. MaxPlays /\ MaxPlays \in Nat
    BY PlayerAssumption DEF IInv, TypeOK
  <2>2. CASE Play
    BY <2>1, <2>2 DEF Play
  <2>3. CASE ~Play
    BY <2>1, <2>3 DEF Tick, Stop, Pause, Resume, StopIdle, StopBegin, StopSet, PauseSet
  <2>. QED
    BY <2>2, <2>3
<1>3. client' = "create" => client = "create"
  BY DEF Tick, Play, Stop, Pause, Resume, StopIdle, StopBegin, StopSet, PauseSet, Returned
<1>4. client' = "copy" \/ restarting' => plays' >= 1
  <2>1. plays \in Nat /\ (client = "copy" \/ restarting => plays >= 1)
    BY PlayerAssumption DEF IInv, TypeOK, Loaded
  <2>2. CASE Play
    BY <2>1, <2>2 DEF Play
  <2>3. CASE ~Play
    <3>1. /\ plays' = plays /\ restarting' = restarting
          /\ client' = "copy" => client = "copy" \/ restarting
      BY <2>3 DEF Tick, Stop, Pause, Resume, StopIdle, StopBegin, StopSet, PauseSet, Returned
    <3>. QED
      BY <2>1, <3>1
  <2>. QED
    BY <2>2, <2>3
<1>5. TypeOK'
  <2>1. Small'
    BY ClientTypes DEF IInv, ClientStep
  <2>. QED
    BY <1>1, <1>2, <2>1, LargeKept, TypesNow DEF IInv
<1>. QED
  BY <1>1, <1>3, <1>4, <1>5, PlaybackKept

LEMMA PlayCopyInv ==
  ASSUME IInv, PlayCopy
  PROVE  IInv'
<1>1. /\ client = "copy" /\ lock = "free" /\ ~PlayerRuns
      /\ buffer' = plays /\ buffer_pos' = 0 /\ sent' = <<>>
      /\ client' = "create" /\ restarting' = FALSE
      /\ UNCHANGED <<plays, player, lock, dma, dma_sem>>
  BY DEF PlayCopy, Copy, ClientAt
<1>2. buffer_size' \in 1 .. AUDIO_PLAY_BUFFER_SIZE
  BY PlayerAssumption DEF PlayCopy, Copy, Smaller
<1>3. \A t \in Players : ~Playing(t)
  BY <1>1, NoPlayerLeft
<1>4. dma = Silent /\ dma_sem = 0 /\ plays >= 1 /\ plays \in 0 .. MaxPlays
  BY <1>1 DEF IInv, Transfer, Loaded, TypeOK
<1>5. TypeOK'
  <2>1. Small'
    BY ClientTypes DEF IInv, ClientStep
  <2>2. sent' \in Seq(Chunks)
    BY <1>1
  <2>3. Large'
    BY <1>1, <1>2, <1>4, <2>2, PlayerAssumption DEF Large
  <2>. QED
    BY <2>1, <2>3, TypesNow
<1>6. LockIsWaiters' /\ OnePlayer' /\ Transfer'
  BY <1>1, <1>3, <1>4 DEF IInv, LockIsWaiters, OnePlayer, Transfer, Playing
<1>7. Loaded' /\ SentInOrder'
  BY <1>1, <1>2, <1>3, <1>4, Halves DEF Loaded, SentInOrder, Playing, Played
<1>. QED
  BY <1>5, <1>6, <1>7 DEF IInv

LEMMA PlayCreateInv ==
  ASSUME IInv, PlayCreate
  PROVE  IInv'
<1>1. /\ client = "create" /\ client' = "idle"
      /\ UNCHANGED <<plays, restarting, lock, dma, dma_sem, buffer, buffer_pos, buffer_size, sent>>
      /\ \A t \in Players : ~Playing(t)
      /\ buffer_size > 0
  BY DEF PlayCreate, ClientAt, device, IInv, OnePlayer, Loaded
<1>2. TypeOK'
  <2>1. Small'
    BY ClientTypes DEF IInv, ClientStep
  <2>2. plays' \in 0 .. MaxPlays
    BY <1>1 DEF IInv, TypeOK
  <2>. QED
    BY <1>1, <2>1, <2>2, LargeKept, TypesNow DEF IInv
<1>3. SentInOrder' /\ Transfer'
  BY <1>1 DEF IInv, SentInOrder, Transfer, ChunkSize
<1>4. Loaded'
  BY <1>1 DEF IInv, Loaded, Played, ChunkSize
<1>5. CASE UNCHANGED player
  <2>1. LockIsWaiters' /\ OnePlayer'
    BY <1>1, <1>5 DEF IInv, LockIsWaiters, OnePlayer, Playing
  <2>. QED
    BY <1>2, <1>3, <1>4, <2>1 DEF IInv
<1>6. ASSUME NEW t \in Players, player[t] = "none", Goto(t, "begin")
      PROVE  IInv'
  <2>1. /\ player'[t] = "begin"
        /\ \A u \in Players : u # t => player'[u] = player[u]
    BY <1>6 DEF IInv, TypeOK, Goto
  <2>2. LockIsWaiters' /\ OnePlayer'
    BY <1>1, <1>6, <2>1 DEF IInv, LockIsWaiters, OnePlayer, Playing
  <2>. QED
    BY <1>2, <1>3, <1>4, <2>2 DEF IInv
<1>. QED
  BY <1>5, <1>6 DEF PlayCreate

LEMMA StopClearInv ==
  ASSUME IInv, StopClear
  PROVE  IInv'
<1>1. /\ client = "clear" /\ client' = Returned /\ lock = "free" /\ ~PlayerRuns
      /\ buffer_size' = 0 /\ buffer_pos' = 0
      /\ UNCHANGED <<plays, restarting, player, lock, dma, dma_sem, buffer, sent>>
  BY DEF StopClear, Clear, ClientAt, device
<1>2. \A t \in Players : ~Playing(t)
  BY <1>1, NoPlayerLeft
<1>3. client' # "create" /\ (client' = "copy" => restarting)
  BY <1>1 DEF Returned
<1>4. TypeOK'
  <2>1. Small'
    BY ClientTypes DEF IInv, ClientStep
  <2>2. Large'
    BY <1>1, PlayerAssumption, TypeParts DEF IInv, Large
  <2>. QED
    BY <2>1, <2>2, TypesNow
<1>5. LockIsWaiters' /\ OnePlayer' /\ Transfer'
  BY <1>1, <1>2, <1>3 DEF IInv, LockIsWaiters, OnePlayer, Transfer, Playing
<1>6. Loaded' /\ SentInOrder'
  BY <1>1, <1>2, <1>3 DEF IInv, Loaded, SentInOrder, Playing
<1>. QED
  BY <1>4, <1>5, <1>6 DEF IInv

-----------------------------------------------------------------------------

LEMMA StepInv ==
  ASSUME IInv, [Next]_vars
  PROVE  IInv'
<1>1. ASSUME NEW t \in Players, PlayerStep(t)
      PROVE  IInv'
  BY <1>1, QuietPlayer, TransmitInv, CompletedInv, WrittenInv, TimeoutInv DEF PlayerStep
<1>2. CASE TxCplt
  BY <1>2, TxCpltInv
<1>3. CASE Tick \/ Play \/ Stop \/ Pause \/ Resume \/ StopIdle \/ StopBegin \/ StopSet \/ PauseSet
  BY <1>3, QuietClient
<1>4. CASE PlayCopy \/ PlayCreate \/ StopClear
  BY <1>4, PlayCopyInv, PlayCreateInv, StopClearInv
<1>5. CASE UNCHANGED vars
  BY <1>5
  DEF vars, control, device, IInv, TypeOK, LockIsWaiters, OnePlayer, Transfer, Loaded,
      SentInOrder, Playing, Played, ChunkSize
<1>. QED
  BY <1>1, <1>2, <1>3, <1>4, <1>5 DEF Next, ClientStep

\* The invariant holds in every state of the player.
THEOREM Inductive == Spec => []IInv
<1>1. Init => IInv
  BY InitInv
<1>2. IInv /\ [Next]_vars => IInv'
  BY StepInv
<1>. QED
  BY <1>1, <1>2, PTL DEF Spec

\* The position stays in the data and the data in the buffer, for every size
\* of playback, buffer and delay.
THEOREM TypeCorrect == Spec => []TypeOK
<1>1. IInv => TypeOK
  BY DEF IInv
<1>. QED
  BY <1>1, Inductive, PTL

\* However long a chunk plays or stalls, nothing overwrites what the DMA plays
\* from, and no two players are alive.
\* (the lock of audio_player_ctrl and the priorities; the 100 ms are not needed)
THEOREM AlwaysOnePlayback == Spec => []OnePlaybackAtATime
<1>1. IInv => OnePlaybackAtATime
  <2>. SUFFICES ASSUME IInv PROVE OnePlaybackAtATime
    OBVIOUS
  <2>1. dma # Silent => dma[1] = buffer
    BY DEF IInv, Transfer
  <2>2. CASE \E t \in Players : Playing(t)
    <3>1. PICK t \in Players : {u \in Players : Playing(u)} = {t}
      BY <2>2 DEF IInv, OnePlayer
    <3>2. Cardinality({u \in Players : Playing(u)}) = 1
      BY <3>1, FS_Singleton
    <3>. QED
      BY <2>1, <3>2 DEF OnePlaybackAtATime
  <2>3. CASE ~\E t \in Players : Playing(t)
    <3>1. {u \in Players : Playing(u)} = {}
      BY <2>3
    <3>2. Cardinality({u \in Players : Playing(u)}) = 0
      BY <3>1, FS_EmptySet
    <3>. QED
      BY <2>1, <3>2 DEF OnePlaybackAtATime
  <2>. QED
    BY <2>2, <2>3
<1>. QED
  BY <1>1, Inductive, PTL

\* The speaker gets the last playback from its beginning, in order.
\* (buffer_pos, moved by a thread and reset by the calls)
THEOREM AlwaysInOrder == Spec => []SentInOrder
<1>1. IInv => SentInOrder
  BY DEF IInv
<1>. QED
  BY <1>1, Inductive, PTL

\* When a stop returns no player is alive and the speaker is silent, whatever
\* the delay of 100 ms left undone.
\* (audio_player_stop takes the lock that a player holds during a chunk)
THEOREM StopAlwaysSilences == Spec => StopSilences
<1> DEFINE Silenced == client = "clear" /\ client' # "clear"
                         => dma = Silent /\ \A t \in Players : ~Playing(t)
<1>1. IInv /\ [Next]_vars => [Silenced]_vars
  <2>. SUFFICES ASSUME IInv, [Next]_vars, client = "clear", client' # "clear"
                PROVE  dma = Silent /\ \A t \in Players : ~Playing(t)
    OBVIOUS
  <2>1. StopClear
    <3>1. ASSUME NEW t \in Players, PlayerStep(t)
          PROVE  client' = client
      BY <3>1 DEF PlayerStep, NoDevice, Begin, While, Transmit, Refused, Completed, Complete,
                  Written, Advance, Timeout, TimeOut
    <3>. QED
      BY <3>1 DEF Next, ClientStep, TxCplt, Tick, Play, Stop, Pause, Resume, PlayCopy, Copy,
                  PlayCreate, StopIdle, StopBegin, StopSet, PauseSet, Call, ClientAt, vars
  <2>2. lock = "free" /\ ~PlayerRuns
    BY <2>1 DEF StopClear, Clear, ClientAt
  <2>3. dma = Silent
    BY <2>2 DEF IInv, Transfer
  <2>. QED
    BY <2>2, <2>3, NoPlayerLeft
<1>. QED
  BY <1>1, Inductive, PTL DEF Spec, StopSilences

\* A player that ends with the playback complete has sent all of it.
\* (the end of the loop compares buffer_pos and buffer_size)
THEOREM CompleteIsAlwaysWhole == Spec => CompleteIsWhole
<1> DEFINE AllSent == \A t \in Players : player[t] = "lock" /\ player'[t] = "none"
                        => Played = 2 * (buffer_size \div 2)
<1>1. IInv /\ [Next]_vars => [AllSent]_vars
  <2>. SUFFICES ASSUME IInv, [Next]_vars, NEW t \in Players,
                       player[t] = "lock", player'[t] = "none"
                PROVE  Played = 2 * (buffer_size \div 2)
    OBVIOUS
  <2>1. Completed(t)
    <3>1. ASSUME NEW u \in Players, PlayerStep(u)
          PROVE  Completed(t)
      <4>1. \A step : Goto(u, step) /\ step # "none" => player'[t] # "none"
        BY DEF Goto, IInv, TypeOK
      <4>2. \A step : Goto(u, step) /\ u # t => player'[t] # "none"
        BY DEF Goto, IInv, TypeOK
      <4>. QED
        BY <3>1, <4>1, <4>2
        DEF PlayerStep, NoDevice, Begin, While, Transmit, Refused, Completed, Complete,
            Written, Advance, Timeout, TimeOut
    <3>2. ASSUME NEW u \in Players, Goto(u, "begin")
          PROVE  FALSE
      BY <3>2 DEF Goto, IInv, TypeOK
    <3>. QED
      BY <3>1, <3>2
      DEF Next, ClientStep, TxCplt, Tick, Play, Stop, Pause, Resume, PlayCopy, Copy, PlayCreate,
          StopIdle, StopBegin, StopSet, StopClear, Clear, PauseSet, vars
  <2>2. lock = "free" /\ buffer_pos >= buffer_size /\ buffer_size > 0
    BY <2>1 DEF Completed, Complete, IInv, Loaded, Playing
  <2>3. buffer_pos \in 0 .. buffer_size /\ buffer_size \in Nat
    BY PlayerAssumption DEF IInv, TypeOK
  <2>4. Played = Whole(buffer_pos)
    BY <2>2 DEF IInv, Loaded, Transfer
  <2>. QED
    BY <2>2, <2>3, <2>4 DEF Whole
<1>. QED
  BY <1>1, Inductive, PTL DEF Spec, CompleteIsWhole

=============================================================================
