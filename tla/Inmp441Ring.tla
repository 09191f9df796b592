---------------------------- MODULE Inmp441Ring ----------------------------
(***************************************************************************)
(* The INMP441 microphone driver: src/applications/drv_sai_inmp441.c.      *)
(*                                                                         *)
(* The SAI DMA fills a two-half buffer and interrupts after each half; the *)
(* interrupt handler puts the half in a ring of AUDIO_BUFFER_COUNT frames  *)
(* and releases a semaphore.  Threads take the semaphore, then the device  *)
(* mutex, and copy the oldest frame.  Other threads start and stop the     *)
(* capture.  The handler does not take the mutex: it preempts every thread *)
(* between any two of its memory accesses.                                 *)
(*                                                                         *)
(* There is one core, so an interrupt handler is one step; a thread is a   *)
(* sequence of steps with an interrupt or another thread between any two.  *)
(* A frame is its number in the order of capture (the value of total_frames*)
(* when it was stored); 0 is the blank frame of a zeroed buffer.           *)
(*                                                                         *)
(* `faults' is a history variable.  It records the six events after which  *)
(* the ring and its counters may no longer agree, or the DMA no longer     *)
(* runs; the properties below say that nothing else can go wrong, and for  *)
(* four of the events a configuration shows that it does happen and what   *)
(* it does (the others are a HAL call that fails in the handler, and two   *)
(* threads that start the capture at once).                                *)
(***************************************************************************)
EXTENDS Integers, FiniteSets

CONSTANTS
  Readers,             \* threads that call inmp441_read_frame
  Controllers,         \* threads that call inmp441_init, _start and _stop
  NoOwner,             \* the mutex is free
  AUDIO_BUFFER_COUNT,  \* frames in the ring
  COUNTER_MAX,         \* largest value of frame_count (2^32 - 1 in the code)
  MaxFrames,           \* bound: halves stored or refused in a behaviour
  MaxStarts,           \* bound: calls of inmp441_start that pass its checks
  MaxMallocFailures,   \* bound: failures of rt_malloc
  MaxDmaErrors,        \* bound: DMA errors
  HalMayFail           \* HAL_SAI_Receive_DMA may fail with the peripheral ready

ASSUME RingAssumption ==
  /\ AUDIO_BUFFER_COUNT \in Nat \ {0}
  /\ COUNTER_MAX \in Nat
  /\ AUDIO_BUFFER_COUNT <= COUNTER_MAX
ASSUME ThreadAssumption ==
  /\ IsFiniteSet(Readers)
  /\ NoOwner \notin Readers
ASSUME BoundAssumption ==
  /\ {MaxFrames, MaxStarts, MaxMallocFailures, MaxDmaErrors} \subseteq Nat
  /\ HalMayFail \in BOOLEAN

VARIABLES
  is_initialized, is_running,
  dma,            \* "idle", or the half of dma_buffer being filled
  slots,          \* dev->frames: the number of the frame in each buffer
  write_idx, read_idx, frame_count,
  buffer_sem,     \* value of the semaphore
  lock,           \* owner of the mutex
  total_frames, overrun_count, dma_errors,
  rpc,            \* program counter of each reader
  src,            \* index of the slot a reader copies from
  head,           \* frame found in the first part of the copy
  loaded,         \* frame_count as loaded by dev->frame_count--
  cpc,            \* program counter of each controller
  starts,         \* history: starts so far, for the bound
  mallocFailures, \* history: failures so far, for the bound
  delivered,      \* history: frames handed to readers
  faults          \* history: see above

ring     == <<slots, write_idx, frame_count, buffer_sem, total_frames>>
reader   == <<rpc, src, head, loaded>>
history  == <<starts, mallocFailures, delivered, faults>>
vars     == <<is_initialized, is_running, dma, ring, read_idx, lock,
              overrun_count, dma_errors, reader, cpc, history>>

Slots == 0 .. AUDIO_BUFFER_COUNT - 1
Faults == {"lost_update", "stale_token", "leaked_slot", "deaf_start",
           "failed_rearm", "double_start"}

ReaderStates     == {"idle", "wait", "lock", "alloc", "copy", "load", "store"}
ControllerStates == {"idle", "write", "read", "count", "arm", "flag", "halt", "unflag"}

Init ==
  /\ is_initialized = FALSE
  /\ is_running = FALSE
  /\ dma = "idle"
  /\ slots = [i \in Slots |-> 0]
  /\ write_idx = 0 /\ read_idx = 0 /\ frame_count = 0
  /\ buffer_sem = 0
  /\ lock = NoOwner
  /\ total_frames = 0 /\ overrun_count = 0 /\ dma_errors = 0
  /\ rpc = [r \in Readers |-> "idle"]
  /\ src = [r \in Readers |-> 0]
  /\ head = [r \in Readers |-> 0]
  /\ loaded = [r \in Readers |-> 0]
  /\ cpc = [c \in Controllers |-> "idle"]
  /\ starts = 0 /\ mallocFailures = 0 /\ delivered = 0
  /\ faults = {}

\* The index k slots further round the ring.
After(i, k) == (i + k) % AUDIO_BUFFER_COUNT

\* Mutant: the wrap is forgotten.
AdvanceUnwrapped(i) == i + 1

Advance(i) == After(i, 1)

\* uint32_t decrement.
Decrement(n) == IF n = 0 THEN COUNTER_MAX ELSE n - 1

\* Readers that have taken a token and not yet taken their frame off
\* frame_count, and among them those that already moved read_idx.
Holding  == {r \in Readers : rpc[r] \in {"lock", "alloc", "copy", "load", "store"}}
Advanced == {r \in Readers : rpc[r] \in {"load", "store"}}

\* Controllers that have zeroed a part of the ring and not yet all of it.
Resetting == {c \in Controllers : cpc[c] \in {"read", "count"}}

-----------------------------------------------------------------------------
(* The DMA interrupt. *)

\* process_dma_data, given its test for a full ring.
Process(full) ==
  \/ /\ ~is_running
     /\ UNCHANGED <<ring, overrun_count>>
  \/ /\ is_running
     /\ full
     /\ overrun_count' = overrun_count + 1
     /\ UNCHANGED ring
  \/ /\ is_running
     /\ ~full
     /\ slots' = [slots EXCEPT ![write_idx] = total_frames + 1]
     /\ write_idx' = Advance(write_idx)
     /\ frame_count' = frame_count + 1
     /\ total_frames' = total_frames + 1
     /\ buffer_sem' = buffer_sem + 1
     /\ UNCHANGED overrun_count

\* Mutants: the test is off by one, one way and the other.
ProcessHalfLate == Process(frame_count > AUDIO_BUFFER_COUNT)
ProcessHalfEarly == Process(frame_count + 1 >= AUDIO_BUFFER_COUNT)

ProcessHalf == Process(frame_count >= AUDIO_BUFFER_COUNT)

\* Within the bound, the sound keeps coming.
Sound == total_frames + overrun_count < MaxFrames

\* The transfer is not circular: the handler has to arm the next one, and does
\* not look at the result.
Rearm ==
  \/ dma' = (IF is_running THEN "first" ELSE "idle") /\ UNCHANGED faults
  \/ HalMayFail /\ is_running /\ dma' = "idle" /\ faults' = faults \cup {"failed_rearm"}

IsrUnchanged ==
  UNCHANGED <<is_initialized, is_running, read_idx, lock, reader, cpc,
              starts, mallocFailures, delivered>>

RxHalfCplt ==
  /\ Sound
  /\ dma = "first"
  /\ dma' = "second"
  /\ ProcessHalf
  /\ UNCHANGED <<dma_errors, faults>>
  /\ IsrUnchanged

RxCplt ==
  /\ Sound
  /\ dma = "second"
  /\ Rearm
  /\ ProcessHalf
  /\ UNCHANGED dma_errors
  /\ IsrUnchanged

AfterError(rearm) ==
  /\ dma # "idle"
  /\ dma_errors < MaxDmaErrors
  /\ dma_errors' = dma_errors + 1
  /\ rearm
  /\ UNCHANGED <<ring, overrun_count>>
  /\ IsrUnchanged

\* Mutant: the transfer is not armed again after an error.
DmaErrorGivesUp == AfterError(dma' = "idle" /\ UNCHANGED faults)

DmaError == AfterError(Rearm)

-----------------------------------------------------------------------------
(* inmp441_read_frame. *)

ReaderUnchanged ==
  UNCHANGED <<is_initialized, is_running, dma, slots, write_idx, total_frames,
              overrun_count, dma_errors, cpc, starts>>

Goto(r, state) == rpc' = [rpc EXCEPT ![r] = state]

\* A reader that finds the capture stopped gets an error and nothing changes.
BeginRead(r) ==
  /\ rpc[r] = "idle"
  /\ is_running
  /\ Goto(r, "wait")
  /\ UNCHANGED <<read_idx, frame_count, buffer_sem, lock, src, head, loaded,
                 mallocFailures, delivered, faults>>
  /\ ReaderUnchanged

\* rt_sem_take
TakeToken(r) ==
  /\ rpc[r] = "wait"
  /\ buffer_sem > 0
  /\ buffer_sem' = buffer_sem - 1
  /\ Goto(r, "lock")
  /\ UNCHANGED <<read_idx, frame_count, lock, src, head, loaded,
                 mallocFailures, delivered, faults>>
  /\ ReaderUnchanged

Timeout(r) ==
  /\ rpc[r] = "wait"
  /\ buffer_sem = 0
  /\ Goto(r, "idle")
  /\ UNCHANGED <<read_idx, frame_count, buffer_sem, lock, src, head, loaded,
                 mallocFailures, delivered, faults>>
  /\ ReaderUnchanged

\* Mutant: the frame is copied without the mutex.
TakeNoLock(r) ==
  /\ rpc[r] = "lock"
  /\ src' = [src EXCEPT ![r] = read_idx]
  /\ Goto(r, "alloc")
  /\ UNCHANGED <<read_idx, frame_count, buffer_sem, lock, head, loaded,
                 mallocFailures, delivered, faults>>
  /\ ReaderUnchanged

\* rt_mutex_take, and the frame to copy is chosen.
TakeLock(r) ==
  /\ rpc[r] = "lock"
  /\ lock = NoOwner
  /\ lock' = r
  /\ src' = [src EXCEPT ![r] = read_idx]
  /\ Goto(r, "alloc")
  /\ UNCHANGED <<read_idx, frame_count, buffer_sem, head, loaded,
                 mallocFailures, delivered, faults>>
  /\ ReaderUnchanged

\* rt_malloc fails: the token is spent, the frame stays in the ring.
MallocFails(r) ==
  /\ rpc[r] = "alloc"
  /\ mallocFailures < MaxMallocFailures
  /\ mallocFailures' = mallocFailures + 1
  /\ lock' = NoOwner
  /\ faults' = faults \cup {"leaked_slot"}
  /\ Goto(r, "idle")
  /\ UNCHANGED <<read_idx, frame_count, buffer_sem, src, head, loaded, delivered>>
  /\ ReaderUnchanged

\* rt_memcpy up to some point of the frame.
BeginCopy(r) ==
  /\ rpc[r] = "alloc"
  /\ head' = [head EXCEPT ![r] = slots[src[r]]]
  /\ Goto(r, "copy")
  /\ UNCHANGED <<read_idx, frame_count, buffer_sem, lock, src, loaded,
                 mallocFailures, delivered, faults>>
  /\ ReaderUnchanged

\* The rest of rt_memcpy, read from slots[src[r]], and read_idx moves on.
EndCopy(r) ==
  /\ rpc[r] = "copy"
  /\ read_idx' = Advance(read_idx)
  /\ delivered' = delivered + 1
  /\ Goto(r, "load")
  /\ UNCHANGED <<frame_count, buffer_sem, lock, src, head, loaded,
                 mallocFailures, faults>>
  /\ ReaderUnchanged

\* dev->frame_count--, the load ...
LoadCount(r) ==
  /\ rpc[r] = "load"
  /\ loaded' = [loaded EXCEPT ![r] = frame_count]
  /\ Goto(r, "store")
  /\ UNCHANGED <<read_idx, frame_count, buffer_sem, lock, src, head,
                 mallocFailures, delivered, faults>>
  /\ ReaderUnchanged

Store(r, owner) ==
  /\ rpc[r] = "store"
  /\ frame_count' = Decrement(loaded[r])
  /\ lock' = owner
  /\ faults' = IF frame_count = loaded[r] THEN faults
                                          ELSE faults \cup {"lost_update"}
  /\ Goto(r, "idle")
  /\ UNCHANGED <<read_idx, buffer_sem, src, head, loaded, mallocFailures, delivered>>
  /\ ReaderUnchanged

\* Mutant: the mutex is not released.
StoreCountLocked(r) == Store(r, r)

\* ... and the store, which loses what happened since; rt_mutex_release.
StoreCount(r) == Store(r, NoOwner)

-----------------------------------------------------------------------------
(* inmp441_init, inmp441_start and inmp441_stop. *)

CGoto(c, state) == cpc' = [cpc EXCEPT ![c] = state]

ControlUnchanged ==
  UNCHANGED <<slots, buffer_sem, total_frames, lock, overrun_count, dma_errors,
              reader, mallocFailures, delivered>>

\* inmp441_init succeeds; a failure undoes what was done and changes nothing.
InitDevice(c) ==
  /\ cpc[c] = "idle"
  /\ ~is_initialized
  /\ is_initialized' = TRUE
  /\ UNCHANGED <<is_running, dma, write_idx, read_idx, frame_count, starts,
                 faults, cpc>>
  /\ ControlUnchanged

StartCheck(c) ==
  /\ cpc[c] = "idle"
  /\ is_initialized
  /\ ~is_running
  /\ starts < MaxStarts
  /\ starts' = starts + 1
  /\ CGoto(c, "write")
  /\ UNCHANGED <<is_initialized, is_running, dma, write_idx, read_idx,
                 frame_count, faults>>
  /\ ControlUnchanged

\* The indexes and the count are zeroed one by one, the semaphore is not.
StartWrite(c) ==
  /\ cpc[c] = "write"
  /\ write_idx' = 0
  /\ faults' = faults \cup {f \in {"stale_token"} : buffer_sem > 0 \/ Holding # {}}
                      \cup {f \in {"double_start"} : is_running}
  /\ CGoto(c, "read")
  /\ UNCHANGED <<is_initialized, is_running, dma, read_idx, frame_count, starts>>
  /\ ControlUnchanged

ZeroRead(c, read) ==
  /\ cpc[c] = "read"
  /\ read_idx' = read
  /\ CGoto(c, "count")
  /\ UNCHANGED <<is_initialized, is_running, dma, write_idx, frame_count, starts, faults>>
  /\ ControlUnchanged

\* Mutant: the read index is forgotten.
StartReadForgotten(c) == ZeroRead(c, read_idx)

StartRead(c) == ZeroRead(c, 0)

StartCount(c) ==
  /\ cpc[c] = "count"
  /\ frame_count' = 0
  /\ CGoto(c, "arm")
  /\ UNCHANGED <<is_initialized, is_running, dma, write_idx, read_idx, starts, faults>>
  /\ ControlUnchanged

\* HAL_SAI_Receive_DMA: HAL_BUSY unless the peripheral is ready.
StartArm(c) ==
  /\ cpc[c] = "arm"
  /\ \/ dma = "idle" /\ dma' = "first" /\ CGoto(c, "flag")
     \/ (dma # "idle" \/ HalMayFail) /\ UNCHANGED dma /\ CGoto(c, "idle")
  /\ UNCHANGED <<is_initialized, is_running, write_idx, read_idx, frame_count,
                 starts, faults>>
  /\ ControlUnchanged

\* The transfer may already be over, and its handler saw is_running FALSE;
\* another thread may be about to zero what the handler now fills.
StartFlag(c) ==
  /\ cpc[c] = "flag"
  /\ is_running' = TRUE
  /\ faults' = faults \cup {f \in {"deaf_start"} : dma = "idle"}
                      \cup {f \in {"double_start"} : Resetting # {}}
  /\ CGoto(c, "idle")
  /\ UNCHANGED <<is_initialized, dma, write_idx, read_idx, frame_count, starts>>
  /\ ControlUnchanged

StopCheck(c) ==
  /\ cpc[c] = "idle"
  /\ is_running
  /\ CGoto(c, "halt")
  /\ UNCHANGED <<is_initialized, is_running, dma, write_idx, read_idx,
                 frame_count, starts, faults>>
  /\ ControlUnchanged

\* HAL_SAI_DMAStop
StopHalt(c) ==
  /\ cpc[c] = "halt"
  /\ dma' = "idle"
  /\ CGoto(c, "unflag")
  /\ UNCHANGED <<is_initialized, is_running, write_idx, read_idx, frame_count,
                 starts, faults>>
  /\ ControlUnchanged

Unflag(c, running) ==
  /\ cpc[c] = "unflag"
  /\ is_running' = running
  /\ CGoto(c, "idle")
  /\ UNCHANGED <<is_initialized, dma, write_idx, read_idx, frame_count,
                 starts, faults>>
  /\ ControlUnchanged

\* Mutant: the flag is left set.
StopFlagKept(c) == Unflag(c, is_running)

StopFlag(c) == Unflag(c, FALSE)

-----------------------------------------------------------------------------
Isr == RxHalfCplt \/ RxCplt \/ DmaError

Read(r) ==
  \/ BeginRead(r) \/ TakeToken(r) \/ Timeout(r) \/ TakeLock(r)
  \/ MallocFails(r) \/ BeginCopy(r) \/ EndCopy(r) \/ LoadCount(r) \/ StoreCount(r)

Control(c) ==
  \/ InitDevice(c) \/ StartCheck(c) \/ StartWrite(c) \/ StartRead(c) \/ StartCount(c)
  \/ StartArm(c) \/ StartFlag(c) \/ StopCheck(c) \/ StopHalt(c) \/ StopFlag(c)

Next ==
  \/ Isr
  \/ \E r \in Readers : Read(r)
  \/ \E c \in Controllers : Control(c)

Spec == Init /\ [][Next]_vars

\* A thread that is inside a driver call runs on, and a reader calls
\* inmp441_read_frame in a loop (audio_process_thread_entry).  Nobody has to
\* start or stop the capture, and the DMA owes nothing.
Fairness ==
  /\ \A r \in Readers : WF_vars(Read(r))
  /\ \A c \in Controllers : WF_vars(cpc[c] # "idle" /\ Control(c))

FairSpec == Spec /\ Fairness

-----------------------------------------------------------------------------
(* Properties. *)

\* Every variable has its type; in particular the indexes stay in the ring.
TypeOK ==
  /\ is_initialized \in BOOLEAN /\ is_running \in BOOLEAN
  /\ dma \in {"idle", "first", "second"}
  /\ slots \in [Slots -> Nat]
  /\ write_idx \in Slots /\ read_idx \in Slots
  /\ frame_count \in 0 .. COUNTER_MAX
  /\ buffer_sem \in Nat
  /\ lock \in Readers \cup {NoOwner}
  /\ total_frames \in Nat /\ overrun_count \in Nat /\ dma_errors \in Nat
  /\ rpc \in [Readers -> ReaderStates]
  /\ src \in [Readers -> Slots]
  /\ head \in [Readers -> Nat]
  /\ loaded \in [Readers -> 0 .. COUNTER_MAX]
  /\ cpc \in [Controllers -> ControllerStates]
  /\ starts \in Nat /\ mallocFailures \in Nat /\ delivered \in Nat
  /\ faults \subseteq Faults

\* The frames in the ring no reader has taken.
Unread == frame_count - Cardinality(Advanced)

\* Until one of the six faults happens, the semaphore, the frames in the
\* hands of readers and frame_count agree, and there are never more frames
\* than buffers.  (process_dma_data, inmp441_read_frame, inmp441_start)
TokensMatchFrames ==
  faults = {} =>
    /\ frame_count = buffer_sem + Cardinality(Holding)
    /\ frame_count <= AUDIO_BUFFER_COUNT

\* Until one of the six faults happens, the ring holds exactly the frames
\* captured and not yet delivered, in their order, from read_idx to
\* write_idx (but between the stores that zero the two): an unread frame is
\* never overwritten and none is skipped.
RingInOrder ==
  faults = {} =>
    /\ total_frames = delivered + Unread
    /\ (\A c \in Controllers : cpc[c] # "read") => write_idx = After(read_idx, Unread)
    /\ \A k \in 0 .. Unread - 1 : slots[After(read_idx, k)] = delivered + k + 1

\* Until one of the six faults happens, a capture that runs has its DMA
\* armed, unless a stop is between its two steps.  (HAL_SAI_RxCpltCallback,
\* HAL_SAI_ErrorCallback, inmp441_start, inmp441_stop)
RunningIsArmed ==
  faults = {} /\ is_running /\ (\A c \in Controllers : cpc[c] # "unflag")
    => dma # "idle"

\* Until one of the six faults happens, every frame handed to a reader is
\* the next one in the order of capture, and the interrupt did not change it
\* during the copy.  (inmp441_read_frame against process_dma_data)
ReadsInOrder ==
  [][\A r \in Readers :
       rpc[r] = "copy" /\ rpc'[r] = "load" /\ faults = {}
         => /\ head[r] = delivered + 1
            /\ slots[src[r]] = delivered + 1]_vars

\* Until one of the six faults happens, the handler refuses a frame only
\* when at least all buffers but one hold unread frames (the one being the
\* frame a reader has copied and not yet taken off frame_count).
RefusesOnlyWhenFull ==
  [][overrun_count' # overrun_count /\ faults = {}
       => Unread >= AUDIO_BUFFER_COUNT - 1]_vars

\* A frame that was captured is delivered in the end, if the capture keeps
\* running and none of the six faults happens.
EveryFrameDelivered ==
  \A n \in 1 .. MaxFrames :
    total_frames >= n ~> (delivered >= n \/ ~is_running \/ faults # {})

\* The driver is the frame channel, until one of the six faults happens.
Channel == INSTANCE FrameChannel WITH
  Capacity <- AUDIO_BUFFER_COUNT,
  queue    <- IF faults = {}
              THEN [k \in 1 .. Unread |-> slots[After(read_idx, k - 1)]]
              ELSE <<>>,
  captured <- total_frames,
  taken    <- delivered,
  refused  <- overrun_count,
  valid    <- faults = {}

ImplementsChannel == Channel!Spec

-----------------------------------------------------------------------------
(* What the header says, and the code does not always do. *)

\* drv_sai_inmp441.h:82: frame_count is the "Available frame count".
CountWithinRing == frame_count <= AUDIO_BUFFER_COUNT

\* drv_sai_inmp441.h:120: "Read audio frame (blocking)": a reader passes the
\* semaphore only when a frame is available.
ReadBlocksUntilFrame == [][buffer_sem' < buffer_sem => frame_count > 0]_vars

\* drv_sai_inmp441.h:82: a frame counted as available can be read.
AvailableCanBeRead == frame_count > 0 /\ Holding = {} => buffer_sem > 0

\* drv_sai_inmp441.h:108: inmp441_start is "Start audio capture": when it has
\* returned RT_EOK the DMA is armed.
StartedIsCapturing ==
  is_running /\ (\A c \in Controllers : cpc[c] = "idle") => dma # "idle"
=============================================================================
