------------------------- MODULE Inmp441Ring_proofs -------------------------
(***************************************************************************)
(* Proofs about Inmp441Ring, for any number of readers, controllers and    *)
(* buffers.                                                                *)
(***************************************************************************)
EXTENDS Inmp441Ring, FiniteSetTheorems, TLAPS, Sequences

-----------------------------------------------------------------------------
(* The indexes of the ring. *)

\* Within one turn of the ring the remainder is a subtraction.
LEMMA AfterIs ==
  ASSUME NEW i \in Slots, NEW k \in 0 .. AUDIO_BUFFER_COUNT
  PROVE  /\ After(i, k) = IF i + k < AUDIO_BUFFER_COUNT
                          THEN i + k ELSE i + k - AUDIO_BUFFER_COUNT
         /\ After(i, k) \in Slots
<1>1. CASE i + k < AUDIO_BUFFER_COUNT
  BY <1>1, RingAssumption DEF After, Slots
<1>2. CASE i + k >= AUDIO_BUFFER_COUNT
  BY <1>2, RingAssumption DEF After, Slots
<1>. QED
  BY <1>1, <1>2, RingAssumption DEF Slots

\* Distances less than a turn lead to different slots, and distances add up.
LEMMA AfterFacts ==
  ASSUME NEW i \in Slots
  PROVE  /\ After(i, 0) = i
         /\ Advance(i) \in Slots
         /\ \A k \in 0 .. AUDIO_BUFFER_COUNT - 1 :
              /\ Advance(After(i, k)) = After(i, k + 1)
              /\ After(Advance(i), k) = After(i, k + 1)
         /\ \A k, l \in 0 .. AUDIO_BUFFER_COUNT - 1 :
              After(i, k) = After(i, l) => k = l
<1>1. After(i, 0) = i
  BY AfterIs, RingAssumption DEF Slots
<1>2. Advance(i) \in Slots
  BY AfterIs, RingAssumption DEF Slots, Advance
<1>3. ASSUME NEW k \in 0 .. AUDIO_BUFFER_COUNT - 1
      PROVE  Advance(After(i, k)) = After(i, k + 1)
  <2>1. /\ k \in 0 .. AUDIO_BUFFER_COUNT
        /\ k + 1 \in 0 .. AUDIO_BUFFER_COUNT
        /\ 1 \in 0 .. AUDIO_BUFFER_COUNT
    BY RingAssumption
  <2>2. After(i, k) \in Slots
    BY <2>1, AfterIs
  <2>3. After(i, k) = IF i + k < AUDIO_BUFFER_COUNT
                      THEN i + k ELSE i + k - AUDIO_BUFFER_COUNT
    BY <2>1, AfterIs
  <2>4. After(After(i, k), 1) =
          IF After(i, k) + 1 < AUDIO_BUFFER_COUNT
          THEN After(i, k) + 1 ELSE After(i, k) + 1 - AUDIO_BUFFER_COUNT
    BY <2>1, <2>2, AfterIs
  <2>5. After(i, k + 1) = IF i + (k + 1) < AUDIO_BUFFER_COUNT
                          THEN i + (k + 1) ELSE i + (k + 1) - AUDIO_BUFFER_COUNT
    BY <2>1, AfterIs
  <2>. QED
    BY <2>3, <2>4, <2>5, RingAssumption DEF Slots, Advance
<1>4. ASSUME NEW k \in 0 .. AUDIO_BUFFER_COUNT - 1
      PROVE  After(Advance(i), k) = After(i, k + 1)
  <2>1. /\ k \in 0 .. AUDIO_BUFFER_COUNT
        /\ k + 1 \in 0 .. AUDIO_BUFFER_COUNT
        /\ 1 \in 0 .. AUDIO_BUFFER_COUNT
    BY RingAssumption
  <2>2. After(i, 1) = IF i + 1 < AUDIO_BUFFER_COUNT
                      THEN i + 1 ELSE i + 1 - AUDIO_BUFFER_COUNT
    BY <2>1, AfterIs
  <2>3. After(After(i, 1), k) =
          IF After(i, 1) + k < AUDIO_BUFFER_COUNT
          THEN After(i, 1) + k ELSE After(i, 1) + k - AUDIO_BUFFER_COUNT
    BY <1>2, <2>1, AfterIs DEF Advance
  <2>4. After(i, k + 1) = IF i + (k + 1) < AUDIO_BUFFER_COUNT
                          THEN i + (k + 1) ELSE i + (k + 1) - AUDIO_BUFFER_COUNT
    BY <2>1, AfterIs
  <2>. QED
    BY <2>2, <2>3, <2>4, RingAssumption DEF Slots, Advance
<1>5. ASSUME NEW k \in 0 .. AUDIO_BUFFER_COUNT - 1,
             NEW l \in 0 .. AUDIO_BUFFER_COUNT - 1,
             After(i, k) = After(i, l)
      PROVE  k = l
  <2>1. k \in 0 .. AUDIO_BUFFER_COUNT /\ l \in 0 .. AUDIO_BUFFER_COUNT
    BY RingAssumption
  <2>2. After(i, k) = IF i + k < AUDIO_BUFFER_COUNT
                      THEN i + k ELSE i + k - AUDIO_BUFFER_COUNT
    BY <2>1, AfterIs
  <2>3. After(i, l) = IF i + l < AUDIO_BUFFER_COUNT
                      THEN i + l ELSE i + l - AUDIO_BUFFER_COUNT
    BY <2>1, AfterIs
  <2>4. i \in Int /\ i >= 0 /\ i < AUDIO_BUFFER_COUNT /\ k \in Int /\ l \in Int
        /\ AUDIO_BUFFER_COUNT \in Int
        /\ k >= 0 /\ k < AUDIO_BUFFER_COUNT /\ l >= 0 /\ l < AUDIO_BUFFER_COUNT
    BY RingAssumption DEF Slots
  <2>5. (IF i + k < AUDIO_BUFFER_COUNT THEN i + k ELSE i + k - AUDIO_BUFFER_COUNT)
        = (IF i + l < AUDIO_BUFFER_COUNT THEN i + l ELSE i + l - AUDIO_BUFFER_COUNT)
    BY <1>5, <2>2, <2>3, Zenon
  <2>. QED
    BY <2>4, <2>5
<1>. QED
  BY <1>1, <1>2, <1>3, <1>4, <1>5

-----------------------------------------------------------------------------
(* Types. *)

LEMMA TypeInit == Init => TypeOK
<1>. SUFFICES ASSUME Init
              PROVE  TypeOK
  OBVIOUS
<1>1. 0 \in Slots /\ 0 \in 0 .. COUNTER_MAX /\ 0 \in Nat
  BY RingAssumption DEF Slots
<1>2. /\ slots \in [Slots -> Nat]
      /\ rpc \in [Readers -> ReaderStates]
      /\ src \in [Readers -> Slots]
      /\ head \in [Readers -> Nat]
      /\ loaded \in [Readers -> 0 .. COUNTER_MAX]
      /\ cpc \in [Controllers -> ControllerStates]
  BY <1>1 DEF Init, ReaderStates, ControllerStates
<1>. QED
  BY <1>1, <1>2 DEF Init, TypeOK

LEMMA TypeStep == TypeOK /\ [Next]_vars => TypeOK'
<1>. SUFFICES ASSUME TypeOK, [Next]_vars
               PROVE  TypeOK'
  OBVIOUS
<1>0. \A i \in Slots : Advance(i) \in Slots
  BY AfterFacts
<1>1. CASE RxHalfCplt
  BY <1>1, <1>0, RingAssumption DEF TypeOK, RxHalfCplt, ProcessHalf, Process, Sound,
           IsrUnchanged, ring, reader
<1>2. CASE RxCplt
  <2>1. dma' \in {"idle", "first", "second"} /\ faults' \subseteq Faults
    BY <1>2 DEF TypeOK, RxCplt, Rearm, Faults
  <2>. QED
    BY <1>2, <1>0, <2>1, RingAssumption DEF TypeOK, RxCplt, ProcessHalf, Process, Sound,
             IsrUnchanged, ring, reader
<1>3. CASE DmaError
  <2>1. dma' \in {"idle", "first", "second"} /\ faults' \subseteq Faults
    BY <1>3 DEF TypeOK, DmaError, AfterError, Rearm, Faults
  <2>. QED
    BY <1>3, <2>1 DEF TypeOK, DmaError, AfterError, IsrUnchanged, ring, reader
<1>4. ASSUME NEW r \in Readers, BeginRead(r)
      PROVE  TypeOK'
  BY <1>4 DEF TypeOK, BeginRead, Goto, ReaderUnchanged, ReaderStates
<1>5. ASSUME NEW r \in Readers, TakeToken(r)
      PROVE  TypeOK'
  BY <1>5 DEF TypeOK, TakeToken, Goto, ReaderUnchanged, ReaderStates
<1>6. ASSUME NEW r \in Readers, Timeout(r)
      PROVE  TypeOK'
  BY <1>6 DEF TypeOK, Timeout, Goto, ReaderUnchanged, ReaderStates
<1>7. ASSUME NEW r \in Readers, TakeLock(r)
      PROVE  TypeOK'
  BY <1>7 DEF TypeOK, TakeLock, Goto, ReaderUnchanged, ReaderStates
<1>8. ASSUME NEW r \in Readers, MallocFails(r)
      PROVE  TypeOK'
  BY <1>8 DEF TypeOK, MallocFails, Goto, ReaderUnchanged, ReaderStates, Faults
<1>9. ASSUME NEW r \in Readers, BeginCopy(r)
      PROVE  TypeOK'
  BY <1>9 DEF TypeOK, BeginCopy, Goto, ReaderUnchanged, ReaderStates
<1>10. ASSUME NEW r \in Readers, EndCopy(r)
      PROVE  TypeOK'
  BY <1>10, <1>0 DEF TypeOK, EndCopy, Goto, ReaderUnchanged, ReaderStates
<1>11. ASSUME NEW r \in Readers, LoadCount(r)
      PROVE  TypeOK'
  BY <1>11 DEF TypeOK, LoadCount, Goto, ReaderUnchanged, ReaderStates
<1>12. ASSUME NEW r \in Readers, StoreCount(r)
      PROVE  TypeOK'
  BY <1>12, RingAssumption DEF TypeOK, StoreCount, Store, Goto, ReaderUnchanged,
           ReaderStates, Decrement, Faults
<1>13. ASSUME NEW c \in Controllers, InitDevice(c)
      PROVE  TypeOK'
  BY <1>13 DEF TypeOK, InitDevice, CGoto, ControlUnchanged, ControllerStates,
           reader
<1>14. ASSUME NEW c \in Controllers, StartCheck(c)
      PROVE  TypeOK'
  BY <1>14 DEF TypeOK, StartCheck, CGoto, ControlUnchanged, ControllerStates,
           reader
<1>15. ASSUME NEW c \in Controllers, StartWrite(c) \/ StartRead(c) \/ StartCount(c)
      PROVE  TypeOK'
  <2>1. 0 \in Slots /\ 0 \in 0 .. COUNTER_MAX
    BY RingAssumption DEF Slots
  <2>2. CASE StartWrite(c)
    BY <2>1, <2>2 DEF TypeOK, StartWrite, CGoto, ControlUnchanged, ControllerStates,
           reader, Faults
  <2>3. CASE StartRead(c)
    BY <2>1, <2>3 DEF TypeOK, StartRead, ZeroRead, CGoto, ControlUnchanged,
           ControllerStates, reader
  <2>4. CASE StartCount(c)
    BY <2>1, <2>4 DEF TypeOK, StartCount, CGoto, ControlUnchanged, ControllerStates, reader
  <2>. QED
    BY <1>15, <2>2, <2>3, <2>4
<1>16. ASSUME NEW c \in Controllers, StartArm(c)
      PROVE  TypeOK'
  BY <1>16 DEF TypeOK, StartArm, CGoto, ControlUnchanged, ControllerStates, reader
<1>17. ASSUME NEW c \in Controllers, StartFlag(c)
      PROVE  TypeOK'
  BY <1>17 DEF TypeOK, StartFlag, CGoto, ControlUnchanged, ControllerStates,
           reader, Faults
<1>18. ASSUME NEW c \in Controllers, StopCheck(c)
      PROVE  TypeOK'
  BY <1>18 DEF TypeOK, StopCheck, CGoto, ControlUnchanged, ControllerStates,
           reader
<1>19. ASSUME NEW c \in Controllers, StopHalt(c)
      PROVE  TypeOK'
  BY <1>19 DEF TypeOK, StopHalt, CGoto, ControlUnchanged, ControllerStates, reader
<1>20. ASSUME NEW c \in Controllers, StopFlag(c)
      PROVE  TypeOK'
  BY <1>20 DEF TypeOK, StopFlag, Unflag, CGoto, ControlUnchanged, ControllerStates, reader
<1>21. CASE UNCHANGED vars
  BY <1>21 DEF TypeOK, vars, ring, reader, history
<1>. QED
  BY <1>1, <1>2, <1>3, <1>4, <1>5, <1>6, <1>7, <1>8, <1>9, <1>10, <1>11,
     <1>12, <1>13, <1>14, <1>15, <1>16, <1>17, <1>18, <1>19, <1>20, <1>21
     DEF Next, Isr, Read, Control

\* Every reachable state is well typed: the indexes never leave the ring and
\* the count, decremented from any value, stays an unsigned integer.
THEOREM TypeCorrect == Spec => []TypeOK
BY TypeInit, TypeStep, PTL DEF Spec

-----------------------------------------------------------------------------
(* The inductive invariant. *)

\* The mutex is owned by the reader between rt_mutex_take and
\* rt_mutex_release, so at most one reader is there.
InSection == {"alloc", "copy", "load", "store"}
LockOwned == \A r \in Readers : rpc[r] \in InSection <=> lock = r

\* The slot being copied is the oldest one, and the part already copied is
\* the frame that is due.
CopyInPlace ==
  faults = {} =>
    \A r \in Readers :
      /\ rpc[r] \in {"alloc", "copy"} => src[r] = read_idx
      /\ rpc[r] = "copy" => head[r] = delivered + 1

\* The ring a controller is zeroing is empty, and stays so: the capture is off.
ZeroesEmpty ==
  faults = {} =>
    \A c \in Resetting :
      /\ ~is_running /\ buffer_sem = 0 /\ Holding = {}
      /\ write_idx = 0
      /\ cpc[c] = "count" => read_idx = 0

RingInv ==
  /\ TypeOK
  /\ LockOwned
  /\ TokensMatchFrames
  /\ RingInOrder
  /\ CopyInPlace
  /\ ZeroesEmpty
  /\ RunningIsArmed

LEMMA LockStep == TypeOK /\ LockOwned /\ [Next]_vars => LockOwned'
<1>. SUFFICES ASSUME TypeOK, LockOwned, [Next]_vars
              PROVE  LockOwned'
  OBVIOUS
<1>1. CASE Isr
  BY <1>1 DEF LockOwned, Isr, RxHalfCplt, RxCplt, DmaError, AfterError, IsrUnchanged, reader
<1>2. ASSUME NEW r \in Readers, BeginRead(r)
      PROVE  LockOwned'
  BY <1>2 DEF LockOwned, InSection, TypeOK, BeginRead, Goto
<1>3. ASSUME NEW r \in Readers, TakeToken(r)
      PROVE  LockOwned'
  BY <1>3 DEF LockOwned, InSection, TypeOK, TakeToken, Goto
<1>4. ASSUME NEW r \in Readers, Timeout(r)
      PROVE  LockOwned'
  BY <1>4 DEF LockOwned, InSection, TypeOK, Timeout, Goto
<1>5. ASSUME NEW r \in Readers, TakeLock(r)
      PROVE  LockOwned'
  BY <1>5, ThreadAssumption DEF LockOwned, InSection, TypeOK, TakeLock, Goto
<1>6. ASSUME NEW r \in Readers, MallocFails(r)
      PROVE  LockOwned'
  BY <1>6, ThreadAssumption DEF LockOwned, InSection, TypeOK, MallocFails, Goto
<1>7. ASSUME NEW r \in Readers, BeginCopy(r)
      PROVE  LockOwned'
  BY <1>7 DEF LockOwned, InSection, TypeOK, BeginCopy, Goto
<1>8. ASSUME NEW r \in Readers, EndCopy(r)
      PROVE  LockOwned'
  BY <1>8 DEF LockOwned, InSection, TypeOK, EndCopy, Goto
<1>9. ASSUME NEW r \in Readers, LoadCount(r)
      PROVE  LockOwned'
  BY <1>9 DEF LockOwned, InSection, TypeOK, LoadCount, Goto
<1>10. ASSUME NEW r \in Readers, StoreCount(r)
      PROVE  LockOwned'
  BY <1>10, ThreadAssumption DEF LockOwned, InSection, TypeOK, StoreCount, Store, Goto
<1>11. ASSUME NEW c \in Controllers, Control(c)
       PROVE  LockOwned'
  BY <1>11 DEF LockOwned, Control, InitDevice, StartCheck, StartWrite, StartRead, ZeroRead, StartCount,
            StartArm, StartFlag, StopCheck, StopHalt, StopFlag, Unflag, ControlUnchanged, reader
<1>12. CASE UNCHANGED vars
  BY <1>12 DEF LockOwned, vars, reader
<1>. QED
  BY <1>1, <1>2, <1>3, <1>4, <1>5, <1>6, <1>7, <1>8, <1>9, <1>10, <1>11, <1>12
     DEF Next, Read

LEMMA ArmedStep == TypeOK /\ RunningIsArmed /\ [Next]_vars => RunningIsArmed'
<1>. SUFFICES ASSUME TypeOK, RunningIsArmed, [Next]_vars
              PROVE  RunningIsArmed'
  OBVIOUS
<1>1. CASE Isr
  BY <1>1 DEF RunningIsArmed, Isr, RxHalfCplt, RxCplt, DmaError, AfterError, Rearm,
           IsrUnchanged
<1>2. ASSUME NEW r \in Readers, Read(r)
      PROVE  RunningIsArmed'
  BY <1>2 DEF RunningIsArmed, Read, BeginRead, TakeToken, Timeout, TakeLock,
              MallocFails, BeginCopy, EndCopy, LoadCount, StoreCount, Store, ReaderUnchanged
<1>3. ASSUME NEW c \in Controllers, InitDevice(c)
      PROVE  RunningIsArmed'
  BY <1>3 DEF RunningIsArmed, InitDevice, CGoto, ControlUnchanged
<1>4. ASSUME NEW c \in Controllers, StartCheck(c)
      PROVE  RunningIsArmed'
  BY <1>4 DEF RunningIsArmed, StartCheck, CGoto, ControlUnchanged
<1>5. ASSUME NEW c \in Controllers, StartWrite(c) \/ StartRead(c) \/ StartCount(c)
      PROVE  RunningIsArmed'
  BY <1>5 DEF TypeOK, RunningIsArmed, StartWrite, StartRead, ZeroRead, StartCount, CGoto,
              ControlUnchanged
<1>6. ASSUME NEW c \in Controllers, StartArm(c)
      PROVE  RunningIsArmed'
  BY <1>6 DEF TypeOK, RunningIsArmed, StartArm, CGoto, ControlUnchanged
<1>7. ASSUME NEW c \in Controllers, StartFlag(c)
      PROVE  RunningIsArmed'
  BY <1>7 DEF RunningIsArmed, StartFlag, CGoto, ControlUnchanged
<1>8. ASSUME NEW c \in Controllers, StopCheck(c)
      PROVE  RunningIsArmed'
  BY <1>8 DEF RunningIsArmed, StopCheck, CGoto, ControlUnchanged
<1>9. ASSUME NEW c \in Controllers, StopHalt(c)
      PROVE  RunningIsArmed'
  BY <1>9 DEF TypeOK, RunningIsArmed, StopHalt, CGoto, ControlUnchanged
<1>10. ASSUME NEW c \in Controllers, StopFlag(c)
      PROVE  RunningIsArmed'
  BY <1>10 DEF RunningIsArmed, StopFlag, Unflag, CGoto, ControlUnchanged
<1>11. CASE UNCHANGED vars
  BY <1>11 DEF RunningIsArmed, vars, history
<1>. QED
  BY <1>1, <1>2, <1>3, <1>4, <1>5, <1>6, <1>7, <1>8, <1>9, <1>10, <1>11
     DEF Next, Control

\* What the two sets of readers count, with the mutex held as it should be.
LEMMA Counts ==
  ASSUME TypeOK, LockOwned
  PROVE  /\ IsFiniteSet(Holding) /\ Cardinality(Holding) \in Nat
         /\ Holding # {} => Cardinality(Holding) >= 1
         /\ Advanced \subseteq Holding
         /\ \A r \in Readers : rpc[r] \in {"load", "store"} => Advanced = {r}
         /\ (\A r \in Readers : rpc[r] \notin {"load", "store"}) => Advanced = {}
         /\ \A r \in Readers : lock = r /\ r \notin Advanced => Advanced = {}
         /\ Cardinality(Advanced) \in {0, 1}
         /\ Cardinality(Advanced) <= Cardinality(Holding)
<1>1. IsFiniteSet(Holding) /\ Cardinality(Holding) \in Nat
  <2>1. Holding \subseteq Readers
    BY DEF Holding
  <2>. QED
    BY <2>1, ThreadAssumption, FS_Subset, FS_CardinalityType
<1>2. Holding # {} => Cardinality(Holding) >= 1
  BY <1>1, FS_EmptySet
<1>3. Advanced \subseteq Holding
  BY DEF Advanced, Holding
<1>4. \A r \in Readers : rpc[r] \in {"load", "store"} => Advanced = {r}
  BY DEF LockOwned, InSection, Advanced
<1>5. (\A r \in Readers : rpc[r] \notin {"load", "store"}) => Advanced = {}
  BY DEF Advanced
<1>6. \A r \in Readers : lock = r /\ r \notin Advanced => Advanced = {}
  BY DEF LockOwned, InSection, Advanced
<1>7. Cardinality(Advanced) \in {0, 1}
  <2>1. CASE Advanced = {}
    BY <2>1, FS_EmptySet
  <2>2. CASE Advanced # {}
    <3>1. PICK r \in Readers : rpc[r] \in {"load", "store"}
      BY <2>2 DEF Advanced
    <3>2. Advanced = {r}
      BY <3>1, <1>4
    <3>. QED
      BY <3>2, FS_Singleton
  <2>. QED
    BY <2>1, <2>2
<1>8. Cardinality(Advanced) <= Cardinality(Holding)
  BY <1>1, <1>3, FS_Subset
<1>. QED
  BY <1>1, <1>2, <1>3, <1>4, <1>5, <1>6, <1>7, <1>8

\* What holds of the ring while there has been no fault.
CleanRing ==
  /\ frame_count = buffer_sem + Cardinality(Holding)
  /\ frame_count <= AUDIO_BUFFER_COUNT
  /\ total_frames = delivered + Unread
  /\ (\A c \in Controllers : cpc[c] # "read") => write_idx = After(read_idx, Unread)
  /\ \A k \in 0 .. Unread - 1 : slots[After(read_idx, k)] = delivered + k + 1
  /\ \A r \in Readers :
       /\ rpc[r] \in {"alloc", "copy"} => src[r] = read_idx
       /\ rpc[r] = "copy" => head[r] = delivered + 1
  /\ \A c \in Resetting :
       /\ ~is_running /\ buffer_sem = 0 /\ Holding = {}
       /\ write_idx = 0
       /\ cpc[c] = "count" => read_idx = 0

LEMMA CleanRingIs ==
  (TokensMatchFrames /\ RingInOrder /\ CopyInPlace /\ ZeroesEmpty)
    <=> (faults = {} => CleanRing)
BY DEF TokensMatchFrames, RingInOrder, CopyInPlace, ZeroesEmpty, CleanRing

\* A ring in use is not being zeroed.
LEMMA InUse ==
  ASSUME CleanRing, is_running \/ buffer_sem # 0 \/ Holding # {}
  PROVE  /\ Resetting = {}
         /\ \A c \in Controllers : cpc[c] # "read"
         /\ write_idx = After(read_idx, Unread)
         /\ cpc' = cpc => /\ Resetting' = {}
                          /\ \A c \in Controllers : cpc'[c] # "read"
<1>1. Resetting = {}
  BY DEF CleanRing
<1>2. \A c \in Controllers : cpc[c] # "read"
  BY <1>1 DEF Resetting
<1>3. cpc' = cpc => Resetting' = Resetting
  BY DEF Resetting
<1>. QED
  BY <1>1, <1>2, <1>3 DEF CleanRing

\* No step takes a fault back.
LEMMA FaultsStay == [Next]_vars => faults \subseteq faults'
<1>. SUFFICES ASSUME [Next]_vars
              PROVE  faults \subseteq faults'
  OBVIOUS
<1>1. CASE Isr
  BY <1>1 DEF Isr, RxHalfCplt, RxCplt, DmaError, AfterError, Rearm
<1>2. ASSUME NEW r \in Readers, Read(r)
      PROVE  faults \subseteq faults'
  BY <1>2 DEF Read, BeginRead, TakeToken, Timeout, TakeLock, MallocFails,
              BeginCopy, EndCopy, LoadCount, StoreCount, Store
<1>3. ASSUME NEW c \in Controllers, Control(c)
      PROVE  faults \subseteq faults'
  BY <1>3 DEF Control, InitDevice, StartCheck, StartWrite, StartRead, ZeroRead, StartCount,
              StartArm, StartFlag, StopCheck, StopHalt, StopFlag, Unflag
<1>4. CASE UNCHANGED vars
  BY <1>4 DEF vars, history
<1>. QED
  BY <1>1, <1>2, <1>3, <1>4 DEF Next

\* The numbers of a well-typed state, and how far the ring is filled.
LEMMA Numbers ==
  ASSUME TypeOK, LockOwned, CleanRing
  PROVE  /\ Unread \in 0 .. AUDIO_BUFFER_COUNT
         /\ Unread = frame_count - Cardinality(Advanced)
         /\ frame_count \in Nat /\ delivered \in Nat /\ total_frames \in Nat
         /\ read_idx \in Slots /\ write_idx \in Slots
         /\ \A k \in 0 .. Unread - 1 : k \in 0 .. AUDIO_BUFFER_COUNT - 1
<1>1. /\ Cardinality(Advanced) \in {0, 1}
      /\ Cardinality(Advanced) <= Cardinality(Holding)
      /\ Cardinality(Holding) \in Nat
  BY Counts
<1>2. /\ frame_count \in Nat /\ buffer_sem \in Nat
      /\ frame_count = buffer_sem + Cardinality(Holding)
      /\ frame_count <= AUDIO_BUFFER_COUNT
  BY DEF TypeOK, CleanRing
<1>3. Unread \in 0 .. AUDIO_BUFFER_COUNT /\ Unread = frame_count - Cardinality(Advanced)
  BY <1>1, <1>2, RingAssumption DEF Unread
<1>4. \A k \in 0 .. Unread - 1 : k \in 0 .. AUDIO_BUFFER_COUNT - 1
  BY <1>3, RingAssumption
<1>. QED
  BY <1>2, <1>3, <1>4 DEF TypeOK

-----------------------------------------------------------------------------
(* The steps that change the ring, one lemma each. *)

\* A step that touches nothing CleanRing speaks of.
LEMMA SameStep ==
  ASSUME CleanRing,
         UNCHANGED <<ring, read_idx, delivered, rpc, src, head>>,
         Resetting' = Resetting,
         \A c \in Resetting : cpc'[c] = cpc[c],
         Resetting # {} => ~is_running'
  PROVE  CleanRing'
<1>1. Holding' = Holding /\ Advanced' = Advanced
  BY DEF Holding, Advanced
<1>2. Unread' = Unread
  BY <1>1 DEF ring, Unread
<1>3. (\A c \in Controllers : cpc'[c] # "read") => \A c \in Controllers : cpc[c] # "read"
  BY DEF Resetting
<1>4. \A c \in Resetting' :
        /\ ~is_running' /\ buffer_sem' = 0 /\ Holding' = {}
        /\ write_idx' = 0
        /\ cpc'[c] = "count" => read_idx' = 0
  BY <1>1 DEF CleanRing, ring
<1>. QED
  BY <1>1, <1>2, <1>3, <1>4 DEF CleanRing, ring, After

\* The interrupt stores a frame: behind the last unread one, in a slot that
\* holds no unread frame.
LEMMA PutStep ==
  ASSUME TypeOK, LockOwned, CleanRing, ProcessHalf, frame_count' # frame_count,
         UNCHANGED <<read_idx, delivered, rpc, src, head, cpc>>
  PROVE  CleanRing'
<1>0. /\ is_running /\ write_idx = After(read_idx, Unread)
      /\ Resetting' = {}
  <2>1. is_running
    BY Zenon DEF ProcessHalf, Process, ring
  <2>. QED
    BY <2>1, InUse
<1>1. /\ frame_count < AUDIO_BUFFER_COUNT
      /\ slots' = [slots EXCEPT ![write_idx] = total_frames + 1]
      /\ write_idx' = Advance(write_idx)
      /\ frame_count' = frame_count + 1
      /\ total_frames' = total_frames + 1
      /\ buffer_sem' = buffer_sem + 1
  BY RingAssumption DEF TypeOK, ProcessHalf, Process, ring
<1>2. Holding' = Holding /\ Advanced' = Advanced
  BY DEF Holding, Advanced
<1>3. /\ Cardinality(Advanced) \in {0, 1} /\ Cardinality(Holding) \in Nat
      /\ buffer_sem \in Nat /\ slots \in [Slots -> Nat]
  BY Counts DEF TypeOK
<1>4. /\ Unread \in 0 .. AUDIO_BUFFER_COUNT - 1
      /\ Unread' = Unread + 1
  BY <1>1, <1>2, <1>3, Numbers, RingAssumption DEF Unread
<1>5. write_idx' = After(read_idx', Unread')
  BY <1>0, <1>1, <1>4, Numbers, AfterFacts
<1>6. ASSUME NEW k \in 0 .. Unread' - 1
      PROVE  slots'[After(read_idx', k)] = delivered' + k + 1
  <2>1. /\ k \in 0 .. AUDIO_BUFFER_COUNT - 1 /\ k \in 0 .. AUDIO_BUFFER_COUNT
        /\ After(read_idx, k) \in Slots /\ read_idx \in Slots
    BY <1>4, Numbers, AfterIs, RingAssumption
  <2>2. write_idx = After(read_idx, Unread) /\ total_frames = delivered + Unread
    BY <1>0 DEF CleanRing
  <2>3. CASE k = Unread
    BY <1>1, <1>3, <2>1, <2>2, <2>3, Numbers
  <2>4. CASE k # Unread
    <3>1. k \in 0 .. Unread - 1
      BY <1>4, <2>4
    <3>2. After(read_idx, k) # write_idx
      BY <1>4, <2>1, <2>2, <2>4, AfterFacts
    <3>3. slots'[After(read_idx, k)] = slots[After(read_idx, k)]
      BY <1>1, <1>3, <2>1, <3>2
    <3>. QED
      BY <3>1, <3>3 DEF CleanRing
  <2>. QED
    BY <2>3, <2>4
<1>7. /\ frame_count' = buffer_sem' + Cardinality(Holding')
      /\ frame_count' <= AUDIO_BUFFER_COUNT
      /\ total_frames' = delivered' + Unread'
  BY <1>1, <1>2, <1>3, <1>4, Numbers, RingAssumption DEF CleanRing
<1>8. \A r \in Readers :
        /\ rpc'[r] \in {"alloc", "copy"} => src'[r] = read_idx'
        /\ rpc'[r] = "copy" => head'[r] = delivered' + 1
  BY DEF CleanRing
<1>. QED
  BY <1>0, <1>5, <1>6, <1>7, <1>8 DEF CleanRing, Unread

\* What is the same in the three steps that zero an empty ring.
LEMMA ZeroStep ==
  ASSUME TypeOK, LockOwned, CleanRing,
         buffer_sem = 0, Holding = {}, frame_count' \in {frame_count, 0},
         UNCHANGED <<slots, buffer_sem, total_frames, delivered, rpc, src, head>>
  PROVE  /\ Holding' = {} /\ Unread = 0 /\ Unread' = 0
         /\ frame_count' = buffer_sem' + Cardinality(Holding')
         /\ frame_count' <= AUDIO_BUFFER_COUNT
         /\ total_frames' = delivered' + Unread'
         /\ \A k \in 0 .. Unread' - 1 : slots'[After(read_idx', k)] = delivered' + k + 1
         /\ \A r \in Readers : rpc'[r] \notin {"alloc", "copy"}
         /\ After(0, 0) = 0
<1>1. Advanced = {} /\ Cardinality(Holding) = 0 /\ Cardinality(Advanced) = 0
  BY Counts, FS_EmptySet
<1>2. Holding' = Holding /\ Advanced' = Advanced
  BY DEF Holding, Advanced
<1>3. Unread = 0 /\ Unread' = 0 /\ frame_count = 0 /\ frame_count' = 0
  BY <1>1, <1>2 DEF Unread, CleanRing
<1>4. After(0, 0) = 0
  BY AfterFacts, RingAssumption DEF Slots
<1>5. \A r \in Readers : rpc'[r] \notin {"alloc", "copy"}
  BY DEF Holding
<1>6. total_frames' = delivered' + Unread'
  BY <1>3 DEF CleanRing
<1>7. frame_count' = buffer_sem' + Cardinality(Holding') /\ frame_count' <= AUDIO_BUFFER_COUNT
  BY <1>1, <1>2, <1>3, RingAssumption
<1>8. \A k \in 0 .. Unread' - 1 : slots'[After(read_idx', k)] = delivered' + k + 1
  BY <1>3
<1>. QED
  BY <1>2, <1>3, <1>4, <1>5, <1>6, <1>7, <1>8

LEMMA ZeroWriteStep ==
  ASSUME TypeOK, LockOwned, CleanRing, NEW c \in Controllers, StartWrite(c),
         faults' = {}
  PROVE  CleanRing'
<1>1. /\ buffer_sem = 0 /\ Holding = {} /\ ~is_running
      /\ write_idx' = 0 /\ cpc' = [cpc EXCEPT ![c] = "read"]
      /\ UNCHANGED <<is_running, read_idx, frame_count>>
      /\ UNCHANGED <<slots, buffer_sem, total_frames, delivered, rpc, src, head>>
  BY DEF TypeOK, StartWrite, CGoto, ControlUnchanged, reader
<1>2. cpc'[c] = "read"
  BY <1>1 DEF TypeOK
<1>3. \A d \in Resetting' : cpc'[d] = "count" => d \in Resetting /\ cpc[d] = "count"
  BY <1>1 DEF TypeOK, Resetting
<1>4. \A d \in Resetting' : cpc'[d] = "count" => read_idx' = 0
  BY <1>1, <1>3 DEF CleanRing
<1>. QED
  BY <1>1, <1>2, <1>4, ZeroStep DEF CleanRing

LEMMA ZeroReadStep ==
  ASSUME TypeOK, LockOwned, CleanRing, NEW c \in Controllers, StartRead(c)
  PROVE  CleanRing'
<1>1. c \in Resetting
  BY DEF StartRead, ZeroRead, Resetting
<1>2. /\ buffer_sem = 0 /\ Holding = {} /\ ~is_running /\ write_idx = 0
      /\ read_idx' = 0 /\ cpc' = [cpc EXCEPT ![c] = "count"]
      /\ UNCHANGED <<is_running, write_idx, frame_count>>
      /\ UNCHANGED <<slots, buffer_sem, total_frames, delivered, rpc, src, head>>
  BY <1>1 DEF CleanRing, StartRead, ZeroRead, CGoto, ControlUnchanged, reader
<1>3. write_idx' = After(read_idx', Unread')
  BY <1>2, ZeroStep
<1>. QED
  BY <1>2, <1>3, ZeroStep DEF CleanRing

LEMMA ZeroCountStep ==
  ASSUME TypeOK, LockOwned, CleanRing, NEW c \in Controllers, StartCount(c)
  PROVE  CleanRing'
<1>1. c \in Resetting
  BY DEF StartCount, Resetting
<1>2. /\ buffer_sem = 0 /\ Holding = {} /\ ~is_running /\ write_idx = 0
      /\ frame_count' = 0 /\ cpc' = [cpc EXCEPT ![c] = "arm"] /\ cpc[c] = "count"
      /\ UNCHANGED <<is_running, write_idx, read_idx>>
      /\ UNCHANGED <<slots, buffer_sem, total_frames, delivered, rpc, src, head>>
  BY <1>1 DEF CleanRing, StartCount, CGoto, ControlUnchanged, reader
<1>3. read_idx' = 0 /\ write_idx' = 0
  BY <1>1, <1>2 DEF CleanRing
<1>4. write_idx' = After(read_idx', Unread')
  BY <1>2, <1>3, ZeroStep
<1>. QED
  BY <1>2, <1>3, <1>4, ZeroStep DEF CleanRing

\* A reader that only moves on, with the same token and frame in hand.
LEMMA MoveStep ==
  ASSUME TypeOK, LockOwned, CleanRing, NEW r \in Readers,
         \/ BeginRead(r) \/ Timeout(r) \/ TakeLock(r) \/ BeginCopy(r) \/ LoadCount(r)
  PROVE  CleanRing'
<1>1. /\ UNCHANGED <<slots, write_idx, read_idx, frame_count, buffer_sem,
                     total_frames, delivered>>
      /\ \A q \in Readers \ {r} :
           rpc'[q] = rpc[q] /\ src'[q] = src[q] /\ head'[q] = head[q]
      /\ \/ rpc[r] = "idle"  /\ rpc'[r] = "wait"
         \/ rpc[r] = "wait"  /\ rpc'[r] = "idle"
         \/ rpc[r] = "lock"  /\ rpc'[r] = "alloc" /\ src'[r] = read_idx
         \/ rpc[r] = "alloc" /\ rpc'[r] = "copy" /\ src' = src
                             /\ head'[r] = slots[src[r]]
         \/ rpc[r] = "load"  /\ rpc'[r] = "store"
  BY DEF TypeOK, BeginRead, Timeout, TakeLock, BeginCopy, LoadCount, Goto,
         ReaderUnchanged
<1>2. Holding' = Holding /\ Advanced' = Advanced
  BY <1>1 DEF Holding, Advanced
<1>3. Unread' = Unread
  BY <1>1, <1>2 DEF Unread
<1>4. rpc[r] = "alloc" => slots[src[r]] = delivered + 1
  <2>. SUFFICES ASSUME rpc[r] = "alloc"
                PROVE  slots[src[r]] = delivered + 1
    OBVIOUS
  <2>1. src[r] = After(read_idx, 0)
    BY AfterFacts DEF CleanRing, TypeOK
  <2>2. Advanced = {} /\ r \in Holding
    BY DEF LockOwned, InSection, Advanced, Holding
  <2>3. Cardinality(Advanced) = 0 /\ Cardinality(Holding) >= 1
        /\ Cardinality(Holding) \in Nat
    BY <2>2, Counts, FS_EmptySet
  <2>4. frame_count = buffer_sem + Cardinality(Holding) /\ buffer_sem \in Nat
    BY DEF CleanRing, TypeOK
  <2>5. 0 \in 0 .. Unread - 1
    BY <2>3, <2>4, Numbers
  <2>6. slots[After(read_idx, 0)] = delivered + 0 + 1
    BY <2>5 DEF CleanRing
  <2>. QED
    BY <2>1, <2>6, Numbers
<1>5. \A q \in Readers :
        /\ rpc'[q] \in {"alloc", "copy"} => src'[q] = read_idx'
        /\ rpc'[q] = "copy" => head'[q] = delivered' + 1
  <2>. TAKE q \in Readers
  <2>1. CASE q # r
    BY <1>1, <2>1 DEF CleanRing
  <2>2. CASE q = r
    BY <1>1, <1>4, <2>2 DEF CleanRing
  <2>. QED
    BY <2>1, <2>2
<1>6. Resetting' = Resetting /\ UNCHANGED <<cpc, is_running>>
  BY DEF BeginRead, Timeout, TakeLock, BeginCopy, LoadCount, ReaderUnchanged, Resetting
<1>. QED
  BY <1>1, <1>2, <1>3, <1>5, <1>6 DEF CleanRing, After

\* A token passes from the semaphore to the reader.
LEMMA TokenStep ==
  ASSUME TypeOK, LockOwned, CleanRing, NEW r \in Readers, TakeToken(r)
  PROVE  CleanRing'
<1>1. /\ UNCHANGED <<slots, write_idx, read_idx, frame_count, total_frames,
                     delivered, src, head>>
      /\ buffer_sem > 0 /\ buffer_sem' = buffer_sem - 1 /\ buffer_sem \in Nat
      /\ rpc[r] = "wait" /\ rpc' = [rpc EXCEPT ![r] = "lock"]
      /\ rpc \in [Readers -> ReaderStates]
  BY DEF TypeOK, TakeToken, Goto, ReaderUnchanged
<1>2. Holding' = Holding \cup {r} /\ r \notin Holding
  BY <1>1 DEF Holding
<1>3. Advanced' = Advanced
  BY <1>1 DEF Advanced
<1>4. Cardinality(Holding') = Cardinality(Holding) + 1
  BY <1>2, Counts, FS_AddElement
<1>5. Unread' = Unread
  BY <1>1, <1>3 DEF Unread
<1>6. frame_count' = buffer_sem' + Cardinality(Holding')
  BY <1>1, <1>4, Counts DEF CleanRing
<1>7. \A q \in Readers :
        /\ rpc'[q] \in {"alloc", "copy"} => src'[q] = read_idx'
        /\ rpc'[q] = "copy" => head'[q] = delivered' + 1
  BY <1>1 DEF CleanRing
<1>8. Resetting' = {} /\ write_idx = After(read_idx, Unread)
  BY <1>1, InUse DEF TakeToken, ReaderUnchanged
<1>. QED
  BY <1>1, <1>5, <1>6, <1>7, <1>8 DEF CleanRing, After

\* The oldest frame is delivered: the unread ones start one slot further.
LEMMA DeliverStep ==
  ASSUME TypeOK, LockOwned, CleanRing, NEW r \in Readers, EndCopy(r)
  PROVE  CleanRing'
<1>1. /\ UNCHANGED <<slots, write_idx, frame_count, buffer_sem, total_frames,
                     src, head>>
      /\ read_idx' = Advance(read_idx) /\ delivered' = delivered + 1
      /\ rpc[r] = "copy" /\ rpc' = [rpc EXCEPT ![r] = "load"]
      /\ rpc \in [Readers -> ReaderStates]
  BY DEF TypeOK, EndCopy, Goto, ReaderUnchanged
<1>2. Holding' = Holding /\ r \in Holding
  BY <1>1 DEF Holding
<1>3. Advanced = {} /\ \A q \in Readers \ {r} : rpc[q] \notin InSection
  BY <1>1 DEF LockOwned, InSection, Advanced
<1>4. Advanced' = {r}
  BY <1>1, <1>3 DEF Advanced
<1>5. Cardinality(Advanced) = 0 /\ Cardinality(Advanced') = 1
  BY <1>3, <1>4, FS_EmptySet, FS_Singleton
<1>6. frame_count >= 1
  BY <1>2, Counts DEF CleanRing, TypeOK
<1>7. Unread = frame_count /\ Unread' = Unread - 1
      /\ Unread \in 1 .. AUDIO_BUFFER_COUNT
  BY <1>1, <1>5, <1>6, Numbers DEF Unread
<1>8. total_frames' = delivered' + Unread'
  BY <1>1, <1>7, Numbers DEF CleanRing
<1>9. write_idx' = After(read_idx', Unread')
  <2>1. Unread - 1 \in 0 .. AUDIO_BUFFER_COUNT - 1 /\ (Unread - 1) + 1 = Unread
    BY <1>7, RingAssumption
  <2>2. After(Advance(read_idx), Unread - 1) = After(read_idx, (Unread - 1) + 1)
    BY <2>1, Numbers, AfterFacts
  <2>3. write_idx = After(read_idx, Unread)
    BY <1>2, InUse
  <2>. QED
    BY <1>1, <1>7, <2>1, <2>2, <2>3 DEF After
<1>10. ASSUME NEW k \in 0 .. Unread' - 1
       PROVE  slots'[After(read_idx', k)] = delivered' + k + 1
  <2>1. k \in 0 .. AUDIO_BUFFER_COUNT - 1 /\ k + 1 \in 0 .. Unread - 1
    BY <1>7, RingAssumption
  <2>2. After(Advance(read_idx), k) = After(read_idx, k + 1)
    BY <2>1, Numbers, AfterFacts
  <2>3. slots[After(read_idx, k + 1)] = delivered + (k + 1) + 1
    BY <2>1 DEF CleanRing
  <2>. QED
    BY <1>1, <2>1, <2>2, <2>3, Numbers DEF After
<1>11. \A q \in Readers :
         /\ rpc'[q] \in {"alloc", "copy"} => src'[q] = read_idx'
         /\ rpc'[q] = "copy" => head'[q] = delivered' + 1
  BY <1>1, <1>3 DEF InSection
<1>12. Resetting' = {}
  BY <1>2, InUse DEF EndCopy, ReaderUnchanged
<1>. QED
  BY <1>1, <1>2, <1>8, <1>9, <1>10, <1>11, <1>12 DEF CleanRing, Unread

\* The count follows, when no interrupt came between its load and its store.
LEMMA CountStep ==
  ASSUME TypeOK, LockOwned, CleanRing, NEW r \in Readers, StoreCount(r),
         faults' = {}
  PROVE  CleanRing'
<1>1. /\ UNCHANGED <<slots, write_idx, read_idx, buffer_sem, total_frames,
                     delivered, src, head>>
      /\ frame_count = loaded[r] /\ frame_count' = Decrement(loaded[r])
      /\ rpc[r] = "store" /\ rpc' = [rpc EXCEPT ![r] = "idle"]
      /\ rpc \in [Readers -> ReaderStates]
  BY DEF TypeOK, StoreCount, Store, Goto, ReaderUnchanged
<1>2. Holding' = Holding \ {r} /\ r \in Holding
  BY <1>1 DEF Holding
<1>3. Advanced = {r} /\ Advanced' = {}
  BY <1>1 DEF LockOwned, InSection, Advanced
<1>4. Cardinality(Holding') = Cardinality(Holding) - 1
  BY <1>2, Counts, FS_RemoveElement
<1>5. Cardinality(Advanced) = 1 /\ Cardinality(Advanced') = 0
  BY <1>3, FS_EmptySet, FS_Singleton
<1>6. frame_count >= 1 /\ frame_count' = frame_count - 1
  BY <1>1, <1>2, Counts DEF CleanRing, TypeOK, Decrement
<1>7. Unread' = Unread
  BY <1>1, <1>5, <1>6, Numbers DEF Unread
<1>8. /\ frame_count' = buffer_sem' + Cardinality(Holding')
      /\ frame_count' <= AUDIO_BUFFER_COUNT
  BY <1>1, <1>4, <1>6, Counts, Numbers, RingAssumption DEF CleanRing, TypeOK
<1>9. \A q \in Readers :
        /\ rpc'[q] \in {"alloc", "copy"} => src'[q] = read_idx'
        /\ rpc'[q] = "copy" => head'[q] = delivered' + 1
  BY <1>1 DEF CleanRing
<1>10. Resetting' = {} /\ write_idx = After(read_idx, Unread)
  BY <1>2, InUse DEF StoreCount, Store, ReaderUnchanged
<1>. QED
  BY <1>1, <1>7, <1>8, <1>9, <1>10 DEF CleanRing, After

-----------------------------------------------------------------------------
(* The theorems. *)

LEMMA RingInit == Init => RingInv
<1>. SUFFICES ASSUME Init
              PROVE  RingInv
  OBVIOUS
<1>1. TypeOK
  BY TypeInit
<1>2. LockOwned
  BY ThreadAssumption DEF Init, LockOwned, InSection
<1>3. RunningIsArmed
  BY DEF Init, RunningIsArmed
<1>4. Holding = {} /\ Advanced = {}
  BY DEF Init, Holding, Advanced
<1>5. Cardinality(Holding) = 0 /\ Cardinality(Advanced) = 0
  BY <1>4, FS_EmptySet
<1>6. Unread = 0
  BY <1>5 DEF Init, Unread
<1>7. After(0, 0) = 0
  BY AfterFacts, RingAssumption DEF Slots
<1>8. CleanRing
  BY <1>5, <1>6, <1>7, RingAssumption DEF Init, CleanRing, Resetting
<1>. QED
  BY <1>1, <1>2, <1>3, <1>8, CleanRingIs DEF RingInv

LEMMA CleanStep ==
  ASSUME TypeOK, LockOwned, CleanRing, [Next]_vars, faults' = {}
  PROVE  CleanRing'
<1>1. CASE RxHalfCplt \/ RxCplt
  <2>1. /\ ProcessHalf /\ UNCHANGED <<read_idx, delivered, rpc, src, head, cpc, is_running>>
        /\ Resetting' = Resetting
    BY <1>1 DEF RxHalfCplt, RxCplt, IsrUnchanged, reader, Resetting
  <2>2. CASE frame_count' # frame_count
    BY <2>1, <2>2, PutStep
  <2>3. CASE frame_count' = frame_count
    <3>1. UNCHANGED ring
      BY <2>1, <2>3 DEF ProcessHalf, Process, TypeOK
    <3>. QED
      BY <2>1, <3>1, SameStep DEF CleanRing
  <2>. QED
    BY <2>2, <2>3
<1>2. CASE DmaError
  BY <1>2, SameStep DEF DmaError, AfterError, IsrUnchanged, reader, Resetting, CleanRing
<1>3. ASSUME NEW r \in Readers, Read(r)
      PROVE  CleanRing'
  <2>1. CASE BeginRead(r) \/ Timeout(r) \/ TakeLock(r) \/ BeginCopy(r) \/ LoadCount(r)
    BY <2>1, MoveStep
  <2>2. CASE TakeToken(r)
    BY <2>2, TokenStep
  <2>3. CASE MallocFails(r)
    BY <2>3 DEF MallocFails
  <2>4. CASE EndCopy(r)
    BY <2>4, DeliverStep
  <2>5. CASE StoreCount(r)
    BY <2>5, CountStep
  <2>. QED
    BY <1>3, <2>1, <2>2, <2>3, <2>4, <2>5 DEF Read
<1>4. ASSUME NEW c \in Controllers, Control(c)
      PROVE  CleanRing'
  <2>1. CASE StartWrite(c) \/ StartRead(c) \/ StartCount(c)
    BY <2>1, ZeroWriteStep, ZeroReadStep, ZeroCountStep
  <2>2. CASE InitDevice(c) \/ StartCheck(c) \/ StartArm(c) \/ StartFlag(c)
    <3>1. UNCHANGED <<ring, read_idx, delivered, rpc, src, head>>
      BY <2>2 DEF InitDevice, StartCheck, StartArm, StartFlag, ControlUnchanged, ring, reader
    <3>2. Resetting' = Resetting /\ \A d \in Resetting : cpc'[d] = cpc[d]
      BY <2>2 DEF TypeOK, InitDevice, StartCheck, StartArm, StartFlag, CGoto, Resetting
    <3>3. Resetting # {} => ~is_running'
      BY <2>2 DEF InitDevice, StartCheck, StartArm, StartFlag, CleanRing
    <3>. QED
      BY <3>1, <3>2, <3>3, SameStep
  <2>3. CASE StopCheck(c) \/ StopHalt(c) \/ StopFlag(c)
    <3>1. UNCHANGED <<ring, read_idx, delivered, rpc, src, head>>
      BY <2>3 DEF StopCheck, StopHalt, StopFlag, Unflag, ControlUnchanged, ring, reader
    <3>2. Resetting' = Resetting /\ \A d \in Resetting : cpc'[d] = cpc[d]
      BY <2>3 DEF TypeOK, StopCheck, StopHalt, StopFlag, Unflag, CGoto, Resetting
    <3>3. Resetting # {} => ~is_running'
      BY <2>3 DEF StopCheck, StopHalt, StopFlag, Unflag, CleanRing
    <3>. QED
      BY <3>1, <3>2, <3>3, SameStep
  <2>. QED
    BY <1>4, <2>1, <2>2, <2>3 DEF Control
<1>5. CASE UNCHANGED vars
  BY <1>5, SameStep DEF vars, reader, history, Resetting, CleanRing
<1>. QED
  BY <1>1, <1>2, <1>3, <1>4, <1>5 DEF Next, Isr

LEMMA RingStep == RingInv /\ [Next]_vars => RingInv'
<1>. SUFFICES ASSUME RingInv, [Next]_vars
              PROVE  RingInv'
  OBVIOUS
<1>1. TypeOK' /\ LockOwned' /\ RunningIsArmed'
  BY TypeStep, LockStep, ArmedStep DEF RingInv
<1>2. ASSUME faults' = {}
      PROVE  CleanRing'
  <2>1. faults = {}
    BY <1>2, FaultsStay
  <2>2. CleanRing
    BY <2>1, CleanRingIs DEF RingInv
  <2>. QED
    BY <1>2, <2>2, CleanStep DEF RingInv
<1>3. TokensMatchFrames' /\ RingInOrder' /\ CopyInPlace' /\ ZeroesEmpty'
  BY <1>2 DEF CleanRing, TokensMatchFrames, RingInOrder, CopyInPlace, ZeroesEmpty
<1>. QED
  BY <1>1, <1>3 DEF RingInv

THEOREM RingInvariant == Spec => []RingInv
BY RingInit, RingStep, PTL DEF Spec

\* As long as none of the six faults has happened, the semaphore, the frames
\* in the hands of readers and frame_count agree, for any ring, any number of
\* readers and any number of threads that start and stop the capture.
THEOREM TokensAlwaysMatch == Spec => []TokensMatchFrames
<1>1. RingInv => TokensMatchFrames
  BY DEF RingInv
<1>. QED
  BY <1>1, RingInvariant, PTL

\* ... the ring holds exactly the frames captured and not yet delivered.
THEOREM RingAlwaysInOrder == Spec => []RingInOrder
<1>1. RingInv => RingInOrder
  BY DEF RingInv
<1>. QED
  BY <1>1, RingInvariant, PTL

\* ... a capture that runs has its DMA armed.
THEOREM RunningAlwaysArmed == Spec => []RunningIsArmed
<1>1. RingInv => RunningIsArmed
  BY DEF RingInv
<1>. QED
  BY <1>1, RingInvariant, PTL

\* ... every frame handed to a reader is the next one, and whole.
THEOREM ReadsAlwaysInOrder == Spec => ReadsInOrder
<1> DEFINE Due == \A r \in Readers :
                    rpc[r] = "copy" /\ rpc'[r] = "load" /\ faults = {}
                      => /\ head[r] = delivered + 1
                         /\ slots[src[r]] = delivered + 1
<1>1. RingInv => Due
  <2>. SUFFICES ASSUME RingInv, NEW r \in Readers, rpc[r] = "copy", faults = {}
                PROVE  head[r] = delivered + 1 /\ slots[src[r]] = delivered + 1
    OBVIOUS
  <2>1. TypeOK /\ LockOwned /\ CleanRing
    BY CleanRingIs DEF RingInv
  <2>2. head[r] = delivered + 1 /\ src[r] = After(read_idx, 0)
    BY <2>1, AfterFacts DEF CleanRing, TypeOK
  <2>3. Advanced = {} /\ r \in Holding
    BY <2>1 DEF LockOwned, InSection, Advanced, Holding
  <2>4. Cardinality(Advanced) = 0 /\ Cardinality(Holding) >= 1
        /\ Cardinality(Holding) \in Nat
    BY <2>1, <2>3, Counts, FS_EmptySet
  <2>5. 0 \in 0 .. Unread - 1
    BY <2>1, <2>4, Numbers DEF CleanRing, TypeOK
  <2>6. slots[After(read_idx, 0)] = delivered + 0 + 1
    BY <2>1, <2>5 DEF CleanRing
  <2>. QED
    BY <2>1, <2>2, <2>6, Numbers
<1>2. RingInv /\ [Next]_vars => [Due]_vars
  BY <1>1
<1>. QED
  BY <1>2, RingInvariant, PTL DEF Spec, ReadsInOrder

\* ... the interrupt refuses a frame only when no more than one buffer is
\* free of unread frames.
THEOREM RefusesOnlyFull == Spec => RefusesOnlyWhenFull
<1> DEFINE Full == overrun_count' # overrun_count /\ faults = {}
                     => Unread >= AUDIO_BUFFER_COUNT - 1
<1>1. RingInv /\ [Next]_vars => [Full]_vars
  <2>. SUFFICES ASSUME RingInv, [Next]_vars, overrun_count' # overrun_count,
                       faults = {}
                PROVE  Unread >= AUDIO_BUFFER_COUNT - 1
    OBVIOUS
  <2>1. TypeOK /\ LockOwned /\ CleanRing
    BY CleanRingIs DEF RingInv
  <2>2. RxHalfCplt \/ RxCplt
    BY DEF Next, Isr, DmaError, AfterError, vars,
           Read, BeginRead, TakeToken, Timeout, TakeLock, MallocFails,
           BeginCopy, EndCopy, LoadCount, StoreCount, Store, ReaderUnchanged,
           Control, InitDevice, StartCheck, StartWrite, StartRead, ZeroRead, StartCount, StartArm,
           StartFlag,
           StopCheck, StopHalt, StopFlag, Unflag, ControlUnchanged
  <2>3. frame_count >= AUDIO_BUFFER_COUNT
    BY <2>2 DEF RxHalfCplt, RxCplt, ProcessHalf, Process
  <2>4. Cardinality(Advanced) \in {0, 1}
    BY <2>1, Counts
  <2>. QED
    BY <2>1, <2>3, <2>4, Numbers, RingAssumption
<1>. QED
  BY <1>1, RingInvariant, PTL DEF Spec, RefusesOnlyWhenFull

-----------------------------------------------------------------------------
(* The driver implements the bounded channel FrameChannel.                 *)
(*                                                                         *)
(* Under the invariant RingInv, as long as there is no fault, the frames   *)
(* in the channel are determined by two numbers: the frames captured and   *)
(* the frames delivered.  A step of the driver moves at most one of them,  *)
(* or refuses a frame, and that is a step of the channel.                  *)

\* The frames after the d-th up to the n-th.
Run(d, n) == [k \in 1 .. n - d |-> d + k]

\* What a sequence that is not empty is made of.
LEMMA HeadAndTail ==
  ASSUME NEW S, NEW q \in Seq(S), q # <<>>
  PROVE  /\ Head(q) = q[1]
         /\ Tail(q) \in Seq(S) /\ Len(Tail(q)) = Len(q) - 1
         /\ \A i \in 1 .. Len(q) - 1 : Tail(q)[i] = q[i + 1]
OBVIOUS

LEMMA RunFacts ==
  ASSUME NEW d \in Nat, NEW n \in Nat, d <= n
  PROVE  /\ Run(d, n) \in Seq(Nat)
         /\ Len(Run(d, n)) = n - d
         /\ Append(Run(d, n), n + 1) = Run(d, n + 1)
         /\ d < n => /\ Run(d, n) # <<>>
                     /\ Head(Run(d, n)) = d + 1
                     /\ Tail(Run(d, n)) = Run(d + 1, n)
<1>1. Run(d, n) \in Seq(Nat) /\ Len(Run(d, n)) = n - d
  BY DEF Run
<1>2. Append(Run(d, n), n + 1) = Run(d, n + 1)
  BY <1>1 DEF Run
<1>3. ASSUME d < n
      PROVE  /\ Run(d, n) # <<>>
             /\ Head(Run(d, n)) = d + 1
             /\ Tail(Run(d, n)) = Run(d + 1, n)
  <2>1. Run(d, n) # <<>>
    BY <1>1, <1>3
  <2>2. /\ Head(Run(d, n)) = Run(d, n)[1]
        /\ Tail(Run(d, n)) \in Seq(Nat) /\ Len(Tail(Run(d, n))) = n - d - 1
        /\ \A i \in 1 .. n - d - 1 : Tail(Run(d, n))[i] = Run(d, n)[i + 1]
    BY <1>1, <2>1, HeadAndTail
  <2>3. Run(d, n)[1] = d + 1
        /\ \A i \in 1 .. n - d - 1 : Run(d, n)[i + 1] = d + 1 + i
    BY <1>3 DEF Run
  <2>4. /\ Run(d + 1, n) \in Seq(Nat) /\ Len(Run(d + 1, n)) = n - d - 1
        /\ \A i \in 1 .. n - d - 1 : Run(d + 1, n)[i] = d + 1 + i
    BY <1>3 DEF Run
  <2>5. Tail(Run(d, n)) = Run(d + 1, n)
    BY <2>2, <2>3, <2>4
  <2>. QED
    BY <2>1, <2>2, <2>3, <2>5
<1>. QED
  BY <1>1, <1>2, <1>3

\* The queue of the refinement mapping.
Queue == IF faults = {}
         THEN [k \in 1 .. Unread |-> slots[After(read_idx, k - 1)]]
         ELSE <<>>

QueueFacts ==
  /\ Queue = Run(delivered, total_frames)
  /\ delivered \in Nat /\ total_frames \in Nat
  /\ total_frames - delivered = Unread
  /\ delivered <= total_frames

LEMMA QueueIs == RingInv /\ faults = {} => QueueFacts
<1>. SUFFICES ASSUME RingInv, faults = {}
              PROVE  QueueFacts
  OBVIOUS
<1>1. TypeOK /\ LockOwned /\ CleanRing
  BY CleanRingIs DEF RingInv
<1>2. /\ delivered \in Nat /\ total_frames \in Nat
      /\ Unread \in 0 .. AUDIO_BUFFER_COUNT
      /\ total_frames = delivered + Unread
  BY <1>1, Numbers DEF CleanRing
<1>3. ASSUME NEW k \in 1 .. Unread
      PROVE  slots[After(read_idx, k - 1)] = delivered + k
  <2>1. k - 1 \in 0 .. Unread - 1
    BY <1>2, RingAssumption
  <2>2. slots[After(read_idx, k - 1)] = delivered + (k - 1) + 1
    BY <1>1, <2>1 DEF CleanRing
  <2>. QED
    BY <1>2, <2>2
<1>4. Queue = [k \in 1 .. Unread |-> delivered + k]
  BY <1>3 DEF Queue
<1>5. total_frames - delivered = Unread /\ delivered <= total_frames
  BY <1>2, RingAssumption
<1>. QED
  BY <1>2, <1>4, <1>5 DEF Run, QueueFacts

LEMMA QueueIsAfter == RingInv' /\ (faults = {})' => QueueFacts'
BY QueueIs, PTL

\* What a step without a fault may do to the numbers the channel counts.
Stores == /\ frame_count < AUDIO_BUFFER_COUNT
          /\ total_frames' = total_frames + 1
          /\ UNCHANGED <<delivered, overrun_count>>
Refuses == /\ frame_count >= AUDIO_BUFFER_COUNT
           /\ overrun_count' = overrun_count + 1
           /\ UNCHANGED <<total_frames, delivered>>
Delivers == /\ delivered' = delivered + 1
            /\ UNCHANGED <<total_frames, overrun_count>>
Rests == UNCHANGED <<total_frames, delivered, overrun_count>>

LEMMA OneMove ==
  ASSUME TypeOK, [Next]_vars
  PROVE  Stores \/ Refuses \/ Delivers \/ Rests
<1>1. CASE RxHalfCplt \/ RxCplt
  <2>1. ProcessHalf /\ UNCHANGED delivered
    BY <1>1 DEF RxHalfCplt, RxCplt, IsrUnchanged
  <2>2. CASE UNCHANGED ring
    BY <2>1, <2>2 DEF ProcessHalf, Process, ring, Refuses, Rests
  <2>3. CASE ~UNCHANGED ring
    <3>1. /\ ~(frame_count >= AUDIO_BUFFER_COUNT)
          /\ total_frames' = total_frames + 1
          /\ UNCHANGED overrun_count
      BY <2>1, <2>3, Zenon DEF ProcessHalf, Process
    <3>. QED
      BY <2>1, <3>1, RingAssumption DEF TypeOK, Stores
  <2>. QED
    BY <2>2, <2>3
<1>2. CASE DmaError
  BY <1>2 DEF DmaError, AfterError, IsrUnchanged, ring, Rests
<1>3. ASSUME NEW r \in Readers, Read(r)
      PROVE  Delivers \/ Rests
  BY <1>3 DEF Read, BeginRead, TakeToken, Timeout, TakeLock, MallocFails, BeginCopy,
              EndCopy, LoadCount, StoreCount, Store, ReaderUnchanged, Delivers, Rests
<1>4. ASSUME NEW c \in Controllers, Control(c)
      PROVE  Rests
  BY <1>4 DEF Control, InitDevice, StartCheck, StartWrite, StartRead, ZeroRead, StartCount, StartArm,
           StartFlag,
              StopCheck, StopHalt, StopFlag, Unflag, ControlUnchanged, Rests
<1>5. CASE UNCHANGED vars
  BY <1>5 DEF vars, ring, history, Rests
<1>. QED
  BY <1>1, <1>2, <1>3, <1>4, <1>5 DEF Next, Isr

LEMMA ChannelInit == Init => Channel!Init
<1>. SUFFICES ASSUME Init
              PROVE  Channel!Init
  OBVIOUS
<1>1. RingInv /\ faults = {} /\ total_frames = 0 /\ delivered = 0 /\ overrun_count = 0
  BY RingInit DEF Init
<1>2. Queue = Run(0, 0)
  BY <1>1, QueueIs DEF QueueFacts
<1>3. Queue = <<>>
  BY <1>2, RunFacts DEF Run
<1>. QED
  BY <1>1, <1>3 DEF Channel!Init, Queue

LEMMA ChannelStep ==
  ASSUME RingInv, RingInv', [Next]_vars
  PROVE  [Channel!Next]_(Channel!vars)
<1>1. CASE faults' # {}
  BY <1>1 DEF Channel!Next, Channel!Void
<1>2. CASE faults' = {}
  <2>1. faults = {}
    BY <1>2, FaultsStay
  <2>2. /\ Queue = Run(delivered, total_frames)
        /\ delivered \in Nat /\ total_frames \in Nat
        /\ delivered <= total_frames
        /\ total_frames - delivered = Unread
    BY <2>1, QueueIs DEF QueueFacts
  <2>3. /\ Queue' = Run(delivered', total_frames')
        /\ delivered' \in Nat /\ total_frames' \in Nat
        /\ delivered' <= total_frames'
    BY <1>2, QueueIsAfter DEF QueueFacts, Run
  <2>4. Len(Queue) = Unread
    BY <2>2, RunFacts
  <2>5. TypeOK /\ LockOwned /\ CleanRing
    BY <2>1, CleanRingIs DEF RingInv
  <2>6. Unread = frame_count - Cardinality(Advanced)
        /\ Cardinality(Advanced) \in {0, 1} /\ frame_count \in Nat
    BY <2>5, Numbers, Counts
  <2>7. CASE Stores
    <3>1. Len(Queue) < AUDIO_BUFFER_COUNT
      BY <2>4, <2>6, <2>7, RingAssumption DEF Stores
    <3>2. Queue' = Append(Queue, total_frames')
      BY <2>2, <2>3, <2>7, RunFacts DEF Stores
    <3>3. Channel!Put
      BY <1>2, <2>1, <2>7, <3>1, <3>2 DEF Channel!Put, Stores, Queue
    <3>. QED
      BY <1>2, <2>1, <3>3 DEF Channel!Next
  <2>8. CASE Refuses
    <3>1. Len(Queue) >= AUDIO_BUFFER_COUNT - 1
      BY <2>4, <2>6, <2>8, RingAssumption DEF Refuses
    <3>2. Queue' = Queue
      BY <2>2, <2>3, <2>8 DEF Refuses
    <3>3. Channel!Refuse
      BY <1>2, <2>1, <2>8, <3>1, <3>2 DEF Channel!Refuse, Refuses, Queue
    <3>. QED
      BY <1>2, <2>1, <3>3 DEF Channel!Next
  <2>9. CASE Delivers
    <3>1. delivered < total_frames
      BY <2>2, <2>3, <2>9 DEF Delivers
    <3>2. Queue # <<>> /\ delivered' = Head(Queue) /\ Queue' = Tail(Queue)
      BY <2>2, <2>3, <2>9, <3>1, RunFacts DEF Delivers
    <3>3. Channel!Get
      BY <1>2, <2>1, <2>9, <3>2 DEF Channel!Get, Delivers, Queue
    <3>. QED
      BY <1>2, <2>1, <3>3 DEF Channel!Next
  <2>10. CASE Rests
    <3>1. Queue' = Queue
      BY <2>2, <2>3, <2>10 DEF Rests
    <3>. QED
      BY <1>2, <2>1, <2>10, <3>1 DEF Channel!vars, Rests, Queue
  <2>. QED
    BY <2>5, <2>7, <2>8, <2>9, <2>10, OneMove
<1>. QED
  BY <1>1, <1>2

\* Until one of the six faults happens the driver is a bounded queue: frames
\* come out once and in the order in which they went in, and a frame is
\* refused only when there is hardly a free buffer.  (inmp441_read_frame
\* against process_dma_data, for any ring and any number of threads)
THEOREM DriverIsChannel == Spec => ImplementsChannel
<1>1. RingInv /\ RingInv' /\ [Next]_vars => [Channel!Next]_(Channel!vars)
  BY ChannelStep
<1>. QED
  BY <1>1, ChannelInit, RingInvariant, PTL DEF Spec, ImplementsChannel, Channel!Spec
==============================================================================
