------------------------- MODULE VadRecorder_proofs -------------------------
(***************************************************************************)
(* Proofs about VadRecorder, for every hangover, minimum, frame size and   *)
(* capacity.                                                               *)
(***************************************************************************)
EXTENDS VadRecorder, FiniteSetTheorems, WellFoundedInduction, TLAPS

\* One more frame takes FRAME_SIZE samples more.
LEMMA OneMoreFrame ==
  ASSUME NEW n \in Nat
  PROVE  /\ (n + 1) * FRAME_SIZE = n * FRAME_SIZE + FRAME_SIZE
         /\ n * FRAME_SIZE \in Nat
         /\ 0 * FRAME_SIZE = 0
BY VadAssumption

\* What appending the frame being heard does to a recording.
LEMMA KeptFacts ==
  ASSUME NEW rec \in Seq(Nat), heard \in Seq(BOOLEAN),
         Len(rec) * FRAME_SIZE <= CAPACITY
  PROVE  /\ Kept(rec) \in Seq(Nat)
         /\ Len(Kept(rec)) * FRAME_SIZE <= CAPACITY
         /\ Kept(rec) = IF Fits(rec) THEN Append(rec, Len(heard) + 1) ELSE rec
<1>1. CASE Fits(rec)
  <2>1. Kept(rec) = Append(rec, Len(heard) + 1)
    BY <1>1 DEF Kept
  <2>2. Len(Kept(rec)) = Len(rec) + 1 /\ Kept(rec) \in Seq(Nat) /\ Len(rec) \in Nat
    BY <2>1
  <2>. QED
    BY <1>1, <2>1, <2>2, OneMoreFrame DEF Fits
<1>2. CASE ~Fits(rec)
  BY <1>2 DEF Kept
<1>. QED
  BY <1>1, <1>2

-----------------------------------------------------------------------------
(* Types and the size of the buffer. *)

SizeInv == TypeOK /\ StaysInBuffer

LEMMA SizeInit == Init => SizeInv
<1>1. /\ <<>> \in Seq(Nat) /\ <<>> \in Seq(BOOLEAN)
      /\ Len(<<>>) * FRAME_SIZE <= CAPACITY
      /\ 0 \in 0 .. VAD_HANGOVER_FRAMES
  BY VadAssumption, OneMoreFrame
<1>. SUFFICES ASSUME Init
              PROVE  SizeInv
  OBVIOUS
<1>2. recording \in Seq(Nat) /\ heard \in Seq(BOOLEAN) /\ delivered \in Seq(Nat)
  BY <1>1 DEF Init
<1>3. StaysInBuffer
  BY <1>1 DEF Init, StaysInBuffer
<1>4. /\ running \in BOOLEAN /\ state \in {"IDLE", "RECORDING"}
      /\ vad_hangover_count \in 0 .. VAD_HANGOVER_FRAMES
      /\ speech_frame_count \in Nat
  BY <1>1 DEF Init
<1>. QED
  BY <1>2, <1>3, <1>4 DEF SizeInv, TypeOK

LEMMA SizeStep == SizeInv /\ [Next]_vars => SizeInv'
<1>. SUFFICES ASSUME SizeInv, [Next]_vars
              PROVE  SizeInv'
  OBVIOUS
<1>0. /\ <<>> \in Seq(Nat) /\ Len(<<>>) * FRAME_SIZE <= CAPACITY
      /\ TypeOK /\ StaysInBuffer
  BY VadAssumption, OneMoreFrame DEF SizeInv
<1>1. CASE Start
  BY <1>0, <1>1, VadAssumption DEF Start, SizeInv, TypeOK, StaysInBuffer
<1>2. CASE Stop
  BY <1>0, <1>2 DEF Stop, SizeInv, TypeOK, StaysInBuffer
<1>3. CASE Ignore
  BY <1>0, <1>3 DEF Ignore, Heard, SizeInv, TypeOK, StaysInBuffer
<1>4. CASE Begin
  <2>1. recording' = Kept(<<>>) /\ heard \in Seq(BOOLEAN)
    BY <1>0, <1>4 DEF Begin, TypeOK
  <2>2. recording' \in Seq(Nat) /\ StaysInBuffer'
    BY <1>0, <2>1, KeptFacts DEF StaysInBuffer
  <2>. QED
    BY <1>0, <1>4, <2>2, VadAssumption DEF Begin, Heard, SizeInv, TypeOK
<1>5. CASE Continue
  <2>1. recording' = Kept(recording)
    BY <1>5 DEF Continue
  <2>2. recording' \in Seq(Nat) /\ StaysInBuffer'
    BY <1>0, <2>1, KeptFacts DEF StaysInBuffer, TypeOK
  <2>. QED
    BY <1>0, <1>5, <2>2, VadAssumption DEF Continue, Heard, SizeInv, TypeOK
<1>6. CASE HangOver
  <2>1. recording' = Kept(recording)
    BY <1>6 DEF HangOver, Pause
  <2>2. recording' \in Seq(Nat) /\ StaysInBuffer'
    BY <1>0, <2>1, KeptFacts DEF StaysInBuffer, TypeOK
  <2>. QED
    BY <1>0, <1>6, <2>2, VadAssumption DEF HangOver, Pause, Heard, SizeInv, TypeOK
<1>7. CASE FinishSilent
  <2>1. /\ Finish(speech_frame_count) /\ running
        /\ heard' = Append(heard, FALSE)
        /\ UNCHANGED <<vad_hangover_count, speech_frame_count>>
    BY <1>7 DEF FinishSilent, Heard
  <2>2. heard' \in Seq(BOOLEAN)
    BY <1>0, <2>1 DEF TypeOK
  <2>3. delivered' \in Seq(Nat) /\ running' \in BOOLEAN
    BY <1>0, <2>1 DEF Finish, TypeOK
  <2>4. state' = "IDLE" /\ recording' = <<>>
    BY <2>1 DEF Finish
  <2>. QED
    BY <1>0, <2>1, <2>2, <2>3, <2>4 DEF SizeInv, TypeOK, StaysInBuffer
<1>8. CASE FinishFull
  <2>1. /\ Finish(speech_frame_count + 1) /\ running
        /\ heard' = Append(heard, TRUE)
        /\ vad_hangover_count' = VAD_HANGOVER_FRAMES
        /\ speech_frame_count' = speech_frame_count + 1
    BY <1>8 DEF FinishFull, FullAfter, Heard
  <2>2. heard' \in Seq(BOOLEAN)
    BY <1>0, <2>1 DEF TypeOK
  <2>3. delivered' \in Seq(Nat) /\ running' \in BOOLEAN
    BY <1>0, <2>1 DEF Finish, TypeOK
  <2>4. state' = "IDLE" /\ recording' = <<>>
    BY <2>1 DEF Finish
  <2>. QED
    BY <1>0, <2>1, <2>2, <2>3, <2>4, VadAssumption DEF SizeInv, TypeOK, StaysInBuffer
<1>9. CASE UNCHANGED vars
  BY <1>0, <1>9 DEF vars, SizeInv, TypeOK, StaysInBuffer
<1>. QED
  BY <1>1, <1>2, <1>3, <1>4, <1>5, <1>6, <1>7, <1>8, <1>9 DEF Next

LEMMA SizeInvariant == Spec => []SizeInv
BY SizeInit, SizeStep, PTL DEF Spec

\* Every variable keeps its type; the hangover never exceeds its setting.
THEOREM TypeCorrect == Spec => []TypeOK
<1>1. SizeInv => TypeOK
  BY DEF SizeInv
<1>. QED
  BY <1>1, SizeInvariant, PTL

\* No frame is ever written past the end of the recording buffer, whatever
\* the sizes of frame and buffer and whatever is heard.
THEOREM AlwaysInBuffer == Spec => []StaysInBuffer
<1>1. SizeInv => StaysInBuffer
  BY DEF SizeInv
<1>. QED
  BY <1>1, SizeInvariant, PTL

-----------------------------------------------------------------------------
(* The recording is a run of consecutive frames. *)

\* While there is room, the recording reaches to the frame just heard.
RunInv ==
  state = "RECORDING" =>
    /\ recording # <<>>
    /\ recording[1] \in 1 .. Len(heard)
    /\ heard[recording[1]]
    /\ \A k \in 1 .. Len(recording) : recording[k] = recording[1] + k - 1
    /\ Fits(recording) => recording[1] + Len(recording) = Len(heard) + 1

LEMMA RunKept ==
  ASSUME SizeInv, RunInv, state = "RECORDING", state' = state,
         NEW speech \in BOOLEAN, Heard(speech), recording' = Kept(recording)
  PROVE  RunInv'
<1>1. /\ recording \in Seq(Nat) /\ heard \in Seq(BOOLEAN)
      /\ heard' = Append(heard, speech) /\ heard' \in Seq(BOOLEAN)
      /\ Len(heard') = Len(heard) + 1
  BY DEF SizeInv, TypeOK, Heard
<1>2. /\ recording # <<>> /\ Len(recording) \in Nat /\ Len(recording) >= 1
      /\ recording[1] \in 1 .. Len(heard)
      /\ heard[recording[1]]
      /\ \A k \in 1 .. Len(recording) : recording[k] = recording[1] + k - 1
  BY <1>1 DEF RunInv
<1>3. heard'[recording[1]]
  BY <1>1, <1>2
<1>4. CASE Fits(recording)
  <2>1. /\ recording' = Append(recording, Len(heard) + 1)
        /\ recording[1] + Len(recording) = Len(heard) + 1
    BY <1>4 DEF Kept, RunInv
  <2>2. /\ Len(recording') = Len(recording) + 1
        /\ \A k \in 1 .. Len(recording) : recording'[k] = recording[k]
        /\ recording'[Len(recording) + 1] = Len(heard) + 1
        /\ recording' \in Seq(Nat)
    BY <1>1, <2>1
  <2>3. recording' # <<>> /\ recording'[1] = recording[1]
    BY <1>2, <2>2
  <2>n. /\ Len(recording) \in Nat /\ Len(heard) \in Nat /\ recording[1] \in Nat
        /\ Len(heard') = Len(heard) + 1
        /\ recording[1] + Len(recording) = Len(heard) + 1
    BY <1>1, <1>2, <2>1
  <2>4. ASSUME NEW k \in 1 .. Len(recording')
        PROVE  recording'[k] = recording'[1] + k - 1
    <3>1. CASE k \in 1 .. Len(recording)
      BY <1>2, <2>2, <2>3, <3>1
    <3>2. CASE k = Len(recording) + 1
      BY <2>2, <2>3, <2>n, <3>2
    <3>. QED
      BY <2>2, <2>n, <3>1, <3>2
  <2>5. recording'[1] + Len(recording') = Len(heard') + 1
    BY <2>2, <2>3, <2>n
  <2>6. recording'[1] \in 1 .. Len(heard') /\ heard'[recording'[1]]
    BY <1>1, <1>2, <1>3, <2>3
  <2>. QED
    BY <2>3, <2>4, <2>5, <2>6 DEF RunInv
<1>5. CASE ~Fits(recording)
  <2>1. recording' = recording
    BY <1>5 DEF Kept
  <2>2. ~Fits(recording')
    BY <1>5, <2>1
  <2>. QED
    BY <1>1, <1>2, <1>3, <2>1, <2>2 DEF RunInv, Fits
<1>. QED
  BY <1>4, <1>5

LEMMA RunStep == SizeInv /\ RunInv /\ [Next]_vars => RunInv'
<1>. SUFFICES ASSUME SizeInv, RunInv, [Next]_vars
              PROVE  RunInv'
  OBVIOUS
<1>1. CASE Start \/ Stop \/ Ignore \/ FinishSilent \/ FinishFull
  BY <1>1 DEF Start, Stop, Ignore, FinishSilent, FinishFull, FullAfter, Finish, RunInv
<1>2. CASE Begin
  <2>1. /\ recording' = Kept(<<>>) /\ heard' = Append(heard, TRUE)
        /\ heard \in Seq(BOOLEAN)
    BY <1>2 DEF Begin, Heard, SizeInv, TypeOK
  <2>2. Fits(<<>>)
    BY VadAssumption, OneMoreFrame DEF Fits
  <2>3. recording' = <<Len(heard) + 1>>
    BY <2>1, <2>2 DEF Kept
  <2>4. /\ recording' # <<>> /\ Len(recording') = 1
        /\ recording'[1] = Len(heard) + 1
    BY <2>3
  <2>5. Len(heard') = Len(heard) + 1 /\ heard'[Len(heard) + 1] /\ Len(heard) \in Nat
    BY <2>1
  <2>. QED
    BY <2>4, <2>5 DEF RunInv
<1>3. CASE Continue
  BY <1>3, RunKept DEF Continue
<1>4. CASE HangOver
  BY <1>4, RunKept DEF HangOver, Pause
<1>5. CASE UNCHANGED vars
  BY <1>5 DEF vars, RunInv, Fits
<1>. QED
  BY <1>1, <1>2, <1>3, <1>4, <1>5 DEF Next

\* A recording has no hole, for every capacity: once a frame did not fit, no
\* later one does.
THEOREM NeverAHole == Spec => []NoHole
<1>1. Init => SizeInv /\ RunInv
  BY SizeInit DEF Init, RunInv
<1>2. SizeInv /\ RunInv /\ [Next]_vars => (SizeInv /\ RunInv)'
  BY SizeStep, RunStep
<1>3. RunInv => NoHole
  BY DEF RunInv, NoHole
<1>. QED
  BY <1>1, <1>2, <1>3, PTL DEF Spec

-----------------------------------------------------------------------------
(* The reference Open is a recursive function: that it satisfies its       *)
(* equation, and what it returns, is proved by induction on the frames.    *)

LEMMA LeastElement ==
  ASSUME NEW T \in SUBSET Nat, T # {}
  PROVE  \E x \in T : \A y \in T : x <= y
<1>. DEFINE R == OpToRel(<, Nat)
<1>1. IsWellFoundedOn(R, Nat)
  BY NatLessThanWellFounded, Zenon
<1>2. \A x, y \in Nat : x < y => <<x, y>> \in R
  BY DEF OpToRel
<1>. HIDE DEF R
<1>3. PICK x \in T : \A y \in T : ~(<<y, x>> \in R)
  BY <1>1, WFMin
<1>4. ASSUME NEW y \in T PROVE x <= y
  <2>1. x \in Nat /\ y \in Nat
    OBVIOUS
  <2>2. ~(y < x)
    BY <1>2, <1>3, <2>1
  <2>. QED
    BY <2>1, <2>2
<1>. QED
  BY <1>4

\* Induction, on the set of the numbers that have the property.
LEMMA Induction ==
  ASSUME NEW T, 0 \in T, \A n \in Nat : n \in T => n + 1 \in T
  PROVE  Nat \subseteq T
<1>. DEFINE U == Nat \ T
<1>. SUFFICES ASSUME U # {} PROVE FALSE
  OBVIOUS
<1>1. PICK x \in U : \A y \in U : x <= y
  BY LeastElement
<1>2. x # 0 /\ x - 1 \in Nat
  BY <1>1
<1>3. x - 1 \in T
  BY <1>1, <1>2
<1>. QED
  BY <1>2, <1>3

\* Open, one frame further.
OpenAt(h, s, i) ==
  CASE s = 0 /\ h[i]           -> i
    [] s # 0 /\ ~Ends(h, s, i) -> s
    [] OTHER                   -> 0

LEMMA OpenExists ==
  ASSUME NEW h \in Seq(BOOLEAN)
  PROVE  \E F : F = [i \in 0 .. Len(h) |-> IF i = 0 THEN 0 ELSE OpenAt(h, F[i - 1], i)]
<1>. DEFINE IsOpen(F, n) == F = [i \in 0 .. n |-> IF i = 0 THEN 0 ELSE OpenAt(h, F[i - 1], i)]
            T == {n \in Nat : \E F : IsOpen(F, n)}
<1>1. 0 \in T
  <2>1. IsOpen([i \in 0 .. 0 |-> 0], 0)
    OBVIOUS
  <2>. QED
    BY <2>1
<1>2. ASSUME NEW n \in Nat, n \in T PROVE n + 1 \in T
  <2>1. PICK F : IsOpen(F, n)
    BY <1>2
  <2>. DEFINE G == [i \in 0 .. n + 1 |-> IF i = n + 1 THEN OpenAt(h, F[n], n + 1) ELSE F[i]]
  <2>2. ASSUME NEW i \in 0 .. n + 1
        PROVE  G[i] = IF i = 0 THEN 0 ELSE OpenAt(h, G[i - 1], i)
    <3>1. CASE i = n + 1
      <4>1. G[i - 1] = F[n] /\ G[i] = OpenAt(h, F[n], n + 1)
        BY <3>1
      <4>. QED
        BY <3>1, <4>1
    <3>2. CASE i = 0
      BY <2>1, <3>2
    <3>3. CASE i \in 1 .. n
      <4>1. G[i - 1] = F[i - 1] /\ G[i] = F[i]
        BY <3>3
      <4>2. F[i] = OpenAt(h, F[i - 1], i)
        BY <2>1, <3>3
      <4>. QED
        BY <3>3, <4>1, <4>2
    <3>. QED
      BY <3>1, <3>2, <3>3
  <2>3. G = [i \in 0 .. n + 1 |-> G[i]]
    OBVIOUS
  <2>. HIDE DEF G
  <2>4. IsOpen(G, n + 1)
    BY <2>2, <2>3
  <2>. QED
    BY <2>4
<1>3. Nat \subseteq T
  <2>. HIDE DEF T
  <2>. QED
    BY <1>1, <1>2, Induction
<1>4. Len(h) \in T
  BY <1>3
<1>. QED
  BY <1>4

LEMMA OpenIs ==
  ASSUME NEW h \in Seq(BOOLEAN)
  PROVE  Open(h) = [i \in 0 .. Len(h) |->
                      IF i = 0 THEN 0 ELSE OpenAt(h, Open(h)[i - 1], i)]
<1>1. PICK F : F = [i \in 0 .. Len(h) |-> IF i = 0 THEN 0 ELSE OpenAt(h, F[i - 1], i)]
  BY OpenExists
<1>. QED
  BY <1>1, Zenon DEF Open, OpenAt

LEMMA OpenSteps ==
  ASSUME NEW h \in Seq(BOOLEAN)
  PROVE  /\ Open(h)[0] = 0
         /\ \A i \in 1 .. Len(h) : Open(h)[i] = OpenAt(h, Open(h)[i - 1], i)
<1>. DEFINE f == Open(h)
<1>1. f = [i \in 0 .. Len(h) |-> IF i = 0 THEN 0 ELSE OpenAt(h, f[i - 1], i)]
  BY OpenIs
<1>. HIDE DEF f
<1>2. f[0] = 0 /\ \A i \in 1 .. Len(h) : f[i] = OpenAt(h, f[i - 1], i)
  BY <1>1
<1>. QED
  BY <1>2 DEF f

\* A stretch begins at a frame that has been heard.
LEMMA OpenType ==
  ASSUME NEW h \in Seq(BOOLEAN)
  PROVE  \A i \in 0 .. Len(h) : Open(h)[i] \in 0 .. i
<1>. DEFINE f == Open(h)
            T == {n \in Nat : n <= Len(h) => f[n] \in 0 .. n}
<1>1. f[0] = 0 /\ \A i \in 1 .. Len(h) : f[i] = OpenAt(h, f[i - 1], i)
  BY OpenSteps
<1>. HIDE DEF f
<1>2. 0 \in T
  BY <1>1
<1>3. ASSUME NEW n \in Nat, n \in T PROVE n + 1 \in T
  <2>1. SUFFICES ASSUME n + 1 <= Len(h) PROVE f[n + 1] \in 0 .. n + 1
    OBVIOUS
  <2>2. f[n + 1] = OpenAt(h, f[n], n + 1)
    BY <1>1, <2>1
  <2>3. f[n] \in 0 .. n
    BY <1>3, <2>1
  <2>4. OpenAt(h, f[n], n + 1) \in {n + 1, f[n], 0}
    BY Zenon DEF OpenAt
  <2>. QED
    BY <2>2, <2>3, <2>4
<1>4. Nat \subseteq T
  <2>. HIDE DEF T
  <2>. QED
    BY <1>2, <1>3, Induction
<1>5. \A i \in 0 .. Len(h) : f[i] \in 0 .. i
  BY <1>4
<1>. QED
  BY <1>5 DEF f

\* What has been heard does not depend on what is heard later.
LEMMA EndsPrefix ==
  ASSUME NEW h \in Seq(BOOLEAN), NEW b \in BOOLEAN,
         NEW i \in 1 .. Len(h), NEW s \in 1 .. i
  PROVE  Ends(Append(h, b), s, i) = Ends(h, s, i)
<1>. DEFINE g == Append(h, b)
<1>1. \A j \in 1 .. Len(h) : g[j] = h[j]
  OBVIOUS
<1>. HIDE DEF g
<1>2. ASSUME i - s > VAD_HANGOVER_FRAMES, NEW j \in i - VAD_HANGOVER_FRAMES .. i
      PROVE  j \in 1 .. Len(h)
  BY <1>2, VadAssumption
<1>3. Ends(g, s, i) = Ends(h, s, i)
  BY <1>1, <1>2 DEF Ends
<1>. QED
  BY <1>3 DEF g

LEMMA OpenPrefix ==
  ASSUME NEW h \in Seq(BOOLEAN), NEW b \in BOOLEAN
  PROVE  \A i \in 0 .. Len(h) : Open(Append(h, b))[i] = Open(h)[i]
<1>. DEFINE g == Append(h, b)
            f == Open(h)
            e == Open(g)
            T == {n \in Nat : n <= Len(h) => e[n] = f[n]}
<1>1. f[0] = 0 /\ \A i \in 1 .. Len(h) : f[i] = OpenAt(h, f[i - 1], i)
  BY OpenSteps
<1>2. e[0] = 0 /\ \A i \in 1 .. Len(g) : e[i] = OpenAt(g, e[i - 1], i)
  <2>1. g \in Seq(BOOLEAN)
    OBVIOUS
  <2>. HIDE DEF g
  <2>. QED
    BY <2>1, OpenSteps
<1>3. \A i \in 0 .. Len(h) : f[i] \in 0 .. i
  BY OpenType
<1>4. Len(g) = Len(h) + 1 /\ Len(h) \in Nat /\ \A i \in 1 .. Len(h) : g[i] = h[i]
  OBVIOUS
<1>5. \A i \in 1 .. Len(h) : \A s \in 1 .. i : Ends(g, s, i) = Ends(h, s, i)
  BY EndsPrefix
<1>. HIDE DEF g, f, e
<1>6. 0 \in T
  BY <1>1, <1>2
<1>7. ASSUME NEW n \in Nat, n \in T PROVE n + 1 \in T
  <2>1. SUFFICES ASSUME n + 1 <= Len(h) PROVE e[n + 1] = f[n + 1]
    OBVIOUS
  <2>2. /\ e[n + 1] = OpenAt(g, e[n], n + 1) /\ f[n + 1] = OpenAt(h, f[n], n + 1)
        /\ e[n] = f[n]
    BY <1>1, <1>2, <1>4, <1>7, <2>1
  <2>3. g[n + 1] = h[n + 1]
    BY <1>4, <2>1
  <2>4. f[n] = 0 \/ Ends(g, f[n], n + 1) = Ends(h, f[n], n + 1)
    <3>1. f[n] \in 0 .. n /\ n + 1 \in 1 .. Len(h)
      BY <1>3, <2>1
    <3>. QED
      BY <1>5, <3>1
  <2>5. OpenAt(g, f[n], n + 1) = OpenAt(h, f[n], n + 1)
    BY <2>3, <2>4, Zenon DEF OpenAt
  <2>. QED
    BY <2>2, <2>5
<1>8. Nat \subseteq T
  <2>. HIDE DEF T
  <2>. QED
    BY <1>6, <1>7, Induction
<1>9. \A i \in 0 .. Len(h) : e[i] = f[i]
  BY <1>8
<1>. QED
  BY <1>9 DEF e, f, g

\* The reference after one more frame.
LEMMA OpenAppend ==
  ASSUME NEW h \in Seq(BOOLEAN), NEW b \in BOOLEAN
  PROVE  Open(Append(h, b))[Len(h) + 1]
           = OpenAt(Append(h, b), Open(h)[Len(h)], Len(h) + 1)
<1>. DEFINE g == Append(h, b)
            e == Open(g)
<1>1. \A i \in 1 .. Len(g) : e[i] = OpenAt(g, e[i - 1], i)
  <2>1. g \in Seq(BOOLEAN)
    OBVIOUS
  <2>. HIDE DEF g
  <2>. QED
    BY <2>1, OpenSteps
<1>2. Len(g) = Len(h) + 1 /\ Len(h) \in Nat
  OBVIOUS
<1>3. e[Len(h)] = Open(h)[Len(h)]
  BY <1>2, OpenPrefix
<1>. HIDE DEF g, e
<1>4. e[Len(h) + 1] = OpenAt(g, e[Len(h)], Len(h) + 1)
  BY <1>1, <1>2
<1>. QED
  BY <1>3, <1>4 DEF e, g

SpeechIn(h, s, i) == {j \in s .. i : h[j]}

\* The frame i ends an utterance that began at frame s.
IsUtterance(h, s, i) ==
  s # 0 /\ Ends(h, s, i) /\ Cardinality(SpeechIn(h, s, i)) >= VAD_MIN_SPEECH_FRAMES

LEMMA UtterancesAre ==
  ASSUME NEW h
  PROVE  Utterances(h) =
           {<<Open(h)[i - 1], i>> :
              i \in {j \in 1 .. Len(h) : IsUtterance(h, Open(h)[j - 1], j)}}
<1>. DEFINE All == {<<Open(h)[i - 1], i>> : i \in 1 .. Len(h)}
            D == {u \in All : u[1] # 0 /\ Ends(h, u[1], u[2])
                     /\ Cardinality({j \in u[1] .. u[2] : h[j]}) >= VAD_MIN_SPEECH_FRAMES}
<1>1. Utterances(h) = D
  BY Zenon DEF Utterances
<1>2. D = {u \in All : IsUtterance(h, u[1], u[2])}
  BY Zenon DEF IsUtterance, SpeechIn
<1>. QED
  BY <1>1, <1>2, Zenon

LEMMA UtterancesAppend ==
  ASSUME NEW h \in Seq(BOOLEAN), NEW b \in BOOLEAN, Utterances(h) = {}
  PROVE  LET g == Append(h, b)
             s == Open(h)[Len(h)]
             i == Len(h) + 1
         IN Utterances(g) = IF IsUtterance(g, s, i) THEN {<<s, i>>} ELSE {}
<1>. DEFINE g == Append(h, b)
            f == Open(h)
            e == Open(g)
            n == Len(h)
<1>1. Len(g) = n + 1 /\ n \in Nat /\ \A j \in 1 .. n : g[j] = h[j]
  OBVIOUS
<1>2. \A j \in 0 .. n : e[j] = f[j] /\ f[j] \in 0 .. j
  BY OpenPrefix, OpenType
<1>3. \A j \in 1 .. n : \A s \in 1 .. j : Ends(g, s, j) = Ends(h, s, j)
  BY EndsPrefix
<1>4. \A j \in 1 .. n : ~IsUtterance(h, f[j - 1], j)
  BY UtterancesAre
<1>. HIDE DEF g, f, e, n
<1>5. ASSUME NEW j \in 1 .. n PROVE ~IsUtterance(g, e[j - 1], j)
  <2>. DEFINE s == f[j - 1]
  <2>1. s \in 0 .. j /\ e[j - 1] = s
    BY <1>1, <1>2
  <2>. HIDE DEF s
  <2>2. CASE s # 0
    <3>1. s \in 1 .. j
      BY <2>1, <2>2
    <3>2. Ends(g, s, j) = Ends(h, s, j)
      BY <1>3, <3>1
    <3>3. SpeechIn(g, s, j) = SpeechIn(h, s, j)
      BY <1>1, <3>1 DEF SpeechIn
    <3>4. ~IsUtterance(h, s, j)
      BY <1>4 DEF s
    <3>. QED
      BY <2>1, <3>2, <3>3, <3>4 DEF IsUtterance
  <2>3. CASE s = 0
    BY <2>1, <2>3 DEF IsUtterance
  <2>. QED
    BY <2>2, <2>3
<1>6. e[(n + 1) - 1] = f[n]
  BY <1>1, <1>2
<1>7. {j \in 1 .. Len(g) : IsUtterance(g, e[j - 1], j)}
        = IF IsUtterance(g, f[n], n + 1) THEN {n + 1} ELSE {}
  <2>1. \A j : j \in 1 .. Len(g) <=> j \in 1 .. n \/ j = n + 1
    BY <1>1
  <2>2. \A j \in 1 .. n : ~IsUtterance(g, e[j - 1], j)
    BY <1>5
  <2>3. IsUtterance(g, e[(n + 1) - 1], n + 1) = IsUtterance(g, f[n], n + 1)
    BY <1>6
  <2>. QED
    BY <2>1, <2>2, <2>3
<1>8. Utterances(g) = {<<e[j - 1], j>> : j \in {k \in 1 .. Len(g) : IsUtterance(g, e[k - 1], k)}}
  BY UtterancesAre DEF e
<1>9. Utterances(g) = IF IsUtterance(g, f[n], n + 1) THEN {<<f[n], n + 1>>} ELSE {}
  BY <1>6, <1>7, <1>8
<1>. QED
  BY <1>9 DEF g, f, n

-----------------------------------------------------------------------------
(* The thread follows the reference. *)

\* Where the thread stands in the reference: the frame its stretch began with,
\* 0 if none.
Begun == Open(heard)[Len(heard)]

\* The thread's variables say what the reference says: the stretch that is
\* open, its frames, how many are speech, and since when there is silence.
Tracks ==
  /\ state = "RECORDING" => running
  /\ running => (state = "IDLE" <=> Begun = 0)
  /\ state = "RECORDING" =>
       /\ Begun \in 1 .. Len(heard)
       /\ recording = Recorded(Begun, Len(heard) + 1)
       /\ speech_frame_count = Cardinality(SpeechIn(heard, Begun, Len(heard)))
       /\ LET last == Len(heard) - (VAD_HANGOVER_FRAMES - vad_hangover_count)
          IN /\ last >= Begun
             /\ heard[last]
             /\ \A j \in last + 1 .. Len(heard) : ~heard[j]

DeliveryInv ==
  /\ Tracks
  /\ delivered # <<>> => ~running
  /\ DeliversFirstUtterance

LEMMA RoomIs ==
  /\ Frames \in Nat /\ Frames >= 1
  /\ \A n \in Nat : n * FRAME_SIZE + FRAME_SIZE <= CAPACITY <=> n < Frames
<1>1. FRAME_SIZE \in Nat /\ FRAME_SIZE >= 1 /\ CAPACITY \in Nat /\ FRAME_SIZE <= CAPACITY
  BY VadAssumption
<1>2. /\ Frames \in Nat
      /\ Frames * FRAME_SIZE <= CAPACITY /\ CAPACITY < (Frames + 1) * FRAME_SIZE
  BY <1>1 DEF Frames
<1>3. Frames >= 1
  <2>1. SUFFICES ASSUME Frames = 0 PROVE FALSE
    BY <1>2
  <2>. QED
    BY <1>1, <1>2, <2>1
<1>4. ASSUME NEW n \in Nat, n < Frames PROVE n * FRAME_SIZE + FRAME_SIZE <= CAPACITY
  <2>1. n + 1 <= Frames
    BY <1>2, <1>4
  <2>2. (n + 1) * FRAME_SIZE <= Frames * FRAME_SIZE
    BY <1>1, <1>2, <2>1
  <2>3. /\ (n + 1) * FRAME_SIZE = n * FRAME_SIZE + FRAME_SIZE
        /\ n * FRAME_SIZE \in Nat /\ Frames * FRAME_SIZE \in Nat
    BY <1>1, <1>2
  <2>. QED
    BY <1>1, <1>2, <2>2, <2>3
<1>5. ASSUME NEW n \in Nat, ~(n < Frames) PROVE ~(n * FRAME_SIZE + FRAME_SIZE <= CAPACITY)
  <2>1. Frames + 1 <= n + 1
    BY <1>2, <1>5
  <2>2. (Frames + 1) * FRAME_SIZE <= (n + 1) * FRAME_SIZE
    BY <1>1, <1>2, <2>1
  <2>3. /\ (n + 1) * FRAME_SIZE = n * FRAME_SIZE + FRAME_SIZE /\ n * FRAME_SIZE \in Nat
        /\ (Frames + 1) * FRAME_SIZE \in Nat
    BY <1>1, <1>2
  <2>. QED
    BY <1>1, <1>2, <2>2, <2>3
<1>. QED
  BY <1>2, <1>3, <1>4, <1>5

\* What the buffer holds of a stretch, and what one frame more makes of it.
LEMMA RecordedLength ==
  ASSUME NEW s \in Nat, NEW i \in Nat, s <= i
  PROVE  /\ Len(Recorded(s, i)) = IF i - s < Frames THEN i - s ELSE Frames
         /\ Fits(Recorded(s, i)) <=> i - s < Frames
<1>. DEFINE m == IF i - s < Frames THEN i - s ELSE Frames
<1>1. m \in Nat
  BY RoomIs
<1>2. Recorded(s, i) = [k \in 1 .. m |-> s + k - 1]
  BY DEF Recorded
<1>. HIDE DEF m
<1>3. Len(Recorded(s, i)) = m
  BY <1>1, <1>2
<1>4. Fits(Recorded(s, i)) <=> m < Frames
  BY <1>1, <1>3, RoomIs DEF Fits
<1>. QED
  BY <1>3, <1>4, RoomIs DEF m

LEMMA KeptIs ==
  ASSUME NEW s \in Nat, heard \in Seq(BOOLEAN), s <= Len(heard) + 1
  PROVE  Kept(Recorded(s, Len(heard) + 1)) = Recorded(s, Len(heard) + 2)
<1>. DEFINE n == Len(heard)
            rec == Recorded(s, n + 1)
<1>1. n \in Nat
  OBVIOUS
<1>2. Frames \in Nat
  BY RoomIs
<1>3. Len(rec) = (IF n + 1 - s < Frames THEN n + 1 - s ELSE Frames)
      /\ (Fits(rec) <=> n + 1 - s < Frames)
  <2>1. PICK i \in Nat : i = n + 1 /\ s <= i
    BY <1>1
  <2>2. /\ Len(Recorded(s, i)) = IF i - s < Frames THEN i - s ELSE Frames
        /\ Fits(Recorded(s, i)) <=> i - s < Frames
    BY <2>1, RecordedLength
  <2>. QED
    BY <2>1, <2>2
<1>4. Kept(rec) = IF Fits(rec) THEN Append(rec, n + 1) ELSE rec
  BY DEF Kept
<1>5. CASE n + 1 - s < Frames
  <2>. DEFINE m == n + 1 - s
  <2>1. m \in Nat /\ m < Frames /\ m + 1 <= Frames
    BY <1>1, <1>2, <1>5
  <2>2. rec = [k \in 1 .. m |-> s + k - 1]
    BY <1>5 DEF Recorded
  <2>3. Append(rec, n + 1) = [k \in 1 .. m + 1 |-> s + k - 1]
    <3>1. n + 1 = s + (m + 1) - 1
      BY <1>1
    <3>. HIDE DEF m, n, rec
    <3>2. Append(rec, n + 1) = [k \in 1 .. m + 1 |-> IF k = m + 1 THEN n + 1 ELSE rec[k]]
      BY <2>1, <2>2
    <3>. QED
      BY <2>1, <2>2, <3>1, <3>2
  <2>4. Recorded(s, n + 2) = [k \in 1 .. m + 1 |-> s + k - 1]
    <3>1. (IF n + 2 - s < Frames THEN n + 2 - s ELSE Frames) = m + 1
      BY <1>1, <1>2, <1>5
    <3>. QED
      BY <3>1 DEF Recorded
  <2>. QED
    BY <1>3, <1>4, <1>5, <2>3, <2>4
<1>6. CASE ~(n + 1 - s < Frames)
  <2>1. (IF n + 1 - s < Frames THEN n + 1 - s ELSE Frames) = Frames
    BY <1>6
  <2>2. (IF n + 2 - s < Frames THEN n + 2 - s ELSE Frames) = Frames
    BY <1>1, <1>2, <1>6
  <2>3. rec = Recorded(s, n + 2)
    BY <2>1, <2>2 DEF Recorded
  <2>. QED
    BY <1>3, <1>4, <1>6, <2>3
<1>. QED
  BY <1>5, <1>6

LEMMA SpeechCount ==
  ASSUME NEW h \in Seq(BOOLEAN), NEW b \in BOOLEAN, NEW s \in Nat, s >= 1, s <= Len(h) + 1
  PROVE  /\ Cardinality(SpeechIn(h, s, Len(h))) \in Nat
         /\ s = Len(h) + 1 => Cardinality(SpeechIn(h, s, Len(h))) = 0
         /\ Cardinality(SpeechIn(Append(h, b), s, Len(h) + 1))
              = Cardinality(SpeechIn(h, s, Len(h))) + (IF b THEN 1 ELSE 0)
<1>. DEFINE g == Append(h, b)
            n == Len(h)
            S == SpeechIn(h, s, n)
<1>1. n \in Nat /\ g[n + 1] = b /\ \A j \in 1 .. n : g[j] = h[j]
  OBVIOUS
<1>2. IsFiniteSet(S) /\ Cardinality(S) \in Nat
  <2>1. S \in SUBSET (s .. n)
    BY DEF SpeechIn
  <2>2. IsFiniteSet(s .. n)
    BY <1>1, FS_Interval
  <2>. HIDE DEF S
  <2>3. IsFiniteSet(S)
    BY <2>1, <2>2, FS_Subset
  <2>. QED
    BY <2>3, FS_CardinalityType
<1>3. s = n + 1 => Cardinality(S) = 0
  <2>1. s = n + 1 => S = {}
    BY <1>1 DEF SpeechIn
  <2>. QED
    BY <2>1, FS_EmptySet
<1>4. n + 1 \notin S
  BY <1>1 DEF SpeechIn
<1>. HIDE DEF g, n
<1>5. SpeechIn(g, s, n + 1) = IF b THEN S \cup {n + 1} ELSE S
  BY <1>1 DEF SpeechIn, n
<1>. HIDE DEF S
<1>6. Cardinality(S \cup {n + 1}) = Cardinality(S) + 1
  BY <1>2, <1>4, FS_AddElement
<1>7. Cardinality(SpeechIn(g, s, n + 1)) = Cardinality(S) + (IF b THEN 1 ELSE 0)
  BY <1>2, <1>5, <1>6
<1>. QED
  BY <1>2, <1>3, <1>7 DEF S, g, n

\* One more frame, in the reference.
LEMMA HeardMore ==
  ASSUME TypeOK, NEW speech \in BOOLEAN, Heard(speech)
  PROVE  /\ running /\ heard \in Seq(BOOLEAN) /\ Len(heard) \in Nat
         /\ heard' \in Seq(BOOLEAN) /\ Len(heard') = Len(heard) + 1
         /\ heard'[Len(heard) + 1] = speech
         /\ \A j \in 1 .. Len(heard) : heard'[j] = heard[j]
         /\ Begun \in 0 .. Len(heard)
         /\ Begun' = OpenAt(heard', Begun, Len(heard) + 1)
         /\ Utterances(heard) = {} =>
              Utterances(heard') = IF IsUtterance(heard', Begun, Len(heard) + 1)
                                   THEN {<<Begun, Len(heard) + 1>>} ELSE {}
         /\ \A s \in 1 .. Len(heard) + 1 :
              /\ Cardinality(SpeechIn(heard, s, Len(heard))) \in Nat
              /\ s = Len(heard) + 1 => Cardinality(SpeechIn(heard, s, Len(heard))) = 0
              /\ Cardinality(SpeechIn(heard', s, Len(heard) + 1))
                   = Cardinality(SpeechIn(heard, s, Len(heard))) + (IF speech THEN 1 ELSE 0)
<1>1. running /\ heard \in Seq(BOOLEAN) /\ Len(heard) \in Nat /\ heard' = Append(heard, speech)
  BY DEF TypeOK, Heard
<1>2. /\ heard' \in Seq(BOOLEAN) /\ Len(heard') = Len(heard) + 1
      /\ heard'[Len(heard) + 1] = speech
      /\ \A j \in 1 .. Len(heard) : heard'[j] = heard[j]
  BY <1>1
<1>3. Begun \in 0 .. Len(heard)
  BY <1>1, OpenType DEF Begun
<1>4. Begun' = OpenAt(heard', Begun, Len(heard) + 1)
  BY <1>1, <1>2, OpenAppend DEF Begun
<1>5. Utterances(heard) = {} =>
        Utterances(heard') = IF IsUtterance(heard', Begun, Len(heard) + 1)
                             THEN {<<Begun, Len(heard) + 1>>} ELSE {}
  BY <1>1, UtterancesAppend DEF Begun
<1>6. \A s \in 1 .. Len(heard) + 1 :
        /\ Cardinality(SpeechIn(heard, s, Len(heard))) \in Nat
        /\ s = Len(heard) + 1 => Cardinality(SpeechIn(heard, s, Len(heard))) = 0
        /\ Cardinality(SpeechIn(heard', s, Len(heard) + 1))
             = Cardinality(SpeechIn(heard, s, Len(heard))) + (IF speech THEN 1 ELSE 0)
  BY <1>1, SpeechCount
<1>. QED
  BY <1>1, <1>2, <1>3, <1>4, <1>5, <1>6

\* A stretch that goes on: nothing is delivered, and the frame that begins it
\* stays.
LEMMA GoesOn ==
  ASSUME TypeOK, DeliveryInv, state = "RECORDING", state' = state, UNCHANGED <<running, delivered>>,
         NEW speech \in BOOLEAN, Heard(speech),
         ~Ends(heard', Begun, Len(heard) + 1),
         recording' = Kept(recording),
         speech_frame_count' = speech_frame_count + (IF speech THEN 1 ELSE 0),
         vad_hangover_count' \in 0 .. VAD_HANGOVER_FRAMES,
         speech => vad_hangover_count' = VAD_HANGOVER_FRAMES,
         ~speech => vad_hangover_count' = vad_hangover_count - 1
  PROVE  DeliveryInv'
<1>. DEFINE n == Len(heard)
            s == Begun
<1>1. /\ running /\ n \in Nat /\ Len(heard') = n + 1 /\ heard \in Seq(BOOLEAN)
      /\ heard'[n + 1] = speech /\ (\A j \in 1 .. n : heard'[j] = heard[j])
      /\ Begun' = OpenAt(heard', s, n + 1)
      /\ (Utterances(heard) = {} =>
           Utterances(heard') = IF IsUtterance(heard', s, n + 1) THEN {<<s, n + 1>>} ELSE {})
  BY HeardMore
<1>2. /\ s \in 1 .. n
      /\ recording = Recorded(s, n + 1)
      /\ speech_frame_count = Cardinality(SpeechIn(heard, s, n))
      /\ LET last == n - (VAD_HANGOVER_FRAMES - vad_hangover_count)
         IN last >= s /\ heard[last] /\ (\A j \in last + 1 .. n : ~heard[j])
  BY DEF DeliveryInv, Tracks
<1>3. vad_hangover_count \in 0 .. VAD_HANGOVER_FRAMES /\ VAD_HANGOVER_FRAMES \in Nat
  BY VadAssumption DEF TypeOK
<1>4. Begun' = s
  <2>1. s # 0
    BY <1>2
  <2>. QED
    BY <1>1, <2>1, Zenon DEF OpenAt
<1>5. recording' = Recorded(s, n + 2)
  BY <1>1, <1>2, KeptIs
<1>6. speech_frame_count' = Cardinality(SpeechIn(heard', s, n + 1))
  <2>1. s \in 1 .. n + 1
    BY <1>1, <1>2
  <2>2. Cardinality(SpeechIn(heard', s, n + 1))
          = Cardinality(SpeechIn(heard, s, n)) + (IF speech THEN 1 ELSE 0)
    BY <2>1, HeardMore
  <2>. QED
    BY <1>2, <2>2
<1>7. LET last == (n + 1) - (VAD_HANGOVER_FRAMES - vad_hangover_count')
      IN last >= s /\ heard'[last] /\ \A j \in last + 1 .. n + 1 : ~heard'[j]
  <2>1. CASE speech
    <3>1. (n + 1) - (VAD_HANGOVER_FRAMES - vad_hangover_count') = n + 1
      BY <1>1, <1>3, <2>1
    <3>2. n + 1 >= s /\ heard'[n + 1] /\ (n + 1) + 1 .. n + 1 = {}
      BY <1>1, <1>2, <2>1
    <3>. QED
      BY <3>1, <3>2
  <2>2. CASE ~speech
    <3>. DEFINE last == n - (VAD_HANGOVER_FRAMES - vad_hangover_count)
    <3>1. (n + 1) - (VAD_HANGOVER_FRAMES - vad_hangover_count') = last
      BY <1>1, <1>3, <2>2
    <3>2. last \in 1 .. n
      BY <1>1, <1>2, <1>3
    <3>3. heard'[last] /\ last >= s
      BY <1>1, <1>2, <3>2
    <3>4. \A j \in last + 1 .. n : ~heard'[j]
      <4>1. \A j \in last + 1 .. n : j \in 1 .. n
        BY <1>1, <3>2
      <4>. QED
        BY <1>1, <1>2, <4>1
    <3>. HIDE DEF last
    <3>5. \A j \in last + 1 .. n + 1 : ~heard'[j]
      BY <1>1, <2>2, <3>2, <3>4
    <3>. QED
      BY <3>1, <3>3, <3>5
  <2>. QED
    BY <2>1, <2>2
<1>8. Tracks'
  <2>1. s \in 1 .. n + 1 /\ (n + 1) + 1 = n + 2 /\ s # 0
    BY <1>1, <1>2
  <2>. QED
    BY <1>1, <1>4, <1>5, <1>6, <1>7, <2>1 DEF Tracks
<1>9. Utterances(heard') = {}
  <2>1. Utterances(heard) = {}
    BY <1>1 DEF DeliveryInv, DeliversFirstUtterance
  <2>2. ~IsUtterance(heard', s, n + 1)
    BY DEF IsUtterance
  <2>. QED
    BY <1>1, <2>1, <2>2
<1>10. delivered = <<>> /\ delivered' = <<>>
  BY <1>1 DEF DeliveryInv
<1>. QED
  BY <1>8, <1>9, <1>10 DEF DeliveryInv, DeliversFirstUtterance

\* A stretch that ends: it is delivered if it is an utterance, and the thread
\* goes back to waiting for speech if not.
LEMMA StretchEnds ==
  ASSUME TypeOK, DeliveryInv, state = "RECORDING",
         NEW speech \in BOOLEAN, Heard(speech),
         Ends(heard', Begun, Len(heard) + 1),
         Finish(speech_frame_count + (IF speech THEN 1 ELSE 0))
  PROVE  DeliveryInv'
<1>. DEFINE n == Len(heard)
            s == Begun
            speechFrames == speech_frame_count + (IF speech THEN 1 ELSE 0)
<1>1. /\ running /\ n \in Nat /\ Len(heard') = n + 1
      /\ Begun' = OpenAt(heard', s, n + 1)
      /\ (Utterances(heard) = {} =>
           Utterances(heard') = IF IsUtterance(heard', s, n + 1) THEN {<<s, n + 1>>} ELSE {})
  BY HeardMore
<1>2. /\ s \in 1 .. n
      /\ recording = Recorded(s, n + 1)
      /\ speech_frame_count = Cardinality(SpeechIn(heard, s, n))
  BY DEF DeliveryInv, Tracks
<1>3. Begun' = 0
  <2>1. s # 0
    BY <1>2
  <2>. QED
    BY <1>1, <2>1, Zenon DEF OpenAt
<1>4. speechFrames = Cardinality(SpeechIn(heard', s, n + 1)) /\ speechFrames \in Nat
  <2>1. s \in 1 .. n + 1
    BY <1>1, <1>2
  <2>2. /\ Cardinality(SpeechIn(heard', s, n + 1))
             = Cardinality(SpeechIn(heard, s, n)) + (IF speech THEN 1 ELSE 0)
        /\ Cardinality(SpeechIn(heard, s, n)) \in Nat
    BY <2>1, HeardMore
  <2>. QED
    BY <1>2, <2>2
<1>5. Utterances(heard') = IF speechFrames >= VAD_MIN_SPEECH_FRAMES THEN {<<s, n + 1>>} ELSE {}
  <2>1. Utterances(heard) = {}
    BY <1>1 DEF DeliveryInv, DeliversFirstUtterance
  <2>2. IsUtterance(heard', s, n + 1) <=> speechFrames >= VAD_MIN_SPEECH_FRAMES
    BY <1>1, <1>2, <1>4 DEF IsUtterance
  <2>. QED
    BY <1>1, <2>1, <2>2
<1>6. delivered = <<>> /\ state' = "IDLE"
  BY <1>1 DEF DeliveryInv, Finish
<1>7. Tracks'
  BY <1>3, <1>6 DEF Tracks
<1>8. CASE speechFrames < VAD_MIN_SPEECH_FRAMES
  <2>1. UNCHANGED <<running, delivered>>
    BY <1>4, <1>8, VadAssumption DEF Finish
  <2>2. Utterances(heard') = {}
    BY <1>4, <1>5, <1>8, VadAssumption
  <2>. QED
    BY <1>6, <1>7, <2>1, <2>2 DEF DeliveryInv, DeliversFirstUtterance
<1>9. CASE speechFrames >= VAD_MIN_SPEECH_FRAMES
  <2>1. running' = FALSE /\ delivered' = Recorded(s, n + 1)
    BY <1>2, <1>4, <1>9, VadAssumption DEF Finish
  <2>2. Utterances(heard') = {<<s, n + 1>>} /\ s \in 1 .. n + 1 /\ n + 1 \in 1 .. n + 1
    BY <1>1, <1>2, <1>5, <1>9
  <2>3. DeliversFirstUtterance'
    BY <1>1, <2>1, <2>2 DEF DeliversFirstUtterance
  <2>. QED
    BY <1>7, <2>1, <2>3 DEF DeliveryInv
<1>. QED
  BY <1>4, <1>8, <1>9, VadAssumption

LEMMA DeliveryInit == Init => DeliveryInv
<1>. SUFFICES ASSUME Init PROVE DeliveryInv
  OBVIOUS
<1>1. heard = <<>> /\ heard \in Seq(BOOLEAN) /\ Len(heard) = 0
  BY DEF Init
<1>2. Begun = 0
  BY <1>1, OpenSteps DEF Begun
<1>3. Utterances(heard) = {}
  BY <1>1, UtterancesAre
<1>. QED
  BY <1>2, <1>3 DEF Init, DeliveryInv, Tracks, DeliversFirstUtterance

LEMMA StartDelivers ==
  ASSUME Start
  PROVE  DeliveryInv'
<1>1. heard' = <<>> /\ heard' \in Seq(BOOLEAN) /\ Len(heard') = 0
  BY DEF Start
<1>2. Begun' = 0
  BY <1>1, OpenSteps DEF Begun
<1>3. Utterances(heard') = {}
  BY <1>1, UtterancesAre
<1>. QED
  BY <1>2, <1>3 DEF Start, DeliveryInv, Tracks, DeliversFirstUtterance

LEMMA IgnoreDelivers ==
  ASSUME TypeOK, DeliveryInv, Ignore
  PROVE  DeliveryInv'
<1>1. Heard(FALSE) /\ running /\ state = "IDLE"
  BY DEF Ignore, Heard
<1>2. Begun = 0 /\ Utterances(heard) = {} /\ delivered = <<>>
  BY <1>1 DEF DeliveryInv, Tracks, DeliversFirstUtterance
<1>3. /\ Begun' = OpenAt(heard', 0, Len(heard) + 1)
      /\ heard'[Len(heard) + 1] = FALSE
      /\ Utterances(heard') = IF IsUtterance(heard', 0, Len(heard) + 1)
                              THEN {<<0, Len(heard) + 1>>} ELSE {}
  BY <1>1, <1>2, HeardMore
<1>4. Begun' = 0
  BY <1>3, Zenon DEF OpenAt
<1>5. Utterances(heard') = {}
  BY <1>3 DEF IsUtterance
<1>. QED
  BY <1>1, <1>2, <1>4, <1>5 DEF Ignore, DeliveryInv, Tracks, DeliversFirstUtterance

LEMMA BeginDelivers ==
  ASSUME TypeOK, DeliveryInv, Begin
  PROVE  DeliveryInv'
<1>. DEFINE n == Len(heard)
<1>1. Heard(TRUE) /\ running /\ state = "IDLE"
  BY DEF Begin, Heard
<1>2. Begun = 0 /\ Utterances(heard) = {} /\ delivered = <<>>
  BY <1>1 DEF DeliveryInv, Tracks, DeliversFirstUtterance
<1>3. /\ n \in Nat /\ Len(heard') = n + 1 /\ heard \in Seq(BOOLEAN)
      /\ heard'[n + 1] = TRUE
      /\ Begun' = OpenAt(heard', 0, n + 1)
      /\ Utterances(heard') = IF IsUtterance(heard', 0, n + 1) THEN {<<0, n + 1>>} ELSE {}
  BY <1>1, <1>2, HeardMore
<1>4. Begun' = n + 1
  BY <1>3, Zenon DEF OpenAt
<1>5. Utterances(heard') = {}
  BY <1>3 DEF IsUtterance
<1>6. recording' = Recorded(n + 1, n + 2)
  <2>1. Recorded(n + 1, n + 1) = <<>>
    <3>1. (IF (n + 1) - (n + 1) < Frames THEN (n + 1) - (n + 1) ELSE Frames) = 0
      BY <1>3, RoomIs
    <3>. QED
      BY <3>1 DEF Recorded
  <2>2. recording' = Kept(Recorded(n + 1, n + 1))
    BY <2>1 DEF Begin
  <2>. QED
    BY <1>3, <2>2, KeptIs
<1>7. Cardinality(SpeechIn(heard', n + 1, n + 1)) = 1
  <2>1. n + 1 \in 1 .. n + 1
    BY <1>3
  <2>2. /\ Cardinality(SpeechIn(heard, n + 1, n)) = 0
        /\ Cardinality(SpeechIn(heard', n + 1, n + 1)) = Cardinality(SpeechIn(heard, n + 1, n)) + 1
    BY <1>1, <2>1, HeardMore
  <2>. QED
    BY <2>2
<1>8. /\ state' = "RECORDING" /\ running' = running /\ delivered' = <<>>
      /\ speech_frame_count' = 1 /\ vad_hangover_count' = VAD_HANGOVER_FRAMES
  BY <1>2 DEF Begin
<1>9. LET last == (n + 1) - (VAD_HANGOVER_FRAMES - vad_hangover_count')
      IN last >= n + 1 /\ heard'[last] /\ \A j \in last + 1 .. n + 1 : ~heard'[j]
  <2>1. (n + 1) - (VAD_HANGOVER_FRAMES - vad_hangover_count') = n + 1
    BY <1>3, <1>8, VadAssumption
  <2>. QED
    BY <1>3, <2>1
<1>10. Tracks'
  <2>1. n + 1 \in 1 .. n + 1 /\ n + 1 # 0 /\ (n + 1) + 1 = n + 2
    BY <1>3
  <2>. QED
    BY <1>1, <1>3, <1>4, <1>6, <1>7, <1>8, <1>9, <2>1 DEF Tracks
<1>. QED
  BY <1>5, <1>8, <1>10 DEF DeliveryInv, DeliversFirstUtterance

\* How far the recording reaches, and how long the silence is, in frames.
LEMMA StretchIs ==
  ASSUME TypeOK, DeliveryInv, state = "RECORDING"
  PROVE  /\ Len(heard) \in Nat /\ heard \in Seq(BOOLEAN)
         /\ Begun \in 1 .. Len(heard)
         /\ Fits(recording) <=> Len(heard) + 1 - Begun < Frames
         /\ vad_hangover_count \in 0 .. VAD_HANGOVER_FRAMES
         /\ LET last == Len(heard) - (VAD_HANGOVER_FRAMES - vad_hangover_count)
            IN /\ last >= Begun
               /\ heard[last]
               /\ \A j \in last + 1 .. Len(heard) : ~heard[j]
<1>1. /\ Len(heard) \in Nat /\ heard \in Seq(BOOLEAN)
      /\ vad_hangover_count \in 0 .. VAD_HANGOVER_FRAMES
  BY DEF TypeOK
<1>2. /\ Begun \in 1 .. Len(heard)
      /\ recording = Recorded(Begun, Len(heard) + 1)
      /\ LET last == Len(heard) - (VAD_HANGOVER_FRAMES - vad_hangover_count)
         IN last >= Begun /\ heard[last] /\ \A j \in last + 1 .. Len(heard) : ~heard[j]
  BY DEF DeliveryInv, Tracks
<1>3. PICK i \in Nat : i = Len(heard) + 1 /\ Begun <= i /\ Begun \in Nat
  BY <1>1, <1>2
<1>4. Fits(Recorded(Begun, i)) <=> i - Begun < Frames
  BY <1>3, RecordedLength
<1>. QED
  BY <1>1, <1>2, <1>3, <1>4

LEMMA ContinueDelivers ==
  ASSUME TypeOK, DeliveryInv, Continue
  PROVE  DeliveryInv'
<1>1. state = "RECORDING" /\ Heard(TRUE) /\ Fits(recording)
  BY DEF Continue
<1>2. /\ Len(heard) \in Nat /\ Begun \in 1 .. Len(heard)
      /\ Len(heard) + 1 - Begun < Frames
  BY <1>1, StretchIs
<1>3. heard'[Len(heard) + 1] = TRUE
  BY <1>1, HeardMore
<1>4. ~Ends(heard', Begun, Len(heard) + 1)
  BY <1>2, <1>3, VadAssumption, RoomIs DEF Ends
<1>5. /\ state' = state /\ running' = running /\ delivered' = delivered
      /\ recording' = Kept(recording) /\ speech_frame_count' = speech_frame_count + 1
      /\ vad_hangover_count' = VAD_HANGOVER_FRAMES
      /\ VAD_HANGOVER_FRAMES \in 0 .. VAD_HANGOVER_FRAMES
  BY VadAssumption DEF Continue
<1>. QED
  BY <1>1, <1>4, <1>5, GoesOn

LEMMA HangOverDelivers ==
  ASSUME TypeOK, DeliveryInv, HangOver
  PROVE  DeliveryInv'
<1>. DEFINE n == Len(heard)
            last == n - (VAD_HANGOVER_FRAMES - vad_hangover_count)
<1>1. state = "RECORDING" /\ Heard(FALSE) /\ vad_hangover_count > 0
  BY DEF HangOver, Pause
<1>2. /\ n \in Nat /\ Begun \in 1 .. n /\ vad_hangover_count \in 0 .. VAD_HANGOVER_FRAMES
      /\ last >= Begun /\ heard[last]
  BY <1>1, StretchIs
<1>3. heard'[n + 1] = FALSE /\ \A j \in 1 .. n : heard'[j] = heard[j]
  BY <1>1, HeardMore
<1>4. last \in 1 .. n /\ last \in (n + 1) - VAD_HANGOVER_FRAMES .. n + 1
  BY <1>1, <1>2, VadAssumption
<1>. HIDE DEF last, n
<1>5. heard'[last]
  BY <1>2, <1>3, <1>4
<1>6. ~Ends(heard', Begun, n + 1)
  BY <1>3, <1>4, <1>5 DEF Ends
<1>7. /\ state' = state /\ running' = running /\ delivered' = delivered
      /\ recording' = Kept(recording) /\ speech_frame_count' = speech_frame_count
      /\ vad_hangover_count' = vad_hangover_count - 1
  BY DEF HangOver, Pause
<1>8. /\ vad_hangover_count' \in 0 .. VAD_HANGOVER_FRAMES
      /\ speech_frame_count' = speech_frame_count + 0
  BY <1>1, <1>2, <1>7, VadAssumption DEF TypeOK
<1>. QED
  BY <1>1, <1>6, <1>7, <1>8, GoesOn DEF n

LEMMA FinishSilentDelivers ==
  ASSUME TypeOK, DeliveryInv, FinishSilent
  PROVE  DeliveryInv'
<1>. DEFINE n == Len(heard)
            last == n - (VAD_HANGOVER_FRAMES - vad_hangover_count)
<1>1. /\ state = "RECORDING" /\ Heard(FALSE) /\ vad_hangover_count = 0
      /\ Finish(speech_frame_count)
  BY DEF FinishSilent
<1>2. /\ n \in Nat /\ Begun \in 1 .. n
      /\ last >= Begun /\ (\A j \in last + 1 .. n : ~heard[j])
  BY <1>1, StretchIs
<1>3. heard'[n + 1] = FALSE /\ \A j \in 1 .. n : heard'[j] = heard[j]
  BY <1>1, HeardMore
<1>4. last = n - VAD_HANGOVER_FRAMES
  BY <1>1, <1>2, VadAssumption
<1>5. (n + 1) - Begun > VAD_HANGOVER_FRAMES
  BY <1>2, <1>4, VadAssumption
<1>6. ASSUME NEW j \in (n + 1) - VAD_HANGOVER_FRAMES .. n + 1 PROVE ~heard'[j]
  <2>1. j = n + 1 \/ (j \in last + 1 .. n /\ j \in 1 .. n)
    BY <1>2, <1>4, VadAssumption
  <2>. HIDE DEF last, n
  <2>. QED
    BY <1>2, <1>3, <2>1
<1>7. Ends(heard', Begun, n + 1)
  BY <1>5, <1>6 DEF Ends
<1>8. Finish(speech_frame_count + 0)
  <2>1. speech_frame_count + 0 = speech_frame_count
    BY DEF TypeOK
  <2>. QED
    BY <1>1, <2>1
<1>. QED
  BY <1>1, <1>7, <1>8, StretchEnds

LEMMA FinishFullDelivers ==
  ASSUME TypeOK, DeliveryInv, FinishFull
  PROVE  DeliveryInv'
<1>1. /\ state = "RECORDING" /\ Heard(TRUE) /\ ~Fits(recording)
      /\ Finish(speech_frame_count + 1)
  BY DEF FinishFull, FullAfter
<1>2. /\ Len(heard) \in Nat /\ Begun \in 1 .. Len(heard)
      /\ ~(Len(heard) + 1 - Begun < Frames)
  BY <1>1, StretchIs
<1>3. heard'[Len(heard) + 1] = TRUE
  BY <1>1, HeardMore
<1>4. Ends(heard', Begun, Len(heard) + 1)
  BY <1>2, <1>3, RoomIs DEF Ends
<1>. QED
  BY <1>1, <1>4, StretchEnds

LEMMA DeliveryStep == TypeOK /\ DeliveryInv /\ [Next]_vars => DeliveryInv'
<1>. SUFFICES ASSUME TypeOK, DeliveryInv, [Next]_vars PROVE DeliveryInv'
  OBVIOUS
<1>1. CASE Stop
  <2>1. running /\ delivered = <<>>
    BY <1>1 DEF Stop, DeliveryInv
  <2>. QED
    BY <1>1, <2>1 DEF Stop, DeliveryInv, Tracks, DeliversFirstUtterance
<1>2. CASE UNCHANGED vars
  BY <1>2 DEF vars, DeliveryInv, Tracks, DeliversFirstUtterance, Begun
<1>. QED
  BY <1>1, <1>2, StartDelivers, IgnoreDelivers, BeginDelivers, ContinueDelivers,
     HangOverDelivers, FinishSilentDelivers, FinishFullDelivers DEF Next

\* The callback gets exactly the first utterance of what was heard, when it
\* ends, and nothing else: for every hangover, minimum, capacity and frame size
\* and however long the thread listens.
\* (the states and counters of audio_process_thread_entry)
THEOREM DeliversTheFirst == Spec => []DeliversFirstUtterance
<1>1. Init => SizeInv /\ DeliveryInv
  BY SizeInit, DeliveryInit
<1>2. SizeInv /\ DeliveryInv /\ [Next]_vars => (SizeInv /\ DeliveryInv)'
  BY SizeStep, DeliveryStep DEF SizeInv
<1>3. DeliveryInv => DeliversFirstUtterance
  BY DEF DeliveryInv
<1>. QED
  BY <1>1, <1>2, <1>3, PTL DEF Spec
=============================================================================
