------------------------- MODULE Conversions_proofs -------------------------
(***************************************************************************)
(* What the conversions of the audio and of the texts compute, for every   *)
(* width, length and content: the filter and the casts of the voice        *)
(* activity detector, Base64, and the search for the wake word.            *)
(***************************************************************************)
EXTENDS NoiseReduction, Codecs, FiniteSetTheorems, WellFoundedInduction, TLAPS

-----------------------------------------------------------------------------
\* A set of natural numbers has a least element, and induction, on the set of
\* the numbers that have a property.
LEMMA LeastElement ==
  ASSUME NEW T \in SUBSET Nat, T # {}
  PROVE  \E x \in T : \A y \in T : x <= y
<1>. DEFINE R == OpToRel(<, Nat)
<1>1. IsWellFoundedOn(R, Nat)
  BY NatLessThanWellFounded, Zenon
<1>2. \A x, y \in Nat : x < y => <<x, y>> \in R
  BY DEF OpToRel
<1>. HIDE DEF R
<1>3. PICK x \in T : \A y \in T : ~(<<y, x>> \in R)
  BY <1>1, WFMin
<1>4. ASSUME NEW y \in T PROVE x <= y
  <2>1. x \in Nat /\ y \in Nat
    OBVIOUS
  <2>2. ~(y < x)
    BY <1>2, <1>3, <2>1
  <2>. QED
    BY <2>1, <2>2
<1>. QED
  BY <1>4

LEMMA Induction ==
  ASSUME NEW T, 0 \in T, \A n \in Nat : n \in T => n + 1 \in T
  PROVE  Nat \subseteq T
<1>. DEFINE U == Nat \ T
<1>. SUFFICES ASSUME U # {} PROVE FALSE
  OBVIOUS
<1>1. PICK x \in U : \A y \in U : x <= y
  BY LeastElement
<1>2. x # 0 /\ x - 1 \in Nat
  BY <1>1
<1>3. x - 1 \in T
  BY <1>1, <1>2
<1>. QED
  BY <1>2, <1>3


-----------------------------------------------------------------------------
(* The high-pass filter is stable, and below half of full scale no cast of *)
(* a sample loses anything.                                                *)

\* What the types need is part of the invariant.
Typed ==
  /\ nr_prev_sample \in Int
  /\ nr_prev_output \in Int
  /\ frame \in Seq(Int)

IInv == Typed /\ Stable

\* Rounding does not take the decayed value out of an interval of integers:
\* a value that is at most Peak from the sample it follows decays to one that
\* is at most Peak from it too, because the factor is between 0 and 1.
LEMMA DecayStaysNear ==
  ASSUME NEW x \in Int, NEW y \in Int, NEW P \in Nat, NEW d \in Decayed(y),
         Abs(x) <= P, Abs(y - x) <= P
  PROVE  d \in Int /\ Abs(d - x) <= P
<1>1. d = (15938355 * y) \div 16777216 \/ d = -((15938355 * (-y)) \div 16777216)
  BY DEF Decayed
<1>2. -P <= x /\ x <= P /\ -P <= y - x /\ y - x <= P
  BY DEF Abs
<1>3. -P <= (15938355 * y) \div 16777216 - x /\ (15938355 * y) \div 16777216 - x <= P
  BY <1>2, SMTT(60)
<1>4. /\ -P <= -((15938355 * (-y)) \div 16777216) - x
      /\ -((15938355 * (-y)) \div 16777216) - x <= P
  BY <1>2, SMTT(60)
<1>5. d \in Int /\ -P <= d - x /\ d - x <= P
  BY <1>1, <1>3, <1>4
<1> QED
  BY <1>5 DEF Abs

\* The invariant holds in every state: the filter, run on, stays near its input.
THEOREM Inductive == Spec => []IInv
<1>1. Init => IInv
  <2> SUFFICES ASSUME Init PROVE IInv
    OBVIOUS
  <2>1. Abs(0) <= Peak /\ Abs(0 - 0) <= Peak
    BY PeakAssumption DEF Abs
  <2> QED
    BY <2>1 DEF Init, IInv, Typed, Stable
<1>2. IInv /\ [Next]_vars => IInv'
  <2> SUFFICES ASSUME IInv, [Next]_vars PROVE IInv'
    OBVIOUS
  <2> USE DEF IInv, Typed, Stable
  <2>1. ASSUME NEW current \in Samples, Filter(current) PROVE IInv'
    <3>1. PICK d \in Decayed(nr_prev_output) :
            FilterWith(current, current - nr_prev_sample + d)
      BY <2>1 DEF Filter
    <3> DEFINE output == current - nr_prev_sample + d
    <3>2. current \in Int /\ Abs(current) <= Peak
      BY PeakAssumption DEF Abs
    <3>3. d \in Int /\ Abs(d - nr_prev_sample) <= Peak
      BY DecayStaysNear, PeakAssumption
    <3>4. output \in Int /\ Abs(output - current) <= Peak /\ Abs(output) <= 2 * Peak
      BY <3>2, <3>3, PeakAssumption DEF Abs
    <3>5. /\ nr_prev_sample' = current
          /\ nr_prev_output' = output
          /\ frame' = Append(frame, output)
      BY <3>1 DEF FilterWith
    <3> HIDE DEF output
    <3>6. Typed'
      BY <3>2, <3>4, <3>5
    <3>7. \A i \in DOMAIN frame' : Abs(frame'[i]) <= 2 * Peak
      BY <3>4, <3>5
    <3> QED
      BY <3>2, <3>4, <3>5, <3>6, <3>7
  <2>2. CASE EndOfFrame
    BY <2>2 DEF EndOfFrame
  <2>3. CASE Restart
    <3>1. Abs(0) <= Peak /\ Abs(0 - 0) <= Peak
      BY PeakAssumption DEF Abs
    <3> QED
      BY <2>3, <3>1 DEF Restart
  <2>4. CASE UNCHANGED vars
    BY <2>4 DEF vars
  <2> QED
    BY <2>1, <2>2, <2>3, <2>4 DEF Next
<1> QED
  BY <1>1, <1>2, PTL DEF Spec

\* The filter's output is within Peak of its input, so within twice the peak,
\* however long audio_noise_reduction runs.
THEOREM Stability == Spec => []Stable
<1>1. IInv => Stable
  BY DEF IInv
<1> QED
  BY <1>1, Inductive, PTL

\* The widths of the code, in their proportions: half of full scale is left
\* free, and an int holds the square of a sample that PCM holds.
BelowHalfScale == 2 * Peak < Scale * PcmHalf
IntHoldsSquares == IntHalf \in Nat /\ LongSize \in Nat /\ PcmHalf * PcmHalf < IntHalf
                     /\ IntHalf <= LongSize

LEMMA WrappedIsIdentity ==
  ASSUME NEW v \in Int, NEW h \in Nat \ {0}, -h <= v, v < h
  PROVE  Wrapped(v, h) = v
<1>1. 0 <= v + h /\ v + h < 2 * h
  OBVIOUS
<1>2. (v + h) % (2 * h) = v + h
  BY <1>1
<1> QED
  BY <1>2 DEF Wrapped

LEMMA ScaledBound ==
  ASSUME NEW y \in Int, BelowHalfScale, Abs(y) <= 2 * Peak
  PROVE  Scaled(y) \in Int /\ -PcmHalf <= Scaled(y) /\ Scaled(y) < PcmHalf
<1>1. -(Scale * PcmHalf) < y /\ y < Scale * PcmHalf
  BY PeakAssumption, WidthAssumption DEF BelowHalfScale, Abs
<1> DEFINE q == y \div Scale
<1>2. q \in Int /\ Scale * q <= y /\ y < Scale * (q + 1)
  BY WidthAssumption
<1>3. q < PcmHalf
  <2>1. SUFFICES ASSUME PcmHalf <= q PROVE FALSE
    BY <1>2, WidthAssumption
  <2>2. Scale * PcmHalf <= Scale * q
    BY <1>2, <2>1, WidthAssumption
  <2> QED
    BY <1>1, <1>2, <2>2, WidthAssumption
<1>4. -PcmHalf <= q
  <2>1. SUFFICES ASSUME q + 1 <= -PcmHalf PROVE FALSE
    BY <1>2, WidthAssumption
  <2>2. Scale * (q + 1) <= Scale * (-PcmHalf)
    BY <1>2, <2>1, WidthAssumption
  <2> QED
    BY <1>1, <1>2, <2>2, WidthAssumption
<1> QED
  BY <1>2, <1>3, <1>4 DEF Scaled

LEMMA SquareBound ==
  ASSUME NEW s \in Int, NEW h \in Nat, -h <= s, s <= h
  PROVE  0 <= s * s /\ s * s <= h * h
OBVIOUS

LEMMA SquaresKept ==
  ASSUME BelowHalfScale, IntHoldsSquares, Typed, Stable, NEW i \in DOMAIN frame
  PROVE  /\ Converted(frame)[i] = Scaled(frame[i])
         /\ Square(frame[i]) = Scaled(frame[i]) * Scaled(frame[i])
         /\ Square(frame[i]) \in Nat /\ Square(frame[i]) <= PcmHalf * PcmHalf
<1>. DEFINE s == Scaled(frame[i])
<1>1. frame[i] \in Int /\ Abs(frame[i]) <= 2 * Peak
  BY DEF Typed, Stable
<1>2. s \in Int /\ -PcmHalf <= s /\ s < PcmHalf
  BY <1>1, ScaledBound
<1>3. Wrapped(s, PcmHalf) = s
  BY <1>2, WrappedIsIdentity, WidthAssumption
<1>4. 0 <= s * s /\ s * s <= PcmHalf * PcmHalf
  BY <1>2, SquareBound, WidthAssumption
<1>5. s * s \in Int /\ s * s < IntHalf /\ IntHalf \in Nat \ {0} /\ -IntHalf <= s * s
  BY <1>2, <1>4, WidthAssumption DEF IntHoldsSquares
<1>6. Wrapped(s * s, IntHalf) = s * s
  BY <1>5, WrappedIsIdentity
<1>7. (s * s) % LongSize = s * s
  BY <1>4, <1>5 DEF IntHoldsSquares
<1>. QED
  BY <1>3, <1>4, <1>5, <1>6, <1>7 DEF Converted, Square

\* A sound below half of full scale: no cast changes a sample or its square.
THEOREM CastsKeepValues ==
  ASSUME BelowHalfScale, IntHoldsSquares
  PROVE  Spec => []SamplesKept
<1>1. IInv => SamplesKept
  BY SquaresKept DEF IInv, SamplesKept
<1> QED
  BY <1>1, Inductive, PTL

-----------------------------------------------------------------------------
(* The energy of a frame: the folds over its samples are recursive         *)
(* functions on the sets of positions, and both take the positions in the  *)
(* same order.                                                             *)

First(S) == CHOOSE x \in S : TRUE

\* The sets of at most n positions.
Small(D, n) == {S \in SUBSET D : Cardinality(S) <= n}

LEMMA OneLess ==
  ASSUME NEW D, IsFiniteSet(D), NEW n \in Nat, NEW S \in Small(D, n + 1), NEW x \in S
  PROVE  x \in D /\ S \ {x} \in Small(D, n)
<1>1. S \in SUBSET D /\ Cardinality(S) <= n + 1
  BY DEF Small
<1>2. IsFiniteSet(S)
  BY <1>1, FS_Subset
<1>3. /\ Cardinality(S) \in Nat
      /\ Cardinality(S \ {x}) = IF x \in S THEN Cardinality(S) - 1 ELSE Cardinality(S)
  BY <1>2, FS_CardinalityType, FS_RemoveElement
<1>4. S \ {x} \in SUBSET D /\ Cardinality(S \ {x}) <= n
  BY <1>1, <1>3
<1>. QED
  BY <1>1, <1>4 DEF Small

LEMMA SmallIs ==
  ASSUME NEW D, IsFiniteSet(D)
  PROVE  /\ Small(D, 0) = {{}}
         /\ \A n \in Nat : {} \in Small(D, n) /\ Small(D, n) \subseteq Small(D, n + 1)
         /\ Small(D, Cardinality(D)) = SUBSET D
<1>1. Cardinality({}) = 0 /\ Cardinality(D) \in Nat
  BY FS_EmptySet, FS_CardinalityType
<1>2. \A S \in SUBSET D : IsFiniteSet(S) /\ Cardinality(S) <= Cardinality(D) /\ Cardinality(S) \in Nat
  BY FS_Subset, FS_CardinalityType
<1>3. \A S \in SUBSET D : Cardinality(S) = 0 => S = {}
  BY <1>2, FS_EmptySet
<1>. QED
  BY <1>1, <1>2, <1>3 DEF Small

\* A step over the elements, one picked after the other, has a fold.
Folds(F, Sets, base, pick, step) ==
  F = [S \in Sets |-> IF S = {} THEN base ELSE step[<<F[S \ {pick[S]}], pick[S]>>]]

LEMMA FoldExists ==
  ASSUME NEW D, IsFiniteSet(D), NEW V, NEW base \in V, NEW step \in [V \X D -> V],
         NEW pick, \A S \in SUBSET D : S # {} => pick[S] \in S
  PROVE  \E F \in [SUBSET D -> V] : Folds(F, SUBSET D, base, pick, step)
<1>. DEFINE T == {n \in Nat : \E F \in [Small(D, n) -> V] : Folds(F, Small(D, n), base, pick, step)}
<1>0. ASSUME NEW n \in Nat, NEW S \in Small(D, n + 1), S # {}
      PROVE  pick[S] \in D /\ S \ {pick[S]} \in Small(D, n)
  <2>1. pick[S] \in S
    BY <1>0 DEF Small
  <2>. QED
    BY <2>1, OneLess
<1>1. 0 \in T
  <2>. DEFINE F == [S \in Small(D, 0) |-> base]
  <2>1. \A S \in Small(D, 0) : S = {}
    BY SmallIs
  <2>2. F \in [Small(D, 0) -> V] /\ Folds(F, Small(D, 0), base, pick, step)
    BY <2>1 DEF Folds
  <2>. QED
    BY <2>2
<1>2. ASSUME NEW n \in Nat, n \in T PROVE n + 1 \in T
  <2>1. PICK F \in [Small(D, n) -> V] : Folds(F, Small(D, n), base, pick, step)
    BY <1>2
  <2>. DEFINE Less(S) == S \ {pick[S]}
              G == [S \in Small(D, n + 1) |->
                      IF S = {} THEN base ELSE step[<<F[Less(S)], pick[S]>>]]
  <2>2. ASSUME NEW S \in Small(D, n + 1), S # {}
        PROVE  Less(S) \in Small(D, n) /\ pick[S] \in D
    BY <1>0, <2>2
  <2>3. ASSUME NEW S \in Small(D, n) PROVE G[S] = F[S]
    <3>1. S \in Small(D, n + 1)
      BY SmallIs
    <3>. QED
      BY <2>1, <3>1 DEF Folds
  <2>4. G \in [Small(D, n + 1) -> V]
    <3>1. ASSUME NEW S \in Small(D, n + 1), S # {} PROVE step[<<F[Less(S)], pick[S]>>] \in V
      <4>1. F[Less(S)] \in V /\ pick[S] \in D
        BY <2>2, <3>1
      <4>. QED
        BY <4>1
    <3>. QED
      BY <3>1
  <2>5. \A S \in Small(D, n + 1) :
          G[S] = IF S = {} THEN base ELSE step[<<G[Less(S)], pick[S]>>]
    BY <2>2, <2>3
  <2>. HIDE DEF G
  <2>6. Folds(G, Small(D, n + 1), base, pick, step)
    BY <2>4, <2>5 DEF Folds
  <2>. QED
    BY <2>4, <2>6
<1>3. Nat \subseteq T
  <2>. HIDE DEF T
  <2>. QED
    BY <1>1, <1>2, Induction
<1>4. Cardinality(D) \in T
  BY <1>3, FS_CardinalityType
<1>5. PICK F \in [Small(D, Cardinality(D)) -> V] :
        Folds(F, Small(D, Cardinality(D)), base, pick, step)
  BY <1>4
<1>6. Small(D, Cardinality(D)) = SUBSET D
  BY SmallIs
<1>. QED
  BY <1>5, <1>6

\* The sum of a, and the sum in a word of the given width.
Totals(G, D, a) ==
  G = [S \in SUBSET D |-> IF S = {} THEN 0 ELSE G[S \ {First(S)}] + a[First(S)]]

Wraps(F, D, a, width) ==
  F = [S \in SUBSET D |->
         IF S = {} THEN 0 ELSE (F[S \ {First(S)}] + a[First(S)]) % width]

\* As long as the sum does not reach the width, it is the sum.
LEMMA SumsAgree ==
  ASSUME NEW D, IsFiniteSet(D), NEW a \in [D -> Nat], NEW top \in Nat, NEW width \in Nat,
         \A x \in D : a[x] <= top,
         Cardinality(D) * top < width,
         NEW F, Wraps(F, D, a, width), NEW G, Totals(G, D, a)
  PROVE  F[D] = G[D] /\ G[D] \in Nat /\ G[D] <= Cardinality(D) * top
<1>. DEFINE Agree(n) ==
              \A S \in Small(D, n) : F[S] = G[S] /\ G[S] \in Nat /\ G[S] <= n * top
            T == {n \in Nat : n <= Cardinality(D) => Agree(n)}
<1>0. Cardinality(D) \in Nat
  BY FS_CardinalityType
<1>1. 0 \in T
  <2>1. \A S \in Small(D, 0) : S = {} /\ S \in SUBSET D
    BY SmallIs
  <2>2. 0 <= 0 * top
    OBVIOUS
  <2>. QED
    BY <2>1, <2>2 DEF Wraps, Totals
<1>2. ASSUME NEW n \in Nat, n \in T PROVE n + 1 \in T
  <2>6. SUFFICES ASSUME n + 1 <= Cardinality(D) PROVE Agree(n + 1)
    <3>. HIDE DEF Agree
    <3>. QED
      OBVIOUS
  <2>7. Agree(n)
    <3>. HIDE DEF Agree
    <3>. QED
      BY <1>0, <1>2, <2>6
  <2>1. SUFFICES ASSUME NEW S \in Small(D, n + 1)
                 PROVE  F[S] = G[S] /\ G[S] \in Nat /\ G[S] <= (n + 1) * top
    OBVIOUS
  <2>2. S \in SUBSET D
    BY DEF Small
  <2>3. /\ (n + 1) * top = n * top + top /\ n * top \in Nat
        /\ (n + 1) * top <= Cardinality(D) * top
    BY <1>0, <2>6
  <2>4. CASE S = {}
    BY <2>2, <2>3, <2>4 DEF Wraps, Totals
  <2>5. CASE S # {}
    <3>. DEFINE R == S \ {First(S)}
                x == First(S)
    <3>0. x \in S
      BY <2>5 DEF First
    <3>1. x \in D /\ R \in Small(D, n)
      BY <3>0, OneLess
    <3>2. F[R] = G[R] /\ G[R] \in Nat /\ G[R] <= n * top
      BY <2>7, <3>1
    <3>3. F[S] = (F[R] + a[x]) % width /\ G[S] = G[R] + a[x]
      BY <2>2, <2>5 DEF Wraps, Totals
    <3>4. a[x] \in Nat /\ a[x] <= top
      BY <3>1
    <3>. HIDE DEF R, x
    <3>5. G[R] + a[x] \in Nat /\ G[R] + a[x] <= (n + 1) * top /\ G[R] + a[x] < width
      BY <1>0, <2>3, <3>2, <3>4
    <3>6. (G[R] + a[x]) % width = G[R] + a[x]
      BY <3>5
    <3>. QED
      BY <3>2, <3>3, <3>5, <3>6
  <2>. QED
    BY <2>4, <2>5
<1>3. Nat \subseteq T
  <2>. HIDE DEF T
  <2>. QED
    BY <1>1, <1>2, Induction
<1>4. Agree(Cardinality(D))
  <2>. HIDE DEF Agree
  <2>. QED
    BY <1>0, <1>3
<1>5. D \in Small(D, Cardinality(D))
  BY SmallIs
<1>. QED
  BY <1>4, <1>5

\* The two sums of a frame's energy, as recursive functions.
Adds(F, terms) ==
  F = [S \in SUBSET DOMAIN terms |->
         IF S = {} THEN 0 ELSE (F[S \ {First(S)}] + terms[First(S)]) % LongSize]

AddsSquares(F, f) ==
  F = [S \in SUBSET DOMAIN f |->
         IF S = {} THEN 0
         ELSE F[S \ {First(S)}] + Scaled(f[First(S)]) * Scaled(f[First(S)])]

LEMMA SumIs ==
  ASSUME NEW terms, \E F : Adds(F, terms)
  PROVE  \E F : Adds(F, terms) /\ Sum(terms) = F[DOMAIN terms]
BY Zenon DEF Sum, FoldSeq, FoldFunction, FoldFunctionOnSet, MapThenFoldSet, First, Adds

LEMMA SquaresAre ==
  ASSUME NEW f, \E F : AddsSquares(F, f)
  PROVE  \E F : /\ AddsSquares(F, f)
                /\ FoldSeq(LAMBDA y, s : s + Scaled(y) * Scaled(y), 0, f) = F[DOMAIN f]
BY Zenon DEF FoldSeq, FoldFunction, FoldFunctionOnSet, MapThenFoldSet, First, AddsSquares

\* The sum of a frame's squares fits in a uint64_t, and their mean in a uint32_t.
WordsHoldSums ==
  /\ LongSize \in Nat /\ FrameSize * (PcmHalf * PcmHalf) < LongSize
  /\ UintSize \in Nat /\ PcmHalf * PcmHalf < UintSize

\* The mean of n numbers up to top is at most top.
LEMMA MeanIsSmall ==
  ASSUME NEW t \in Nat, NEW n \in Nat, n > 0, NEW top \in Nat, t <= n * top
  PROVE  t \div n \in Nat /\ t \div n <= top
<1>1. t \div n \in Nat /\ n * (t \div n) <= t
  OBVIOUS
<1>. DEFINE x == t \div n
<1>. HIDE DEF x
<1>2. ASSUME top + 1 <= x PROVE FALSE
  <2>1. n * (top + 1) <= n * x
    BY <1>1, <1>2 DEF x
  <2>2. n * (top + 1) = n * top + n
    OBVIOUS
  <2>. QED BY <1>1, <2>1, <2>2 DEF x
<1>. QED
  BY <1>1, <1>2 DEF x

LEMMA EnergyIsMean ==
  ASSUME BelowHalfScale, IntHoldsSquares, WordsHoldSums, Typed, Stable,
         Len(frame) = FrameSize
  PROVE  FrameEnergy(frame) =
           FoldSeq(LAMBDA y, s : s + Scaled(y) * Scaled(y), 0, frame) \div FrameSize
<1>. DEFINE D == DOMAIN frame
            a == [i \in D |-> Square(frame[i])]
            top == PcmHalf * PcmHalf
<1>1. D = 1 .. FrameSize /\ FrameSize \in Nat /\ FrameSize > 0
  BY FrameSizeAssumption DEF Typed
<1>2. IsFiniteSet(D) /\ Cardinality(D) = FrameSize
  BY <1>1, FS_Interval
<1>3. top \in Nat /\ LongSize \in Nat /\ LongSize > 0
  BY WidthAssumption DEF IntHoldsSquares
<1>4. /\ \A i \in D : a[i] = Scaled(frame[i]) * Scaled(frame[i]) /\ a[i] <= top
      /\ a \in [D -> Nat]
  BY SquaresKept
<1>. HIDE DEF D, a, top
<1>5. \E F : Adds(F, a)
  <2>. DEFINE step == [y \in Int \X D |-> (y[1] + a[y[2]]) % LongSize]
              pick == [S \in SUBSET D |-> First(S)]
  <2>0. \A S \in SUBSET D : S # {} => pick[S] \in S
    BY DEF First
  <2>1. step \in [Int \X D -> Int]
    BY <1>3, <1>4
  <2>2. \A v \in Int : \A i \in D : step[<<v, i>>] = (v + a[i]) % LongSize
    OBVIOUS
  <2>. HIDE DEF step, pick
  <2>. 0 \in Int /\ IsFiniteSet(D)
    BY <1>2
  <2>3. PICK F \in [SUBSET D -> Int] : Folds(F, SUBSET D, 0, pick, step)
    BY <2>0, <2>1, FoldExists, Zenon
  <2>4. ASSUME NEW S \in SUBSET D, S # {}
        PROVE  F[S] = (F[S \ {First(S)}] + a[First(S)]) % LongSize
    <3>1. First(S) \in D /\ F[S \ {First(S)}] \in Int
      BY <2>4 DEF First
    <3>2. F[S] = step[<<F[S \ {First(S)}], First(S)>>]
      <4>1. pick[S] = First(S)
        BY DEF pick
      <4>. QED
        BY <2>3, <2>4, <4>1 DEF Folds
    <3>. QED
      BY <2>2, <3>1, <3>2
  <2>5. F[{}] = 0
    BY <2>3 DEF Folds
  <2>6. Adds(F, a)
    <3>1. DOMAIN a = D
      BY <1>4
    <3>. QED
      BY <2>4, <2>5, <3>1 DEF Adds
  <2>. QED
    BY <2>6
<1>6. \E F : AddsSquares(F, frame)
  <2>. DEFINE step == [y \in Int \X D |-> y[1] + a[y[2]]]
              pick == [S \in SUBSET D |-> First(S)]
  <2>0. \A S \in SUBSET D : S # {} => pick[S] \in S
    BY DEF First
  <2>1. step \in [Int \X D -> Int]
    BY <1>4
  <2>2. \A v \in Int : \A i \in D : step[<<v, i>>] = v + a[i]
    OBVIOUS
  <2>. HIDE DEF step, pick
  <2>. 0 \in Int /\ IsFiniteSet(D)
    BY <1>2
  <2>3. PICK F \in [SUBSET D -> Int] : Folds(F, SUBSET D, 0, pick, step)
    BY <2>0, <2>1, FoldExists, Zenon
  <2>4. ASSUME NEW S \in SUBSET D, S # {}
        PROVE  F[S] = F[S \ {First(S)}] + Scaled(frame[First(S)]) * Scaled(frame[First(S)])
    <3>1. First(S) \in D /\ F[S \ {First(S)}] \in Int
      BY <2>4 DEF First
    <3>2. F[S] = step[<<F[S \ {First(S)}], First(S)>>]
      <4>1. pick[S] = First(S)
        BY DEF pick
      <4>. QED
        BY <2>3, <2>4, <4>1 DEF Folds
    <3>3. a[First(S)] = Scaled(frame[First(S)]) * Scaled(frame[First(S)])
      BY <1>4, <3>1
    <3>. QED
      BY <2>2, <3>1, <3>2, <3>3
  <2>5. F[{}] = 0
    BY <2>3 DEF Folds
  <2>6. AddsSquares(F, frame)
    BY <2>4, <2>5 DEF AddsSquares, D
  <2>. QED
    BY <2>6
<1>7. PICK F : Adds(F, a) /\ Sum(a) = F[DOMAIN a]
  BY <1>5, SumIs
<1>8. PICK G : /\ AddsSquares(G, frame)
               /\ FoldSeq(LAMBDA y, s : s + Scaled(y) * Scaled(y), 0, frame) = G[D]
  BY <1>6, SquaresAre DEF D
<1>9. DOMAIN a = D
  BY <1>4
<1>10. Wraps(F, D, a, LongSize)
  BY <1>7, <1>9 DEF Adds, Wraps
<1>11. Totals(G, D, a)
  <2>1. G = [S \in SUBSET D |->
               IF S = {} THEN 0
               ELSE G[S \ {First(S)}] + Scaled(frame[First(S)]) * Scaled(frame[First(S)])]
    BY <1>8 DEF AddsSquares, D
  <2>2. \A S \in SUBSET D :
          S # {} => a[First(S)] = Scaled(frame[First(S)]) * Scaled(frame[First(S)])
    BY <1>4 DEF First
  <2>. QED
    BY <2>1, <2>2 DEF Totals
<1>12. Cardinality(D) * top < LongSize
  BY <1>2 DEF WordsHoldSums, top
<1>13. F[D] = G[D] /\ G[D] \in Nat /\ G[D] <= FrameSize * top
  <2>1. IsFiniteSet(D) /\ a \in [D -> Nat] /\ \A x \in D : a[x] <= top
    BY <1>2, <1>4
  <2>2. F[D] = G[D] /\ G[D] \in Nat /\ G[D] <= Cardinality(D) * top
    BY <1>3, <1>10, <1>11, <1>12, <2>1, SumsAgree
  <2>. QED
    BY <1>2, <2>2
<1>14. G[D] \div FrameSize \in Nat /\ G[D] \div FrameSize <= top
  BY <1>1, <1>3, <1>13, MeanIsSmall
<1>15. (G[D] \div FrameSize) % UintSize = G[D] \div FrameSize
  <2>1. PICK q \in Nat : q = G[D] \div FrameSize /\ q <= top
    BY <1>14
  <2>2. UintSize \in Nat /\ q < UintSize
    BY <1>3, <2>1 DEF WordsHoldSums, top
  <2>3. q % UintSize = q
    BY <2>2
  <2>. QED
    BY <2>1, <2>3
<1>16. FrameEnergy(frame) = (Sum(a) \div FrameSize) % UintSize
  BY DEF FrameEnergy, a, D
<1>. QED
  BY <1>7, <1>8, <1>9, <1>13, <1>15, <1>16

\* A sound below half of full scale: no cast changes a sample or its square,
\* and the energy of a frame is the mean of the squares of its samples.
\* (audio_noise_reduction, audio_calculate_energy and audio_convert_32to16)
THEOREM NeverDistorted ==
  ASSUME BelowHalfScale, IntHoldsSquares, WordsHoldSums
  PROVE  Spec => []Undistorted
<1>1. IInv => Undistorted
  BY SquaresKept, EnergyIsMean DEF IInv, Undistorted, SamplesKept
<1>. QED
  BY <1>1, Inductive, PTL

-----------------------------------------------------------------------------
(* base64_decode undoes base64_encode.                                     *)

Byte == 0 .. 255
Word24 == {t \in Nat : t < 16777216}

\* Three bytes as a number of 24 bits, its bytes, and its four sextets.
Triple(a, b, c) == 65536 * a + 256 * b + c

HighByte(t) == (t \div 65536) % 256
MidByte(t) == (t \div 256) % 256
LowByte(t) == (t \div 1) % 256

SextetA(t) == (t \div 262144) % 64
SextetB(t) == (t \div 4096) % 64
SextetC(t) == (t \div 64) % 64
SextetD(t) == (t \div 1) % 64

Joined(p, q, r, s) == 262144 * p + 4096 * q + 64 * r + s

LEMMA ThreeBytes ==
  ASSUME NEW a \in Byte, NEW b \in Byte, NEW c \in Byte
  PROVE  /\ Triple(a, b, c) \in Word24
         /\ HighByte(Triple(a, b, c)) = a
         /\ MidByte(Triple(a, b, c)) = b
         /\ LowByte(Triple(a, b, c)) = c
<1>. DEFINE t == 65536 * a + 256 * b + c
<1>1. t \in Nat /\ t < 16777216
  BY SMT DEF Byte
<1>2. t \div 65536 = a /\ a % 256 = a
  BY SMT DEF Byte
<1>3. t \div 256 = 256 * a + b /\ (256 * a + b) % 256 = b
  BY SMT DEF Byte
<1>4. t \div 1 = t /\ t % 256 = c
  BY SMT DEF Byte
<1>. QED
  BY <1>1, <1>2, <1>3, <1>4, SMT DEF Triple, Word24, HighByte, MidByte, LowByte

\* The sextets make the number up again.
LEMMA FourSextets ==
  ASSUME NEW t \in Word24
  PROVE  /\ SextetA(t) \in 0 .. 63 /\ SextetB(t) \in 0 .. 63
         /\ SextetC(t) \in 0 .. 63 /\ SextetD(t) \in 0 .. 63
         /\ Joined(SextetA(t), SextetB(t), SextetC(t), SextetD(t)) = t
<1>1. t \in Int /\ 0 <= t /\ t < 16777216
  BY SMT DEF Word24
<1>2. /\ SextetA(t) \in 0 .. 63 /\ SextetB(t) \in 0 .. 63
      /\ SextetC(t) \in 0 .. 63 /\ SextetD(t) \in 0 .. 63
  BY <1>1, SMT DEF SextetA, SextetB, SextetC, SextetD
<1>3. /\ t \div 1 = t
      /\ t = 64 * (t \div 64) + (t % 64)
      /\ t \div 64 = 64 * (t \div 4096) + ((t \div 64) % 64)
      /\ t \div 4096 = 64 * (t \div 262144) + ((t \div 4096) % 64)
      /\ (t \div 262144) % 64 = t \div 262144
  BY <1>1, SMT
<1>. QED
  BY <1>1, <1>2, <1>3, SMT DEF SextetA, SextetB, SextetC, SextetD, Joined

\* The bits of a missing byte are 0, and so are the sextets with no other bits.
LEMMA MissingBytes ==
  ASSUME NEW a \in Byte, NEW b \in Byte
  PROVE  SextetD(Triple(a, b, 0)) = 0 /\ SextetC(Triple(a, 0, 0)) = 0
<1>1. (65536 * a + 256 * b) % 64 = 0 /\ (65536 * a) \div 64 = 1024 * a
  BY SMT DEF Byte
<1>2. (1024 * a) % 64 = 0
  BY SMT DEF Byte
<1>3. /\ Triple(a, b, 0) \div 1 = 65536 * a + 256 * b
      /\ Triple(a, 0, 0) = 65536 * a
  BY SMT DEF Byte, Triple
<1>. QED
  BY <1>1, <1>2, <1>3, SMT DEF SextetC, SextetD

-----------------------------------------------------------------------------
(* The lengths. *)

Groups(n) == (n + 2) \div 3

LEMMA Lengths ==
  ASSUME NEW n \in Nat, n > 0
  PROVE  /\ Groups(n) \in Nat /\ Groups(n) >= 1
         /\ EncodedLen(n) = 4 * Groups(n)
         /\ Padding(n) = 3 * Groups(n) - n /\ Padding(n) \in 0 .. 2
BY SMT DEF Groups, EncodedLen, Padding

-----------------------------------------------------------------------------
(* The characters. *)

LEMMA OctetsAreBytes ==
  ASSUME NEW audio \in Seq(Byte), NEW k \in Nat
  PROVE  /\ \A i \in Nat : i >= 1 => Octet(audio, i) \in Byte
         /\ Octets(audio, k) = Triple(Octet(audio, 3 * k + 1), Octet(audio, 3 * k + 2),
                                     Octet(audio, 3 * k + 3))
         /\ Octets(audio, k) \in Word24
<1>1. 0 \in Byte
  BY SMT DEF Byte
<1>2. \A i \in Nat : i >= 1 => Octet(audio, i) \in Byte
  BY <1>1, SMT DEF Octet
<1>3. /\ Octet(audio, 3 * k + 1) \in Byte /\ Octet(audio, 3 * k + 2) \in Byte
      /\ Octet(audio, 3 * k + 3) \in Byte
  BY <1>2, SMT
<1>4. Octets(audio, k) = Triple(Octet(audio, 3 * k + 1), Octet(audio, 3 * k + 2),
                               Octet(audio, 3 * k + 3))
  BY SMT DEF Octets, Triple
<1>. QED
  BY <1>2, <1>3, <1>4, ThreeBytes, SMT

\* No sextet is taken for the padding character.
LEMMA SextetNotPad ==
  ASSUME NEW x \in 0 .. 63
  PROVE  x # Pad
BY SMT DEF Pad

\* The four characters of the k-th group.
LEMMA SextetIs ==
  ASSUME NEW audio, NEW k \in Nat
  PROVE  /\ Sextet(audio, 4 * k + 1) = SextetA(Octets(audio, k))
         /\ Sextet(audio, 4 * k + 2) = SextetB(Octets(audio, k))
         /\ Sextet(audio, 4 * k + 3) = SextetC(Octets(audio, k))
         /\ Sextet(audio, 4 * k + 4) = SextetD(Octets(audio, k))
<1>1. /\ ((4 * k + 1) - 1) \div 4 = k /\ (((4 * k + 1) - 1) % 4) + 1 = 1
      /\ ((4 * k + 2) - 1) \div 4 = k /\ (((4 * k + 2) - 1) % 4) + 1 = 2
      /\ ((4 * k + 3) - 1) \div 4 = k /\ (((4 * k + 3) - 1) % 4) + 1 = 3
      /\ ((4 * k + 4) - 1) \div 4 = k /\ (((4 * k + 4) - 1) % 4) + 1 = 4
  BY SMT
<1>2. /\ Weight64[1] = 262144 /\ Weight64[2] = 4096
      /\ Weight64[3] = 64 /\ Weight64[4] = 1
  BY SMT DEF Weight64
<1>. QED
  BY <1>1, <1>2, SMT DEF Sextet, SextetA, SextetB, SextetC, SextetD

LEMMA EncodedIs ==
  ASSUME NEW audio \in Seq(Byte), audio # <<>>
  PROVE  /\ Len(base64_encode(audio)) = 4 * Groups(Len(audio))
         /\ \A j \in 1 .. 4 * Groups(Len(audio)) :
              base64_encode(audio)[j] =
                IF j > 4 * Groups(Len(audio)) - Padding(Len(audio))
                THEN Pad ELSE Sextet(audio, j)
<1>1. Len(audio) \in Nat /\ Len(audio) > 0
  BY SMT
<1>2. EncodedLen(Len(audio)) = 4 * Groups(Len(audio)) /\ Groups(Len(audio)) \in Nat
  BY <1>1, Lengths, SMT
<1>. QED
  BY <1>2, SMT DEF base64_encode

\* A padded character stands for a sextet that is 0 anyway.
LEMMA ValueIs ==
  ASSUME NEW audio \in Seq(Byte), audio # <<>>, NEW k \in Nat, k < Groups(Len(audio)),
         NEW i \in 1 .. 4
  PROVE  /\ Value(base64_encode(audio), 4 * k + i) = Sextet(audio, 4 * k + i)
         /\ Sextet(audio, 4 * k + i) \in 0 .. 63
<1>. DEFINE n == Len(audio)
            e == base64_encode(audio)
            j == 4 * k + i
<1>1. n \in Nat /\ n > 0 /\ i \in {1, 2, 3, 4}
  BY SMT
<1>2. /\ Groups(n) \in Nat /\ Padding(n) = 3 * Groups(n) - n /\ Padding(n) \in 0 .. 2
      /\ k + 1 <= Groups(n)
  BY <1>1, Lengths, SMT
<1>3. j \in 1 .. 4 * Groups(n)
  BY <1>2, SMT
<1>4. Octets(audio, k) \in Word24
  BY OctetsAreBytes, SMT
<1>5. /\ i = 1 => Sextet(audio, j) = SextetA(Octets(audio, k))
      /\ i = 2 => Sextet(audio, j) = SextetB(Octets(audio, k))
      /\ i = 3 => Sextet(audio, j) = SextetC(Octets(audio, k))
      /\ i = 4 => Sextet(audio, j) = SextetD(Octets(audio, k))
  BY SextetIs, SMT
<1>6. Sextet(audio, j) \in 0 .. 63
  <2>1. /\ SextetA(Octets(audio, k)) \in 0 .. 63 /\ SextetB(Octets(audio, k)) \in 0 .. 63
        /\ SextetC(Octets(audio, k)) \in 0 .. 63 /\ SextetD(Octets(audio, k)) \in 0 .. 63
    BY <1>4, FourSextets, SMT
  <2>2. CASE i = 1
    BY <1>5, <2>1, <2>2, SMT
  <2>3. CASE i = 2
    BY <1>5, <2>1, <2>3, SMT
  <2>4. CASE i = 3
    BY <1>5, <2>1, <2>4, SMT
  <2>5. CASE i = 4
    BY <1>5, <2>1, <2>5, SMT
  <2>. QED
    BY <1>1, <2>2, <2>3, <2>4, <2>5, SMT
<1>7. e[j] = IF j > 4 * Groups(n) - Padding(n) THEN Pad ELSE Sextet(audio, j)
  BY <1>3, EncodedIs, SMT
<1>8. ASSUME j > 4 * Groups(n) - Padding(n)
      PROVE  Sextet(audio, j) = 0
  <2>1. k + 1 = Groups(n) /\ i > 4 - Padding(n)
    BY <1>2, <1>8, SMT
  <2>2. n = 3 * k + 3 - Padding(n)
    BY <1>1, <1>2, <2>1, SMT
  <2>3. /\ Octet(audio, 3 * k + 1) \in Byte /\ Octet(audio, 3 * k + 2) \in Byte
        /\ Octets(audio, k) = Triple(Octet(audio, 3 * k + 1), Octet(audio, 3 * k + 2),
                                    Octet(audio, 3 * k + 3))
    BY OctetsAreBytes, SMT
  <2>4. Octet(audio, 3 * k + 3) = 0
    <3>1. Padding(n) >= 1
      BY <1>2, <2>1, SMT
    <3>2. ~ 3 * k + 3 <= n
      BY <1>2, <2>2, <3>1, SMT
    <3>. QED
      BY <3>2, SMT DEF Octet
  <2>5. CASE i = 4
    BY <1>5, <2>3, <2>4, <2>5, MissingBytes, SMT
  <2>6. CASE i = 3
    <3>1. Octet(audio, 3 * k + 2) = 0
      BY <1>1, <1>2, <2>1, <2>2, <2>6, SMT DEF Octet
    <3>. QED
      BY <1>5, <2>3, <2>4, <2>6, <3>1, MissingBytes, SMT
  <2>. QED
    BY <1>1, <1>2, <2>1, <2>5, <2>6, SMT
<1>9. Value(e, j) = IF e[j] = Pad THEN 0 ELSE e[j]
  BY SMT DEF Value
<1>10. Value(e, j) = Sextet(audio, j)
  <2>1. CASE j > 4 * Groups(n) - Padding(n)
    BY <1>7, <1>8, <1>9, <2>1, SMT
  <2>2. CASE ~ j > 4 * Groups(n) - Padding(n)
    <3>1. e[j] = Sextet(audio, j)
      BY <1>7, <2>2, SMT
    <3>2. e[j] # Pad
      BY <1>6, <3>1, SextetNotPad, SMT
    <3>. QED
      BY <1>9, <3>1, <3>2, SMT
  <2>. QED
    BY <2>1, <2>2, SMT
<1>. QED
  BY <1>6, <1>10

\* A group of characters holds the bits of its three bytes.
LEMMA GroupsAgree ==
  ASSUME NEW audio \in Seq(Byte), audio # <<>>, NEW k \in Nat, k < Groups(Len(audio))
  PROVE  Sextets(base64_encode(audio), k) = Octets(audio, k)
<1>. DEFINE e == base64_encode(audio)
            t == Octets(audio, k)
<1>1. 1 \in 1 .. 4 /\ 2 \in 1 .. 4 /\ 3 \in 1 .. 4 /\ 4 \in 1 .. 4
  BY SMT
<1>2. /\ Value(e, 4 * k + 1) = SextetA(t) /\ Value(e, 4 * k + 2) = SextetB(t)
      /\ Value(e, 4 * k + 3) = SextetC(t) /\ Value(e, 4 * k + 4) = SextetD(t)
  BY <1>1, ValueIs, SextetIs, SMT
<1>3. t \in Word24
  BY OctetsAreBytes, SMT
<1>4. Joined(SextetA(t), SextetB(t), SextetC(t), SextetD(t)) = t
  BY <1>3, FourSextets, SMT
<1>. QED
  BY <1>2, <1>4, SMT DEF Sextets, Joined

\* The decoder finds the length in the number of '=' at the end.
LEMMA DecodedLenIs ==
  ASSUME NEW audio \in Seq(Byte), audio # <<>>
  PROVE  DecodedLen(base64_encode(audio)) = Len(audio)
<1>. DEFINE n == Len(audio)
            e == base64_encode(audio)
            g == Groups(n)
<1>1. n \in Nat /\ n > 0
  BY SMT
<1>2. g \in Nat /\ g >= 1 /\ Padding(n) = 3 * g - n /\ Padding(n) \in 0 .. 2
  BY <1>1, Lengths, SMT
<1>3. PICK k \in Nat : k = g - 1 /\ 4 * g = 4 * k + 4 /\ 4 * g - 1 = 4 * k + 3
  BY <1>2, SMT
<1>4. Sextet(audio, 4 * k + 4) \in 0 .. 63 /\ Sextet(audio, 4 * k + 3) \in 0 .. 63
  <2>1. k < g /\ 3 \in 1 .. 4 /\ 4 \in 1 .. 4
    BY <1>2, <1>3, SMT
  <2>. QED
    BY <2>1, ValueIs, SMT
<1>5. /\ Len(e) = 4 * g
      /\ e[4 * k + 4] = IF 4 * k + 4 > 4 * g - Padding(n) THEN Pad
                        ELSE Sextet(audio, 4 * k + 4)
      /\ e[4 * k + 3] = IF 4 * k + 3 > 4 * g - Padding(n) THEN Pad
                        ELSE Sextet(audio, 4 * k + 3)
  <2>1. 4 * k + 4 \in 1 .. 4 * g /\ 4 * k + 3 \in 1 .. 4 * g
    BY <1>2, <1>3, SMT
  <2>. QED
    BY <2>1, EncodedIs, SMT
<1>6. e[4 * k + 4] = Pad <=> Padding(n) >= 1
  <2>1. CASE Padding(n) >= 1
    <3>1. 4 * k + 4 > 4 * g - Padding(n)
      BY <1>2, <1>3, <2>1, SMT
    <3>. QED
      BY <1>5, <2>1, <3>1, SMT
  <2>2. CASE ~ Padding(n) >= 1
    <3>1. ~ 4 * k + 4 > 4 * g - Padding(n)
      BY <1>2, <1>3, <2>2, SMT
    <3>2. e[4 * k + 4] = Sextet(audio, 4 * k + 4)
      BY <1>5, <3>1, SMT
    <3>3. e[4 * k + 4] # Pad
      BY <1>4, <3>2, SextetNotPad, SMT
    <3>. QED
      BY <2>2, <3>3, SMT
  <2>. QED
    BY <2>1, <2>2, SMT
<1>7. e[4 * k + 3] = Pad <=> Padding(n) >= 2
  <2>1. CASE Padding(n) >= 2
    <3>1. 4 * k + 3 > 4 * g - Padding(n)
      BY <1>2, <1>3, <2>1, SMT
    <3>. QED
      BY <1>5, <2>1, <3>1, SMT
  <2>2. CASE ~ Padding(n) >= 2
    <3>1. ~ 4 * k + 3 > 4 * g - Padding(n)
      BY <1>2, <1>3, <2>2, SMT
    <3>2. e[4 * k + 3] = Sextet(audio, 4 * k + 3)
      BY <1>5, <3>1, SMT
    <3>3. e[4 * k + 3] # Pad
      BY <1>4, <3>2, SextetNotPad, SMT
    <3>. QED
      BY <2>2, <3>3, SMT
  <2>. QED
    BY <2>1, <2>2, SMT
<1>8. DecodedLen(e) = 3 * g - One(e[4 * k + 4] = Pad) - One(e[4 * k + 3] = Pad)
  <2>1. Len(e) \div 4 = g /\ Len(e) = 4 * k + 4 /\ Len(e) - 1 = 4 * k + 3
    BY <1>2, <1>3, <1>5, SMT
  <2>2. g * 3 = 3 * g
    BY <1>2, SMT
  <2>. QED
    BY <2>1, <2>2, SMT DEF DecodedLen
<1>. QED
  BY <1>1, <1>2, <1>6, <1>7, <1>8, SMT DEF One

\* Audio of any length survives the way to the service and back: base64_decode
\* of base64_encode gives every byte back and no other.
\* (the groups, shifts and padding of the two functions of ai_cloud_service.c)
THEOREM DecodeUndoesEncode ==
  ASSUME NEW audio \in Seq(Byte), audio # <<>>
  PROVE  base64_decode(base64_encode(audio)) = audio
<1>. DEFINE n == Len(audio)
            e == base64_encode(audio)
<1>1. n \in Nat /\ n > 0 /\ DecodedLen(e) = n
  BY DecodedLenIs, SMT
<1>2. ASSUME NEW j \in 1 .. n
      PROVE  (Sextets(e, (j - 1) \div 3) \div Weight256[((j - 1) % 3) + 1]) % 256
               = audio[j]
  <2>. DEFINE k == (j - 1) \div 3
              r == (j - 1) % 3
              t == Octets(audio, k)
  <2>1. k \in Nat /\ k < Groups(n) /\ r \in {0, 1, 2} /\ j = 3 * k + (r + 1)
    BY <1>1, SMT DEF Groups
  <2>2. Sextets(e, k) = t
    BY <2>1, GroupsAgree, SMT
  <2>. HIDE DEF k, r
  <2>3. /\ HighByte(t) = Octet(audio, 3 * k + 1)
        /\ MidByte(t) = Octet(audio, 3 * k + 2)
        /\ LowByte(t) = Octet(audio, 3 * k + 3)
    <3>1. /\ t = Triple(Octet(audio, 3 * k + 1), Octet(audio, 3 * k + 2),
                        Octet(audio, 3 * k + 3))
          /\ Octet(audio, 3 * k + 1) \in Byte /\ Octet(audio, 3 * k + 2) \in Byte
          /\ Octet(audio, 3 * k + 3) \in Byte
      BY <2>1, OctetsAreBytes, SMT
    <3>. QED
      BY <3>1, ThreeBytes, SMT
  <2>4. Weight256[1] = 65536 /\ Weight256[2] = 256 /\ Weight256[3] = 1
    BY SMT DEF Weight256
  <2>5. Octet(audio, j) = audio[j]
    BY <1>1, SMT DEF Octet
  <2>6. (t \div Weight256[r + 1]) % 256 = Octet(audio, j)
    <3>1. CASE r = 0
      BY <2>1, <2>3, <2>4, <3>1, SMT DEF HighByte
    <3>2. CASE r = 1
      BY <2>1, <2>3, <2>4, <3>2, SMT DEF MidByte
    <3>3. CASE r = 2
      BY <2>1, <2>3, <2>4, <3>3, SMT DEF LowByte
    <3>. QED
      BY <2>1, <3>1, <3>2, <3>3, SMT
  <2>. QED
    BY <2>2, <2>5, <2>6, SMT DEF k, r
<1>3. base64_decode(e) = [j \in 1 .. n |-> audio[j]]
  BY <1>1, <1>2, SMT DEF base64_decode
<1>. QED
  BY <1>3, SMT

-----------------------------------------------------------------------------
(* The characters of the encoded audio carry its bits.                     *)

LEMMA QuotientIs ==
  ASSUME NEW t \in Nat, NEW d \in Nat, d > 0, NEW q \in Nat, d * q <= t, t < d * (q + 1)
  PROVE  t \div d = q
<1>1. t \div d \in Nat /\ d * (t \div d) <= t /\ t < d * ((t \div d) + 1)
  OBVIOUS
<1>. DEFINE x == t \div d
<1>. HIDE DEF x
<1>2. ASSUME x < q PROVE FALSE
  <2>1. d * (x + 1) <= d * q
    BY <1>1, <1>2 DEF x
  <2>. QED BY <1>1, <2>1 DEF x
<1>3. ASSUME q < x PROVE FALSE
  <2>1. d * (q + 1) <= d * x
    BY <1>1, <1>3 DEF x
  <2>. QED BY <1>1, <2>1 DEF x
<1>. QED
  BY <1>1, <1>2, <1>3 DEF x

LEMMA DivDiv ==
  ASSUME NEW t \in Nat, NEW w \in Nat, NEW m \in Nat, w > 0, m > 0
  PROVE  (t \div w) \div m = t \div (w * m)
<1>. DEFINE x == t \div w
            q == x \div m
<1>1. x \in Nat /\ w * x <= t /\ t < w * (x + 1)
  OBVIOUS
<1>. HIDE DEF x
<1>2. q \in Nat /\ m * q <= x /\ x < m * (q + 1)
  BY <1>1
<1>. HIDE DEF q
<1>3. x + 1 <= m * (q + 1) /\ m * q \in Nat /\ m * (q + 1) \in Nat
  BY <1>1, <1>2
<1>4. w * (m * q) <= w * x /\ w * (x + 1) <= w * (m * (q + 1))
  <2>1. \A a, b \in Nat : a <= b => w * a <= w * b
    OBVIOUS
  <2>. QED
    BY <1>1, <1>2, <1>3, <2>1
<1>5. w * (m * q) = (w * m) * q /\ w * (m * (q + 1)) = (w * m) * (q + 1) /\ w * m \in Nat /\ w * m > 0
  BY <1>2
<1>6. (w * m) * q <= t /\ t < (w * m) * (q + 1)
  BY <1>1, <1>2, <1>3, <1>4, <1>5
<1>7. t \div (w * m) = q
  BY <1>2, <1>5, <1>6, QuotientIs
<1>. QED
  BY <1>7 DEF q, x

LEMMA SextetBits ==
  ASSUME NEW x \in Nat, NEW i \in 3 .. 8
  PROVE  ((x % 64) \div BitWeight[i]) % 2 = (x \div BitWeight[i]) % 2
<1>. DEFINE Same(m) == ((x % 64) \div m) % 2 = (x \div m) % 2
<1>1. Same(32)
  OBVIOUS
<1>2. Same(16)
  OBVIOUS
<1>3. Same(8)
  OBVIOUS
<1>4. Same(4)
  OBVIOUS
<1>5. Same(2)
  OBVIOUS
<1>6. Same(1)
  <2>1. x \div 1 = x /\ (x % 64) \div 1 = x % 64 /\ (x % 64) % 2 = x % 2
    OBVIOUS
  <2>. QED
    BY <2>1
<1>7. BitWeight[i] \in {32, 16, 8, 4, 2, 1}
  BY DEF BitWeight
<1>. HIDE DEF Same
<1>8. Same(BitWeight[i])
  BY <1>1, <1>2, <1>3, <1>4, <1>5, <1>6, <1>7
<1>. QED
  BY <1>8 DEF Same

LEMMA OctetBits ==
  ASSUME NEW x \in Nat, NEW i \in 1 .. 8
  PROVE  ((x % 256) \div BitWeight[i]) % 2 = (x \div BitWeight[i]) % 2
<1>. DEFINE Same(m) == ((x % 256) \div m) % 2 = (x \div m) % 2
<1>1. Same(128)
  OBVIOUS
<1>2. Same(64)
  OBVIOUS
<1>3. Same(32)
  OBVIOUS
<1>4. Same(16)
  OBVIOUS
<1>5. Same(8)
  OBVIOUS
<1>6. Same(4)
  OBVIOUS
<1>7. Same(2)
  OBVIOUS
<1>8. Same(1)
  <2>1. x \div 1 = x /\ (x % 256) \div 1 = x % 256 /\ (x % 256) % 2 = x % 2
    OBVIOUS
  <2>. QED
    BY <2>1
<1>9. BitWeight[i] \in {128, 64, 32, 16, 8, 4, 2, 1}
  BY DEF BitWeight
<1>. HIDE DEF Same
<1>10. Same(BitWeight[i])
  BY <1>1, <1>2, <1>3, <1>4, <1>5, <1>6, <1>7, <1>8, <1>9
<1>. QED
  BY <1>10 DEF Same

LEMMA SameWeight ==
  ASSUME NEW r \in 0 .. 23
  PROVE  Weight64[r \div 6 + 1] * BitWeight[3 + (r % 6)]
           = Weight256[r \div 8 + 1] * BitWeight[1 + (r % 8)]
<1>1. CASE r = 0
  BY <1>1 DEF Weight64, Weight256, BitWeight
<1>2. CASE r = 1
  BY <1>2 DEF Weight64, Weight256, BitWeight
<1>3. CASE r = 2
  BY <1>3 DEF Weight64, Weight256, BitWeight
<1>4. CASE r = 3
  BY <1>4 DEF Weight64, Weight256, BitWeight
<1>5. CASE r = 4
  BY <1>5 DEF Weight64, Weight256, BitWeight
<1>6. CASE r = 5
  BY <1>6 DEF Weight64, Weight256, BitWeight
<1>7. CASE r = 6
  BY <1>7 DEF Weight64, Weight256, BitWeight
<1>8. CASE r = 7
  BY <1>8 DEF Weight64, Weight256, BitWeight
<1>9. CASE r = 8
  BY <1>9 DEF Weight64, Weight256, BitWeight
<1>10. CASE r = 9
  BY <1>10 DEF Weight64, Weight256, BitWeight
<1>11. CASE r = 10
  BY <1>11 DEF Weight64, Weight256, BitWeight
<1>12. CASE r = 11
  BY <1>12 DEF Weight64, Weight256, BitWeight
<1>13. CASE r = 12
  BY <1>13 DEF Weight64, Weight256, BitWeight
<1>14. CASE r = 13
  BY <1>14 DEF Weight64, Weight256, BitWeight
<1>15. CASE r = 14
  BY <1>15 DEF Weight64, Weight256, BitWeight
<1>16. CASE r = 15
  BY <1>16 DEF Weight64, Weight256, BitWeight
<1>17. CASE r = 16
  BY <1>17 DEF Weight64, Weight256, BitWeight
<1>18. CASE r = 17
  BY <1>18 DEF Weight64, Weight256, BitWeight
<1>19. CASE r = 18
  BY <1>19 DEF Weight64, Weight256, BitWeight
<1>20. CASE r = 19
  BY <1>20 DEF Weight64, Weight256, BitWeight
<1>21. CASE r = 20
  BY <1>21 DEF Weight64, Weight256, BitWeight
<1>22. CASE r = 21
  BY <1>22 DEF Weight64, Weight256, BitWeight
<1>23. CASE r = 22
  BY <1>23 DEF Weight64, Weight256, BitWeight
<1>24. CASE r = 23
  BY <1>24 DEF Weight64, Weight256, BitWeight
<1>. QED
  BY <1>1, <1>2, <1>3, <1>4, <1>5, <1>6, <1>7, <1>8, <1>9, <1>10, <1>11,
     <1>12, <1>13, <1>14, <1>15, <1>16, <1>17, <1>18, <1>19, <1>20, <1>21,
     <1>22, <1>23, <1>24

\* The bit r of a group, read from its characters and from its bytes.
LEMMA GroupBits ==
  ASSUME NEW t \in Nat, NEW r \in 0 .. 23
  PROVE  (((t \div Weight64[r \div 6 + 1]) % 64) \div BitWeight[3 + (r % 6)]) % 2
           = (((t \div Weight256[r \div 8 + 1]) % 256) \div BitWeight[1 + (r % 8)]) % 2
<1>1. /\ r \div 6 + 1 \in 1 .. 4 /\ r \div 8 + 1 \in 1 .. 3
      /\ 3 + (r % 6) \in 3 .. 8 /\ 1 + (r % 8) \in 1 .. 8
  OBVIOUS
<1>2. /\ \A i \in 1 .. 4 : Weight64[i] \in Nat /\ Weight64[i] > 0
      /\ \A i \in 1 .. 3 : Weight256[i] \in Nat /\ Weight256[i] > 0
      /\ \A i \in 1 .. 8 : BitWeight[i] \in Nat /\ BitWeight[i] > 0
  BY DEF Weight64, Weight256, BitWeight
<1>. DEFINE u == Weight64[r \div 6 + 1]
            v == Weight256[r \div 8 + 1]
            i == 3 + (r % 6)
            j == 1 + (r % 8)
<1>3. /\ u \in Nat /\ u > 0 /\ v \in Nat /\ v > 0
      /\ BitWeight[i] \in Nat /\ BitWeight[i] > 0
      /\ BitWeight[j] \in Nat /\ BitWeight[j] > 0
      /\ i \in 3 .. 8 /\ j \in 1 .. 8
  BY <1>1, <1>2
<1>4. u * BitWeight[i] = v * BitWeight[j]
  BY SameWeight
<1>. HIDE DEF u, v, i, j
<1>5. t \div u \in Nat /\ t \div v \in Nat
  BY <1>3
<1>6. /\ (((t \div u) % 64) \div BitWeight[i]) % 2 = ((t \div u) \div BitWeight[i]) % 2
      /\ (((t \div v) % 256) \div BitWeight[j]) % 2 = ((t \div v) \div BitWeight[j]) % 2
  BY <1>3, <1>5, SextetBits, OctetBits
<1>7. /\ (t \div u) \div BitWeight[i] = t \div (u * BitWeight[i])
      /\ (t \div v) \div BitWeight[j] = t \div (v * BitWeight[j])
  BY <1>3, DivDiv
<1>. QED
  BY <1>4, <1>6, <1>7 DEF u, v, i, j

\* The bytes of a group, by their weights.
LEMMA OctetIs ==
  ASSUME NEW d \in Seq(Byte), NEW k \in Nat, NEW m \in 0 .. 2
  PROVE  Octet(d, 3 * k + m + 1) = (Octets(d, k) \div Weight256[m + 1]) % 256
<1>. DEFINE t == Octets(d, k)
<1>1. /\ t = Triple(Octet(d, 3 * k + 1), Octet(d, 3 * k + 2), Octet(d, 3 * k + 3))
      /\ Octet(d, 3 * k + 1) \in Byte /\ Octet(d, 3 * k + 2) \in Byte
      /\ Octet(d, 3 * k + 3) \in Byte
  <2>1. t = Triple(Octet(d, 3 * k + 1), Octet(d, 3 * k + 2), Octet(d, 3 * k + 3))
    BY OctetsAreBytes
  <2>2. \A i \in Nat : i >= 1 => Octet(d, i) \in Byte
    BY OctetsAreBytes
  <2>. QED
    BY <2>1, <2>2
<1>2. /\ HighByte(t) = Octet(d, 3 * k + 1)
      /\ MidByte(t) = Octet(d, 3 * k + 2)
      /\ LowByte(t) = Octet(d, 3 * k + 3)
  BY <1>1, ThreeBytes, SMT
<1>3. Weight256[1] = 65536 /\ Weight256[2] = 256 /\ Weight256[3] = 1
  BY DEF Weight256
<1>. HIDE DEF t
<1>4. CASE m = 0
  BY <1>2, <1>3, <1>4 DEF t, HighByte
<1>5. CASE m = 1
  BY <1>2, <1>3, <1>5 DEF t, MidByte
<1>6. CASE m = 2
  BY <1>2, <1>3, <1>6 DEF t, LowByte
<1>. QED
  BY <1>4, <1>5, <1>6

LEMMA EncodedBits ==
  ASSUME NEW d \in Seq(Byte), d # <<>>, NEW p \in Nat,
         p < 6 * ((8 * Len(d) + 5) \div 6)
  PROVE  Bit(base64_encode(d), 6, p) = IF p < 8 * Len(d) THEN Bit(d, 8, p) ELSE 0
<1>. DEFINE n == Len(d)
            e == base64_encode(d)
            k == p \div 24
            r == p % 24
            j == p \div 6 + 1
            t == Octets(d, k)
<1>1. n \in Nat /\ n > 0
  OBVIOUS
<1>2. /\ Groups(n) \in Nat /\ Padding(n) = 3 * Groups(n) - n /\ Padding(n) \in 0 .. 2
  BY <1>1, Lengths
<1>3. (8 * n + 5) \div 6 = 4 * Groups(n) - Padding(n)
  BY <1>1, <1>2
<1>4. j \in 1 .. 4 * Groups(n) /\ ~(j > 4 * Groups(n) - Padding(n))
  BY <1>2, <1>3
<1>5. e[j] = Sextet(d, j)
  BY <1>4, EncodedIs
<1>6. /\ k \in Nat /\ r \in 0 .. 23
      /\ (j - 1) \div 4 = k /\ (j - 1) % 4 = r \div 6 /\ p % 6 = r % 6
      /\ p \div 8 = 3 * k + r \div 8 /\ p % 8 = r % 8 /\ r \div 8 \in 0 .. 2
      /\ p \div 6 + 1 = j /\ j - 1 = p \div 6
  OBVIOUS
<1>7. t \in Nat
  <2>1. k \in Nat
    BY <1>6
  <2>2. t \in Word24
    BY <2>1, OctetsAreBytes
  <2>. QED
    BY <2>2 DEF Word24
<1>. HIDE DEF n, e, k, r, j
<1>8. e[j] = (t \div Weight64[r \div 6 + 1]) % 64
  BY <1>5, <1>6 DEF Sextet
<1>. HIDE DEF t
<1>9. Bit(e, 6, p) = (((t \div Weight64[r \div 6 + 1]) % 64) \div BitWeight[3 + (r % 6)]) % 2
  BY <1>6, <1>8 DEF Bit
<1>10. Octet(d, p \div 8 + 1) = (t \div Weight256[r \div 8 + 1]) % 256
  <2>1. p \div 8 + 1 = 3 * k + r \div 8 + 1
    BY <1>6
  <2>2. Octet(d, 3 * k + r \div 8 + 1) = (Octets(d, k) \div Weight256[r \div 8 + 1]) % 256
    BY <1>6, OctetIs
  <2>. QED
    BY <2>1, <2>2 DEF t
<1>11. Bit(e, 6, p) = (Octet(d, p \div 8 + 1) \div BitWeight[1 + (p % 8)]) % 2
  <2>1. (((t \div Weight64[r \div 6 + 1]) % 64) \div BitWeight[3 + (r % 6)]) % 2
          = (((t \div Weight256[r \div 8 + 1]) % 256) \div BitWeight[1 + (r % 8)]) % 2
    BY <1>6, <1>7, GroupBits
  <2>. QED
    BY <1>6, <1>9, <1>10, <2>1
<1>12. CASE p < 8 * n
  <2>1. p \div 8 + 1 <= n
    BY <1>1, <1>12
  <2>2. Octet(d, p \div 8 + 1) = d[p \div 8 + 1]
    BY <2>1 DEF Octet, n
  <2>3. 9 - 8 + (p % 8) = 1 + (p % 8)
    OBVIOUS
  <2>. QED
    BY <1>11, <1>12, <2>2, <2>3 DEF Bit, e, n
<1>13. CASE ~(p < 8 * n)
  <2>1. ~(p \div 8 + 1 <= n)
    BY <1>1, <1>13
  <2>2. Octet(d, p \div 8 + 1) = 0
    BY <2>1 DEF Octet, n
  <2>3. BitWeight[1 + (p % 8)] \in {1, 2, 4, 8, 16, 32, 64, 128}
    BY DEF BitWeight
  <2>4. (0 \div BitWeight[1 + (p % 8)]) % 2 = 0
    BY <2>3
  <2>. QED
    BY <1>11, <1>13, <2>2, <2>4 DEF e, n
<1>. QED
  BY <1>12, <1>13

LEMMA EncodedLengths ==
  ASSUME NEW d \in Seq(Byte), d # <<>>
  PROVE  LET e == base64_encode(d)
             used == (8 * Len(d) + 5) \div 6
         IN /\ Len(e) % 4 = 0 /\ Len(e) - used \in 0 .. 2
            /\ \A j \in DOMAIN e : (e[j] = Pad) = (j > used)
<1>. DEFINE n == Len(d)
            e == base64_encode(d)
            g == Groups(n)
<1>1. n \in Nat /\ n > 0
  OBVIOUS
<1>2. g \in Nat /\ Padding(n) = 3 * g - n /\ Padding(n) \in 0 .. 2
  BY <1>1, Lengths
<1>3. (8 * n + 5) \div 6 = 4 * g - Padding(n)
  BY <1>1, <1>2
<1>4. /\ Len(e) = 4 * g
      /\ \A j \in 1 .. 4 * g : e[j] = IF j > 4 * g - Padding(n) THEN Pad ELSE Sextet(d, j)
  BY EncodedIs
<1>5. DOMAIN e = 1 .. 4 * g
  <2>1. EncodedLen(n) = 4 * g
    BY <1>1, Lengths
  <2>. QED
    BY <2>1 DEF base64_encode
<1>6. ASSUME NEW j \in 1 .. 4 * g PROVE Sextet(d, j) # Pad
  <2>1. PICK k \in Nat, i \in 1 .. 4 : j = 4 * k + i /\ k < g
    <3>1. (j - 1) \div 4 \in Nat /\ ((j - 1) % 4) + 1 \in 1 .. 4
      BY <1>2
    <3>2. j = 4 * ((j - 1) \div 4) + (((j - 1) % 4) + 1) /\ (j - 1) \div 4 < g
      BY <1>2
    <3>. QED
      BY <3>1, <3>2
  <2>2. Sextet(d, 4 * k + i) \in 0 .. 63
    BY <2>1, ValueIs
  <2>. QED
    BY <2>1, <2>2, SextetNotPad
<1>. HIDE DEF e, g, n
<1>7. Len(e) % 4 = 0 /\ Len(e) - (4 * g - Padding(n)) \in 0 .. 2
  BY <1>2, <1>4
<1>8. \A j \in DOMAIN e : (e[j] = Pad) = (j > 4 * g - Padding(n))
  BY <1>4, <1>5, <1>6
<1>. QED
  BY <1>3, <1>7, <1>8 DEF e, n

\* The audio is what the type says.
LEMMA AudioTyped == CodecsSpec => [](data \in Seq(Bytes))
<1>1. NoArguments => data \in Seq(Bytes)
  BY DEF NoArguments
<1>2. data \in Seq(Bytes) /\ [MoreArguments]_arguments => (data \in Seq(Bytes))'
  BY DEF MoreArguments, Record, Hear, Name, arguments
<1>. QED
  BY <1>1, <1>2, PTL DEF CodecsSpec

\* The characters of the encoded audio carry all its bits in order, with zero
\* bits and '=' behind them, and base64_decode gives the audio back: for audio of
\* every length.
\* (the groups, shifts and padding of base64_encode and base64_decode)
THEOREM AudioAlwaysSurvives == CodecsSpec => []AudioSurvives
<1>1. ASSUME data \in Seq(Bytes) PROVE AudioSurvives
  <2>. SUFFICES ASSUME data # <<>> PROVE AudioSurvives
    BY DEF AudioSurvives
  <2>1. data \in Seq(Byte)
    <3>1. Bytes \subseteq Byte
      BY BytesAssumption DEF Byte
    <3>. QED
      BY <1>1, <3>1
  <2>2. (8 * Len(data) + 5) \div 6 \in Int
    BY <2>1
  <2>3. \A p \in 0 .. 6 * ((8 * Len(data) + 5) \div 6) - 1 :
          Bit(base64_encode(data), 6, p) = IF p < 8 * Len(data) THEN Bit(data, 8, p) ELSE 0
    BY <2>1, <2>2, EncodedBits
  <2>4. base64_decode(base64_encode(data)) = data
    BY <2>1, DecodeUndoesEncode
  <2>. QED
    BY <2>1, <2>3, <2>4, EncodedLengths DEF AudioSurvives
<1>. QED
  BY <1>1, AudioTyped, PTL

-----------------------------------------------------------------------------
(* The search for the bytes of the wake word is a search for its           *)
(* characters.                                                             *)

\* The greatest position of a set, and the positions up to i.
LEMMA GreatestPosition ==
  ASSUME NEW n \in Nat, NEW S \in SUBSET (1 .. n), S # {}
  PROVE  Max(S) \in S /\ \A y \in S : y <= Max(S)
<1>. DEFINE T == {n - x : x \in S}
<1>1. \A x \in S : x \in Nat /\ n - x \in Nat
  OBVIOUS
<1>2. T \in SUBSET Nat /\ T # {}
  BY <1>1
<1>3. PICK t \in T : \A y \in T : t <= y
  BY <1>2, LeastElement
<1>4. PICK m \in S : t = n - m
  OBVIOUS
<1>5. \A y \in S : m >= y
  BY <1>3, <1>4
<1>6. Max(S) \in S /\ \A y \in S : Max(S) >= y
  BY <1>5 DEF Max
<1>. QED
  BY <1>6

LEMMA UpTo ==
  ASSUME NEW n \in Nat, NEW i \in 1 .. n
  PROVE  /\ 1 .. i \in SUBSET (1 .. n) /\ 1 .. i # {}
         /\ Max(1 .. i) = i /\ (1 .. i) \ {i} = 1 .. i - 1
<1>1. 1 .. i \in SUBSET (1 .. n) /\ i \in 1 .. i
  OBVIOUS
<1>2. Max(1 .. i) \in 1 .. i /\ \A y \in 1 .. i : y <= Max(1 .. i)
  BY <1>1, GreatestPosition
<1>3. Max(1 .. i) = i
  BY <1>1, <1>2
<1>. QED
  BY <1>1, <1>3

\* A fold over the positions, the greatest last.
Greatest(n) == [S \in SUBSET (1 .. n) |-> Max(S)]

FoldsLeft(F, n, V, base, step) ==
  /\ F \in [SUBSET (1 .. n) -> V]
  /\ F[{}] = base
  /\ \A S \in SUBSET (1 .. n) : S # {} => F[S] = step[<<F[S \ {Max(S)}], Max(S)>>]

LEMMA FoldLeftExists ==
  ASSUME NEW n \in Nat, NEW V, NEW base \in V, NEW step \in [V \X (1 .. n) -> V]
  PROVE  \E F : FoldsLeft(F, n, V, base, step)
<1>. DEFINE D == 1 .. n
            pick == Greatest(n)
<1>1. IsFiniteSet(D)
  BY FS_Interval
<1>2. \A S \in SUBSET D : S # {} => pick[S] = Max(S) /\ pick[S] \in S
  BY GreatestPosition DEF Greatest
<1>. HIDE DEF D, pick
<1>3. PICK F \in [SUBSET D -> V] : Folds(F, SUBSET D, base, pick, step)
  BY <1>1, <1>2, FoldExists DEF D
<1>4. F[{}] = base
  BY <1>3 DEF Folds
<1>5. ASSUME NEW S \in SUBSET D, S # {} PROVE F[S] = step[<<F[S \ {Max(S)}], Max(S)>>]
  <2>1. pick[S] = Max(S)
    BY <1>2, <1>5
  <2>. QED
    BY <1>3, <1>5, <2>1 DEF Folds
<1>. QED
  BY <1>3, <1>4, <1>5 DEF D, FoldsLeft

\* What is kept step by step, and two runs of the same steps.
LEMMA KeptByRun ==
  ASSUME NEW n \in Nat, NEW V, NEW G, G[0] \in V,
         \A i \in 1 .. n : G[i - 1] \in V => G[i] \in V
  PROVE  \A i \in 0 .. n : G[i] \in V
<1>. DEFINE T == {i \in Nat : i <= n => G[i] \in V}
<1>1. 0 \in T
  OBVIOUS
<1>2. ASSUME NEW i \in Nat, i \in T PROVE i + 1 \in T
  <2>. SUFFICES ASSUME i + 1 <= n PROVE G[i + 1] \in V
    OBVIOUS
  <2>1. G[i] \in V /\ i + 1 \in 1 .. n /\ (i + 1) - 1 = i
    BY <1>2
  <2>. QED
    BY <2>1
<1>3. Nat \subseteq T
  <2>. HIDE DEF T
  <2>. QED
    BY <1>1, <1>2, Induction
<1>. QED
  BY <1>3

LEMMA SameRun ==
  ASSUME NEW n \in Nat, NEW G, NEW H, G[0] = H[0],
         \A i \in 1 .. n : G[i - 1] = H[i - 1] => G[i] = H[i]
  PROVE  G[n] = H[n]
<1>. DEFINE T == {i \in Nat : i <= n => G[i] = H[i]}
<1>1. 0 \in T
  OBVIOUS
<1>2. ASSUME NEW i \in Nat, i \in T PROVE i + 1 \in T
  <2>. SUFFICES ASSUME i + 1 <= n PROVE G[i + 1] = H[i + 1]
    OBVIOUS
  <2>1. G[i] = H[i] /\ i + 1 \in 1 .. n /\ (i + 1) - 1 = i
    BY <1>2
  <2>. QED
    BY <2>1
<1>3. Nat \subseteq T
  <2>. HIDE DEF T
  <2>. QED
    BY <1>1, <1>2, Induction
<1>. QED
  BY <1>3

-----------------------------------------------------------------------------
(* The bytes of a text. *)

Texts == Seq(Byte)

Concats(F, chars) ==
  F = [S \in SUBSET DOMAIN chars |->
         IF S = {} THEN <<>> ELSE F[S \ {Max(S)}] \o Utf8[chars[Max(S)]]]

LEMMA ConcatFolds ==
  ASSUME NEW chars, \E F : Concats(F, chars)
  PROVE  \E F : Concats(F, chars) /\ Concat(chars) = F[DOMAIN chars]
BY Zenon DEF Concat, FoldLeft, MapThenFoldSet, Concats

LEMMA BytesOf ==
  ASSUME NEW c \in Chars
  PROVE  /\ Utf8[c] \in Texts /\ Len(Utf8[c]) \in Nat /\ Len(Utf8[c]) > 0
         /\ Utf8[c][1] \in 1 .. 127 <=> Len(Utf8[c]) = 1
         /\ Utf8[c][1] \in 194 .. 223 <=> Len(Utf8[c]) = 2
         /\ Utf8[c][1] \in 224 .. 239 <=> Len(Utf8[c]) = 3
         /\ Utf8[c][1] \in 240 .. 244 <=> Len(Utf8[c]) = 4
         /\ Utf8[c][1] \in 1 .. 127 \cup 194 .. 244
         /\ \A i \in 2 .. Len(Utf8[c]) : Utf8[c][i] \in 128 .. 191
<1>1. CodePoint(Utf8[c])
  BY Utf8Assumption
<1>. DEFINE u == Utf8[c]
<1>. HIDE DEF u
<1>2. /\ u \in Texts
      /\ \/ Len(u) = 1 /\ u[1] \in 1 .. 127
         \/ Len(u) = 2 /\ u[1] \in 194 .. 223
         \/ Len(u) = 3 /\ u[1] \in 224 .. 239
         \/ Len(u) = 4 /\ u[1] \in 240 .. 244
      /\ \A i \in 2 .. Len(u) : u[i] \in 128 .. 191
  BY <1>1 DEF CodePoint, u, Texts, Byte
<1>3. Len(u) \in Nat /\ Len(u) > 0 /\ u[1] \in 1 .. 127 \cup 194 .. 244
  BY <1>2
<1>4. /\ u[1] \in 1 .. 127 <=> Len(u) = 1
      /\ u[1] \in 194 .. 223 <=> Len(u) = 2
      /\ u[1] \in 224 .. 239 <=> Len(u) = 3
      /\ u[1] \in 240 .. 244 <=> Len(u) = 4
  <2>1. CASE Len(u) = 1 /\ u[1] \in 1 .. 127
    BY <2>1
  <2>2. CASE Len(u) = 2 /\ u[1] \in 194 .. 223
    BY <2>2
  <2>3. CASE Len(u) = 3 /\ u[1] \in 224 .. 239
    BY <2>3
  <2>4. CASE Len(u) = 4 /\ u[1] \in 240 .. 244
    BY <2>4
  <2>. QED
    BY <1>2, <2>1, <2>2, <2>3, <2>4
<1>. QED
  BY <1>2, <1>3, <1>4 DEF u

LEMMA BytesTyped ==
  \A c \in Chars : Utf8[c] \in Seq(Byte) /\ Len(Utf8[c]) \in Nat /\ Len(Utf8[c]) > 0
BY BytesOf DEF Texts

\* Concat runs over a text: its results are those of the text's beginnings.
ConcatRun(G, t) ==
  /\ G \in [0 .. Len(t) -> Texts]
  /\ G[0] = <<>> /\ G[Len(t)] = Concat(t)
  /\ \A i \in 1 .. Len(t) : G[i] = G[i - 1] \o Utf8[t[i]]

LEMMA ConcatRuns ==
  ASSUME NEW t \in Seq(Chars)
  PROVE  \E G : ConcatRun(G, t)
<1>. DEFINE n == Len(t)
<1>1. n \in Nat /\ DOMAIN t = 1 .. n /\ \A i \in 1 .. n : t[i] \in Chars /\ Utf8[t[i]] \in Texts
  BY BytesOf
<1>. HIDE DEF n
<1>. DEFINE step == [y \in Texts \X (1 .. n) |-> y[1] \o Utf8[t[y[2]]]]
<1>2. step \in [Texts \X (1 .. n) -> Texts]
  BY <1>1 DEF Texts
<1>3. \A v \in Texts : \A i \in 1 .. n : step[<<v, i>>] = v \o Utf8[t[i]]
  OBVIOUS
<1>. HIDE DEF step
<1>4. \E F : Concats(F, t)
  <2>1. <<>> \in Texts
    BY DEF Texts
  <2>2. PICK F : FoldsLeft(F, n, Texts, <<>>, step)
    BY <1>1, <1>2, <2>1, FoldLeftExists
  <2>3. ASSUME NEW S \in SUBSET (1 .. n), S # {} PROVE F[S] = F[S \ {Max(S)}] \o Utf8[t[Max(S)]]
    <3>1. Max(S) \in 1 .. n /\ F[S \ {Max(S)}] \in Texts
      BY <1>1, <2>2, <2>3, GreatestPosition DEF FoldsLeft
    <3>. QED
      BY <1>3, <2>2, <2>3, <3>1 DEF FoldsLeft
  <2>4. Concats(F, t)
    BY <1>1, <2>2, <2>3 DEF Concats, FoldsLeft
  <2>. QED
    BY <2>4
<1>5. PICK F : Concats(F, t) /\ Concat(t) = F[DOMAIN t]
  BY <1>4, ConcatFolds
<1>. DEFINE G == [i \in 0 .. n |-> F[1 .. i]]
<1>6. G[0] = <<>> /\ G[n] = Concat(t)
  <2>1. 1 .. 0 = {} /\ {} \in SUBSET DOMAIN t
    OBVIOUS
  <2>2. F[{}] = <<>>
    BY <1>5, <2>1 DEF Concats
  <2>. QED
    BY <1>1, <1>5, <2>1, <2>2
<1>7. ASSUME NEW i \in 1 .. n PROVE G[i] = G[i - 1] \o Utf8[t[i]]
  <2>1. /\ 1 .. i \in SUBSET DOMAIN t /\ 1 .. i # {}
        /\ Max(1 .. i) = i /\ (1 .. i) \ {i} = 1 .. i - 1
    BY <1>1, UpTo
  <2>2. F[1 .. i] = F[1 .. i - 1] \o Utf8[t[i]]
    BY <1>5, <2>1 DEF Concats
  <2>3. G[i] = F[1 .. i] /\ G[i - 1] = F[1 .. i - 1]
    BY <1>1
  <2>. QED
    BY <2>2, <2>3
<1>8. \A i \in 0 .. n : G[i] \in Texts
  <2>. HIDE DEF G
  <2>1. G[0] \in Texts
    BY <1>6 DEF Texts
  <2>2. ASSUME NEW i \in 1 .. n, G[i - 1] \in Texts PROVE G[i] \in Texts
    <3>1. G[i] = G[i - 1] \o Utf8[t[i]] /\ Utf8[t[i]] \in Texts
      BY <1>1, <1>7
    <3>. QED
      BY <2>2, <3>1 DEF Texts
  <2>. QED
    BY <1>1, <2>1, <2>2, KeptByRun
<1>9. ConcatRun(G, t)
  BY <1>6, <1>7, <1>8 DEF ConcatRun, n
<1>. QED
  BY <1>9

LEMMA ConcatAppend ==
  /\ Concat(<<>>) = <<>>
  /\ \A t \in Seq(Chars) : Concat(t) \in Texts
  /\ \A t \in Seq(Chars) : \A c \in Chars : Concat(Append(t, c)) = Concat(t) \o Utf8[c]
<1>1. Concat(<<>>) = <<>>
  <2>1. <<>> \in Seq(Chars) /\ Len(<<>>) = 0
    OBVIOUS
  <2>2. PICK G : ConcatRun(G, <<>>)
    BY <2>1, ConcatRuns
  <2>. QED
    BY <2>1, <2>2 DEF ConcatRun
<1>2. ASSUME NEW t \in Seq(Chars) PROVE Concat(t) \in Texts
  <2>1. PICK G : ConcatRun(G, t)
    BY ConcatRuns
  <2>. QED
    BY <2>1 DEF ConcatRun
<1>3. ASSUME NEW t \in Seq(Chars), NEW c \in Chars
      PROVE  Concat(Append(t, c)) = Concat(t) \o Utf8[c]
  <2>. DEFINE u == Append(t, c)
              n == Len(t)
  <2>1. u \in Seq(Chars) /\ n \in Nat /\ Len(u) = n + 1 /\ u[n + 1] = c
        /\ \A i \in 1 .. n : u[i] = t[i]
    OBVIOUS
  <2>2. PICK G : ConcatRun(G, t)
    BY ConcatRuns
  <2>3. PICK H : ConcatRun(H, u)
    BY <2>1, ConcatRuns
  <2>. HIDE DEF u, n
  <2>4. ASSUME NEW i \in 1 .. n, G[i - 1] = H[i - 1] PROVE G[i] = H[i]
    <3>1. G[i] = G[i - 1] \o Utf8[t[i]]
      BY <2>2 DEF ConcatRun, n
    <3>2. H[i] = H[i - 1] \o Utf8[u[i]]
      BY <2>1, <2>3 DEF ConcatRun
    <3>. QED
      BY <2>1, <2>4, <3>1, <3>2
  <2>5. G[0] = H[0]
    BY <2>2, <2>3 DEF ConcatRun
  <2>6. G[n] = H[n]
    BY <2>1, <2>4, <2>5, SameRun
  <2>7. Concat(u) = H[n] \o Utf8[c]
    BY <2>1, <2>3 DEF ConcatRun
  <2>8. Concat(t) = G[n]
    BY <2>2 DEF ConcatRun, n
  <2>. QED
    BY <2>6, <2>7, <2>8 DEF u
<1>. QED
  BY <1>1, <1>2, <1>3

\* The bytes of two texts, one behind the other.
LEMMA JoinedBytes ==
  ASSUME NEW a \in Seq(Byte), NEW b \in Seq(Byte)
  PROVE  /\ a \o b \in Seq(Byte) /\ Len(a \o b) = Len(a) + Len(b)
         /\ \A p \in 1 .. Len(a) : (a \o b)[p] = a[p]
         /\ \A j \in 1 .. Len(b) : (a \o b)[Len(a) + j] = b[j]
OBVIOUS

\* What comes later adds bytes and keeps those that are there.
LEMMA ConcatGrows ==
  ASSUME NEW t \in Seq(Chars), NEW G, ConcatRun(G, t)
  PROVE  \A m \in 0 .. Len(t) : \A n \in 0 .. m :
           /\ Len(G[n]) <= Len(G[m])
           /\ \A p \in 1 .. Len(G[n]) : G[m][p] = G[n][p]
<1>. DEFINE Keeps(m, n) == /\ Len(G[n]) <= Len(G[m])
                           /\ \A p \in 1 .. Len(G[n]) : G[m][p] = G[n][p]
            T == {m \in Nat : m <= Len(t) => \A n \in 0 .. m : Keeps(m, n)}
<1>0. Len(t) \in Nat /\ \A i \in 0 .. Len(t) : G[i] \in Seq(Byte)
  BY DEF ConcatRun, Texts
<1>1. 0 \in T
  BY <1>0
<1>2. ASSUME NEW m \in Nat, m \in T PROVE m + 1 \in T
  <2>. SUFFICES ASSUME m + 1 <= Len(t), NEW n \in 0 .. m + 1 PROVE Keeps(m + 1, n)
    OBVIOUS
  <2>1. CASE n = m + 1
    <3>1. G[n] \in Seq(Byte)
      BY <1>0
    <3>. QED
      BY <2>1, <3>1
  <2>2. CASE n \in 0 .. m
    <3>1. Keeps(m, n)
      BY <1>0, <1>2, <2>2
    <3>2. m + 1 \in 1 .. Len(t) /\ (m + 1) - 1 = m /\ t[m + 1] \in Chars
      BY <1>0
    <3>3. G[m + 1] = G[m] \o Utf8[t[m + 1]] /\ Utf8[t[m + 1]] \in Seq(Byte)
      <4>1. Utf8[t[m + 1]] \in Seq(Byte)
        BY <3>2, BytesTyped, Zenon
      <4>2. G[m + 1] = G[m] \o Utf8[t[m + 1]]
        BY <3>2 DEF ConcatRun
      <4>. QED
        BY <4>1, <4>2
    <3>4. G[m] \in Seq(Byte) /\ G[n] \in Seq(Byte)
      BY <1>0, <2>2
    <3>5. /\ Len(G[m]) <= Len(G[m + 1])
          /\ \A p \in 1 .. Len(G[m]) : G[m + 1][p] = G[m][p]
      <4>1. PICK a \in Seq(Byte), b \in Seq(Byte) : G[m + 1] = a \o b /\ a = G[m]
        BY <3>3, <3>4
      <4>2. /\ Len(a) <= Len(a \o b)
            /\ \A p \in 1 .. Len(a) : (a \o b)[p] = a[p]
        BY JoinedBytes
      <4>. QED
        BY <4>1, <4>2
    <3>. QED
      BY <3>1, <3>4, <3>5
  <2>. QED
    BY <2>1, <2>2
<1>3. Nat \subseteq T
  <2>. HIDE DEF T
  <2>. QED
    BY <1>1, <1>2, Induction
<1>. QED
  BY <1>0, <1>3

\* Where in the bytes the characters of a text begin.
Layout(o, t) ==
  /\ o \in [0 .. Len(t) -> Nat]
  /\ o[0] = 0 /\ o[Len(t)] = Len(Concat(t))
  /\ \A n \in 1 .. Len(t) :
       /\ o[n] = o[n - 1] + Len(Utf8[t[n]])
       /\ \A j \in 1 .. Len(Utf8[t[n]]) : Concat(t)[o[n - 1] + j] = Utf8[t[n]][j]

LEMMA LayoutExists ==
  ASSUME NEW t \in Seq(Chars)
  PROVE  \E o : Layout(o, t)
<1>1. PICK G : ConcatRun(G, t)
  BY ConcatRuns
<1>. DEFINE o == [i \in 0 .. Len(t) |-> Len(G[i])]
<1>2. \A i \in 0 .. Len(t) : G[i] \in Seq(Byte)
  BY <1>1 DEF ConcatRun, Texts
<1>3. /\ Len(t) \in Nat
      /\ o \in [0 .. Len(t) -> Nat] /\ \A i \in 0 .. Len(t) : o[i] = Len(G[i])
  BY <1>2
<1>. HIDE DEF o
<1>4. o[0] = 0 /\ o[Len(t)] = Len(Concat(t))
  BY <1>1, <1>3 DEF ConcatRun
<1>5. ASSUME NEW n \in 1 .. Len(t)
      PROVE  /\ o[n] = o[n - 1] + Len(Utf8[t[n]])
             /\ \A j \in 1 .. Len(Utf8[t[n]]) : Concat(t)[o[n - 1] + j] = Utf8[t[n]][j]
  <2>1. n \in 0 .. Len(t) /\ n - 1 \in 0 .. Len(t) /\ t[n] \in Chars /\ Len(t) \in 0 .. Len(t)
    BY <1>3
  <2>2. G[n] = G[n - 1] \o Utf8[t[n]] /\ Utf8[t[n]] \in Seq(Byte) /\ G[n - 1] \in Seq(Byte)
    <3>1. Utf8[t[n]] \in Seq(Byte)
      BY <2>1, BytesTyped, Zenon
    <3>2. G[n] = G[n - 1] \o Utf8[t[n]]
      BY <1>1 DEF ConcatRun
    <3>3. G[n - 1] \in Seq(Byte)
      BY <1>2, <2>1, Zenon
    <3>. QED
      BY <3>1, <3>2, <3>3
  <2>3. Len(G[n]) = Len(G[n - 1]) + Len(Utf8[t[n]])
    BY <2>2
  <2>4. ASSUME NEW j \in 1 .. Len(Utf8[t[n]])
        PROVE  Concat(t)[o[n - 1] + j] = Utf8[t[n]][j]
    <3>0. PICK a \in Seq(Byte), b \in Seq(Byte) :
            G[n] = a \o b /\ a = G[n - 1] /\ b = Utf8[t[n]]
      BY <2>2
    <3>3. PICK i \in 1 .. Len(b) : i = j
      BY <3>0
    <3>4. Len(a) + i \in 1 .. Len(a \o b) /\ (a \o b)[Len(a) + i] = b[i]
      BY JoinedBytes
    <3>1. Len(a) + j \in 1 .. Len(a \o b) /\ (a \o b)[Len(a) + j] = b[j]
      BY <3>3, <3>4
    <3>2. \A p \in 1 .. Len(G[n]) : G[Len(t)][p] = G[n][p]
      <4>1. n \in 0 .. Len(t) /\ Len(t) \in 0 .. Len(t)
        BY <2>1
      <4>2. n \in 0 .. Len(t) => \A p \in 1 .. Len(G[n]) : G[Len(t)][p] = G[n][p]
        BY <1>1, <4>1, ConcatGrows, ZenonT(40)
      <4>. QED
        BY <4>1, <4>2, Zenon
    <3>. QED
      BY <1>1, <1>3, <2>1, <3>0, <3>1, <3>2 DEF ConcatRun
  <2>. QED
    BY <1>3, <2>1, <2>3, <2>4
<1>6. Layout(o, t)
  BY <1>3, <1>4, <1>5 DEF Layout
<1>. QED
  BY <1>6

LEMMA Located ==
  ASSUME NEW t \in Seq(Chars), NEW o, Layout(o, t), NEW k \in 1 .. Len(Concat(t))
  PROVE  \E n \in 1 .. Len(t) : \E j \in 1 .. Len(Utf8[t[n]]) : k = o[n - 1] + j
<1>. DEFINE N == Len(t)
            T == {n \in 0 .. N : k <= o[n]}
<1>1. N \in Nat /\ o \in [0 .. N -> Nat] /\ o[0] = 0 /\ o[N] = Len(Concat(t)) /\ k \in Nat /\ k > 0
  BY DEF Layout
<1>2. T \in SUBSET Nat /\ N \in T
  BY <1>1
<1>3. PICK n \in T : \A m \in T : n <= m
  BY <1>2, LeastElement
<1>4. n \in 1 .. N /\ k <= o[n]
  BY <1>1, <1>3
<1>5. n - 1 \in 0 .. N /\ ~(n - 1 \in T) /\ o[n - 1] < k
  BY <1>1, <1>3, <1>4
<1>6. o[n] = o[n - 1] + Len(Utf8[t[n]]) /\ Len(Utf8[t[n]]) \in Nat
  <2>1. t[n] \in Chars
    BY <1>4
  <2>. QED
    BY <1>4, <2>1, BytesOf DEF Layout
<1>. DEFINE j == k - o[n - 1]
<1>7. j \in 1 .. Len(Utf8[t[n]]) /\ k = o[n - 1] + j
  BY <1>1, <1>4, <1>5, <1>6
<1>. QED
  BY <1>4, <1>7

LEMMA LayoutTyped ==
  ASSUME NEW t \in Seq(Chars), NEW o, Layout(o, t)
  PROVE  /\ Len(t) \in Nat /\ \A i \in 0 .. Len(t) : o[i] \in Nat
         /\ \A n \in 1 .. Len(t) :
              /\ o[n] = o[n - 1] + Len(Utf8[t[n]])
              /\ t[n] \in Chars /\ Len(Utf8[t[n]]) \in Nat /\ Len(Utf8[t[n]]) > 0
<1>1. Len(t) \in Nat /\ \A n \in 1 .. Len(t) : t[n] \in Chars
  OBVIOUS
<1>2. o \in [0 .. Len(t) -> Nat]
  BY DEF Layout
<1>3. \A n \in 1 .. Len(t) : o[n] = o[n - 1] + Len(Utf8[t[n]])
  BY DEF Layout
<1>. QED
  BY <1>1, <1>2, <1>3, BytesTyped, Zenon

LEMMA LayoutMonotone ==
  ASSUME NEW t \in Seq(Chars), NEW o, Layout(o, t)
  PROVE  \A m \in 0 .. Len(t) : \A n \in 0 .. m : o[n] <= o[m]
<1>. DEFINE T == {m \in Nat : m <= Len(t) => \A n \in 0 .. m : o[n] <= o[m]}
<1>0. Len(t) \in Nat /\ \A i \in 0 .. Len(t) : o[i] \in Nat
  BY LayoutTyped
<1>1. 0 \in T
  BY <1>0
<1>2. ASSUME NEW m \in Nat, m \in T PROVE m + 1 \in T
  <2>. SUFFICES ASSUME m + 1 <= Len(t), NEW n \in 0 .. m + 1 PROVE o[n] <= o[m + 1]
    OBVIOUS
  <2>1. m + 1 \in 1 .. Len(t) /\ (m + 1) - 1 = m /\ t[m + 1] \in Chars
    BY <1>0
  <2>2. o[m + 1] = o[m] + Len(Utf8[t[m + 1]]) /\ Len(Utf8[t[m + 1]]) \in Nat
    BY <2>1, LayoutTyped
  <2>3. n \in 0 .. m => o[n] <= o[m]
    BY <1>0, <1>2
  <2>4. o[m] \in Nat /\ o[n] \in Nat
    BY <1>0
  <2>. QED
    BY <2>2, <2>3, <2>4
<1>3. Nat \subseteq T
  <2>. HIDE DEF T
  <2>. QED
    BY <1>1, <1>2, Induction
<1>. QED
  BY <1>0, <1>3

LEMMA LocatedOnce ==
  ASSUME NEW t \in Seq(Chars), NEW o, Layout(o, t),
         NEW n \in 1 .. Len(t), NEW j \in 1 .. Len(Utf8[t[n]]),
         NEW m \in 1 .. Len(t), NEW i \in 1 .. Len(Utf8[t[m]]),
         o[n - 1] + j = o[m - 1] + i
  PROVE  n = m /\ j = i
<1>1. /\ Len(t) \in Nat /\ \A p \in 0 .. Len(t) : o[p] \in Nat
      /\ o[n] = o[n - 1] + Len(Utf8[t[n]]) /\ o[m] = o[m - 1] + Len(Utf8[t[m]])
      /\ Len(Utf8[t[n]]) \in Nat /\ Len(Utf8[t[m]]) \in Nat
  BY LayoutTyped
<1>0. n - 1 \in 0 .. Len(t) /\ m - 1 \in 0 .. Len(t)
  BY <1>1
<1>2. PICK a \in Nat, b \in Nat : a = o[n - 1] /\ b = o[m - 1]
  BY <1>0, <1>1, Zenon
<1>3. PICK d \in Nat, e \in Nat : /\ d = Len(Utf8[t[n]]) /\ e = Len(Utf8[t[m]])
                                 /\ j \in 1 .. d /\ i \in 1 .. e
  BY <1>1
<1>4. a + j = b + i
  BY <1>2
<1>5. ASSUME n < m PROVE FALSE
  <2>1. m - 1 \in 0 .. Len(t) /\ n \in 0 .. m - 1
    BY <1>1, <1>5
  <2>2. o[n] <= o[m - 1]
    BY <2>1, LayoutMonotone
  <2>3. a + d <= b
    BY <1>1, <1>2, <1>3, <2>2
  <2>. QED
    BY <1>3, <1>4, <2>3
<1>6. ASSUME m < n PROVE FALSE
  <2>1. n - 1 \in 0 .. Len(t) /\ m \in 0 .. n - 1
    BY <1>1, <1>6
  <2>2. o[m] <= o[n - 1]
    BY <2>1, LayoutMonotone
  <2>3. b + e <= a
    BY <1>1, <1>2, <1>3, <2>2
  <2>. QED
    BY <1>3, <1>4, <2>3
<1>7. n = m
  BY <1>1, <1>5, <1>6
<1>8. a = b
  BY <1>2, <1>7
<1>. QED
  BY <1>3, <1>4, <1>7, <1>8

\* A byte that does not follow another in its character begins one.
LEMMA LeadBegins ==
  ASSUME NEW t \in Seq(Chars), NEW o, Layout(o, t), NEW k \in 1 .. Len(Concat(t))
  PROVE  \/ Concat(t)[k] \in 128 .. 191
         \/ \E n \in 1 .. Len(t) : k = o[n - 1] + 1
<1>1. PICK n \in 1 .. Len(t) : \E j \in 1 .. Len(Utf8[t[n]]) : k = o[n - 1] + j
  BY Located
<1>2. PICK j \in 1 .. Len(Utf8[t[n]]) : k = o[n - 1] + j
  BY <1>1
<1>3. Concat(t)[k] = Utf8[t[n]][j] /\ t[n] \in Chars
  BY <1>2 DEF Layout
<1>4. CASE j = 1
  BY <1>2, <1>4
<1>5. CASE j # 1
  <2>1. Len(Utf8[t[n]]) \in Nat /\ \A i \in 2 .. Len(Utf8[t[n]]) : Utf8[t[n]][i] \in 128 .. 191
    <3>1. t[n] \in Chars
      OBVIOUS
    <3>2. \A c \in Chars :
            Len(Utf8[c]) \in Nat /\ \A i \in 2 .. Len(Utf8[c]) : Utf8[c][i] \in 128 .. 191
      BY BytesOf
    <3>. QED
      BY <3>1, <3>2, Zenon
  <2>2. j \in 2 .. Len(Utf8[t[n]])
    BY <1>5, <2>1
  <2>. QED
    BY <1>3, <2>1, <2>2
<1>. QED
  BY <1>4, <1>5

\* What counts of a text, and what is not skipped of its bytes.
SpokenFolds(F, t, seps) ==
  F = [S \in SUBSET DOMAIN t |->
         IF S = {} THEN <<>>
         ELSE IF t[Max(S)] \in seps THEN F[S \ {Max(S)}]
              ELSE Append(F[S \ {Max(S)}], LowerCase[t[Max(S)]])]

LEMMA SpokenIs ==
  ASSUME NEW t, NEW seps, \E F : SpokenFolds(F, t, seps)
  PROVE  \E F : SpokenFolds(F, t, seps) /\ Spoken(t, seps) = F[DOMAIN t]
BY Zenon DEF Spoken, FoldLeft, MapThenFoldSet, SpokenFolds

SpokenRun(G, t, seps) ==
  /\ G \in [0 .. Len(t) -> Seq(Chars)]
  /\ G[0] = <<>> /\ G[Len(t)] = Spoken(t, seps)
  /\ \A i \in 1 .. Len(t) :
       G[i] = IF t[i] \in seps THEN G[i - 1] ELSE Append(G[i - 1], LowerCase[t[i]])

LEMMA SmallIsChar ==
  ASSUME NEW c \in Chars
  PROVE  LowerCase[c] \in Chars
<1>1. IF Utf8[c][1] \in 65 .. 90
      THEN LowerCase[c] \in Chars /\ Utf8[LowerCase[c]] = <<Utf8[c][1] + 32>>
      ELSE LowerCase[c] = c
  BY Utf8Assumption
<1>. QED
  BY <1>1

LEMMA SpokenRuns ==
  ASSUME NEW t \in Seq(Chars), NEW seps
  PROVE  \E G : SpokenRun(G, t, seps)
<1>. DEFINE n == Len(t)
            V == Seq(Chars)
<1>1. n \in Nat /\ DOMAIN t = 1 .. n /\ \A i \in 1 .. n : t[i] \in Chars /\ LowerCase[t[i]] \in Chars
  BY SmallIsChar
<1>. HIDE DEF n
<1>. DEFINE step == [y \in V \X (1 .. n) |->
                       IF t[y[2]] \in seps THEN y[1] ELSE Append(y[1], LowerCase[t[y[2]]])]
<1>2. step \in [V \X (1 .. n) -> V]
  BY <1>1
<1>3. \A v \in V : \A i \in 1 .. n :
        step[<<v, i>>] = IF t[i] \in seps THEN v ELSE Append(v, LowerCase[t[i]])
  OBVIOUS
<1>. HIDE DEF step
<1>4. \E F : SpokenFolds(F, t, seps)
  <2>1. <<>> \in V
    OBVIOUS
  <2>. HIDE DEF V
  <2>2. PICK F : FoldsLeft(F, n, V, <<>>, step)
    BY <1>1, <1>2, <2>1, FoldLeftExists
  <2>3. ASSUME NEW S \in SUBSET (1 .. n), S # {}
        PROVE  F[S] = IF t[Max(S)] \in seps THEN F[S \ {Max(S)}]
                      ELSE Append(F[S \ {Max(S)}], LowerCase[t[Max(S)]])
    <3>1. Max(S) \in 1 .. n /\ F[S \ {Max(S)}] \in V
      BY <1>1, <2>2, <2>3, GreatestPosition DEF FoldsLeft
    <3>. QED
      BY <1>3, <2>2, <2>3, <3>1 DEF FoldsLeft
  <2>4. SpokenFolds(F, t, seps)
    BY <1>1, <2>2, <2>3 DEF SpokenFolds, FoldsLeft
  <2>. QED
    BY <2>4
<1>5. PICK F : SpokenFolds(F, t, seps) /\ Spoken(t, seps) = F[DOMAIN t]
  BY <1>4, SpokenIs
<1>. DEFINE G == [i \in 0 .. n |-> F[1 .. i]]
<1>6. G[0] = <<>> /\ G[n] = Spoken(t, seps)
  <2>1. 1 .. 0 = {} /\ {} \in SUBSET DOMAIN t
    OBVIOUS
  <2>2. F[{}] = <<>>
    BY <1>5, <2>1 DEF SpokenFolds
  <2>. QED
    BY <1>1, <1>5, <2>1, <2>2
<1>7. ASSUME NEW i \in 1 .. n
      PROVE  G[i] = IF t[i] \in seps THEN G[i - 1] ELSE Append(G[i - 1], LowerCase[t[i]])
  <2>1. /\ 1 .. i \in SUBSET DOMAIN t /\ 1 .. i # {}
        /\ Max(1 .. i) = i /\ (1 .. i) \ {i} = 1 .. i - 1
    BY <1>1, UpTo
  <2>2. F[1 .. i] = IF t[i] \in seps THEN F[1 .. i - 1] ELSE Append(F[1 .. i - 1], LowerCase[t[i]])
    BY <1>5, <2>1 DEF SpokenFolds
  <2>3. G[i] = F[1 .. i] /\ G[i - 1] = F[1 .. i - 1]
    BY <1>1
  <2>. QED
    BY <2>2, <2>3
<1>8. \A i \in 0 .. n : G[i] \in V
  <2>. HIDE DEF G
  <2>1. G[0] \in V
    BY <1>6
  <2>2. ASSUME NEW i \in 1 .. n, G[i - 1] \in V PROVE G[i] \in V
    <3>1. Append(G[i - 1], LowerCase[t[i]]) \in V
      BY <1>1, <2>2
    <3>. QED
      BY <1>7, <2>2, <3>1
  <2>. HIDE DEF V
  <2>. QED
    BY <1>1, <2>1, <2>2, KeptByRun
<1>9. SpokenRun(G, t, seps)
  BY <1>6, <1>7, <1>8 DEF SpokenRun, n
<1>. QED
  BY <1>9

Skims(F, s, marks, max) ==
  F = [S \in SUBSET DOMAIN [i \in DOMAIN s |-> i] |->
         IF S = {} THEN <<>>
         ELSE IF \/ Skipped(s, [i \in DOMAIN s |-> i][Max(S)], marks)
                 \/ Len(F[S \ {Max(S)}]) = max
              THEN F[S \ {Max(S)}]
              ELSE Append(F[S \ {Max(S)}], s[[i \in DOMAIN s |-> i][Max(S)]])]

LEMMA NoSpaceIs ==
  ASSUME NEW s, NEW marks, NEW max, \E F : Skims(F, s, marks, max)
  PROVE  \E F : /\ Skims(F, s, marks, max)
                /\ NoSpace(s, marks, max) = F[DOMAIN [i \in DOMAIN s |-> i]]
BY Zenon DEF NoSpace, FoldLeftDomain, FoldLeft, MapThenFoldSet, Skims

NoSpaceRun(G, s, marks, max) ==
  /\ G \in [0 .. Len(s) -> Texts]
  /\ G[0] = <<>> /\ G[Len(s)] = NoSpace(s, marks, max)
  /\ \A i \in 1 .. Len(s) :
       G[i] = IF Skipped(s, i, marks) \/ Len(G[i - 1]) = max
              THEN G[i - 1] ELSE Append(G[i - 1], s[i])

LEMMA NoSpaceRuns ==
  ASSUME NEW s \in Texts, NEW marks, NEW max
  PROVE  \E G : NoSpaceRun(G, s, marks, max)
<1>. DEFINE n == Len(s)
            id == [i \in DOMAIN s |-> i]
<1>1. n \in Nat /\ DOMAIN s = 1 .. n /\ \A i \in 1 .. n : s[i] \in Byte
  BY DEF Texts
<1>2. DOMAIN id = 1 .. n /\ \A i \in 1 .. n : id[i] = i
  BY <1>1
<1>. HIDE DEF n, id
<1>. DEFINE Step(v, i) == IF Skipped(s, i, marks) \/ Len(v) = max THEN v ELSE Append(v, s[i])
            step == [y \in Texts \X (1 .. n) |-> Step(y[1], y[2])]
<1>3. \A v \in Texts : \A i \in 1 .. n : Step(v, i) \in Texts
  <2>1. \A v \in Texts : \A i \in 1 .. n : Append(v, s[i]) \in Texts
    BY <1>1 DEF Texts
  <2>. QED
    BY <2>1
<1>. HIDE DEF Step
<1>4. /\ step \in [Texts \X (1 .. n) -> Texts]
      /\ \A v \in Texts : \A i \in 1 .. n : step[<<v, i>>] = Step(v, i)
  BY <1>3
<1>. HIDE DEF step
<1>5. \E F : Skims(F, s, marks, max)
  <2>1. <<>> \in Texts
    BY DEF Texts
  <2>2. PICK F : FoldsLeft(F, n, Texts, <<>>, step)
    BY <1>1, <1>4, <2>1, FoldLeftExists
  <2>3. ASSUME NEW S \in SUBSET (1 .. n), S # {}
        PROVE  F[S] = Step(F[S \ {Max(S)}], id[Max(S)])
    <3>1. Max(S) \in 1 .. n /\ F[S \ {Max(S)}] \in Texts
      BY <1>1, <2>2, <2>3, GreatestPosition DEF FoldsLeft
    <3>. QED
      BY <1>2, <1>4, <2>2, <2>3, <3>1 DEF FoldsLeft
  <2>4. F = [S \in SUBSET DOMAIN id |->
               IF S = {} THEN <<>> ELSE Step(F[S \ {Max(S)}], id[Max(S)])]
    BY <1>2, <2>2, <2>3 DEF FoldsLeft
  <2>5. Skims(F, s, marks, max)
    BY <2>4, Zenon DEF Skims, Step, id
  <2>. QED
    BY <2>5
<1>6. PICK F : Skims(F, s, marks, max) /\ NoSpace(s, marks, max) = F[DOMAIN id]
  BY <1>5, NoSpaceIs DEF id
<1>7. F = [S \in SUBSET DOMAIN id |->
             IF S = {} THEN <<>> ELSE Step(F[S \ {Max(S)}], id[Max(S)])]
  BY <1>6, Zenon DEF Skims, Step, id
<1>. DEFINE G == [i \in 0 .. n |-> F[1 .. i]]
<1>8. G[0] = <<>> /\ G[n] = NoSpace(s, marks, max)
  <2>1. 1 .. 0 = {} /\ {} \in SUBSET DOMAIN id
    OBVIOUS
  <2>2. F[{}] = <<>>
    BY <1>7, <2>1
  <2>. QED
    BY <1>1, <1>2, <1>6, <2>1, <2>2
<1>9. ASSUME NEW i \in 1 .. n PROVE G[i] = Step(G[i - 1], i)
  <2>1. /\ 1 .. i \in SUBSET DOMAIN id /\ 1 .. i # {}
        /\ Max(1 .. i) = i /\ (1 .. i) \ {i} = 1 .. i - 1
    BY <1>1, <1>2, UpTo
  <2>2. F[1 .. i] = Step(F[1 .. i - 1], i)
    BY <1>2, <1>7, <2>1
  <2>3. G[i] = F[1 .. i] /\ G[i - 1] = F[1 .. i - 1]
    BY <1>1
  <2>. QED
    BY <2>2, <2>3
<1>10. \A i \in 0 .. n : G[i] \in Texts
  <2>. HIDE DEF G
  <2>1. G[0] \in Texts
    BY <1>8 DEF Texts
  <2>2. ASSUME NEW i \in 1 .. n, G[i - 1] \in Texts PROVE G[i] \in Texts
    BY <1>3, <1>9, <2>2
  <2>. QED
    BY <1>1, <2>1, <2>2, KeptByRun
<1>11. NoSpaceRun(G, s, marks, max)
  BY <1>8, <1>9, <1>10 DEF NoSpaceRun, n, Step
<1>. QED
  BY <1>11

\* The characters that separate words in a text are those whose bytes are skipped.
Fits(marks, seps) ==
  /\ marks \subseteq TextMarks
  /\ \A c \in Chars : c \in seps <=> Utf8[c] \in marks \/ \E b \in Blanks : Utf8[c] = <<b>>

LEMMA SeparatorsFit == Fits(TextMarks, Separators) /\ Fits(WordMarks, Separators \ {"stop"})
<1>1. ASSUME NEW c \in Chars
      PROVE  /\ c = "space" <=> Utf8[c] = <<32>>
             /\ c = "latin_comma" <=> Utf8[c] = <<44>>
             /\ c = "latin_stop" <=> Utf8[c] = <<46>>
             /\ c = "comma" <=> Utf8[c] = <<227, 128, 129>>
             /\ c = "stop" <=> Utf8[c] = <<227, 128, 130>>
  BY Utf8Assumption
<1>2. \A u : (\E b \in Blanks : u = <<b>>) <=> u = <<32>> \/ u = <<44>> \/ u = <<46>>
  BY DEF Blanks
<1>3. ASSUME NEW c \in Chars
      PROVE  /\ c \in Separators <=> Utf8[c] \in TextMarks \/ \E b \in Blanks : Utf8[c] = <<b>>
             /\ c \in Separators \ {"stop"}
                  <=> Utf8[c] \in WordMarks \/ \E b \in Blanks : Utf8[c] = <<b>>
  <2>1. (\E b \in Blanks : Utf8[c] = <<b>>)
          <=> c = "space" \/ c = "latin_comma" \/ c = "latin_stop"
    <3>1. (\E b \in Blanks : Utf8[c] = <<b>>)
            <=> Utf8[c] = <<32>> \/ Utf8[c] = <<44>> \/ Utf8[c] = <<46>>
      BY <1>2
    <3>2. /\ c = "space" <=> Utf8[c] = <<32>>
          /\ c = "latin_comma" <=> Utf8[c] = <<44>>
          /\ c = "latin_stop" <=> Utf8[c] = <<46>>
      BY <1>1
    <3>. QED
      BY <3>1, <3>2
  <2>2. Utf8[c] \in TextMarks <=> c = "comma" \/ c = "stop"
    <3>1. Utf8[c] \in TextMarks <=> \/ Utf8[c] = <<227, 128, 129>>
                                   \/ Utf8[c] = <<227, 128, 130>>
      BY Zenon DEF TextMarks
    <3>2. /\ c = "comma" <=> Utf8[c] = <<227, 128, 129>>
          /\ c = "stop" <=> Utf8[c] = <<227, 128, 130>>
      BY <1>1
    <3>. QED
      BY <3>1, <3>2
  <2>3. Utf8[c] \in WordMarks <=> c = "comma"
    BY <1>1 DEF WordMarks
  <2>. QED
    BY <2>1, <2>2, <2>3 DEF Separators
<1>4. TextMarks \subseteq TextMarks /\ WordMarks \subseteq TextMarks
  BY DEF TextMarks, WordMarks
<1>. QED
  BY <1>3, <1>4, Zenon DEF Fits

LEMMA ThreeOf ==
  ASSUME NEW s \in Texts, NEW p \in Nat, p > 0, p + 2 <= Len(s)
  PROVE  SubSeq(s, p, p + 2) = <<s[p], s[p + 1], s[p + 2]>>
<1>. DEFINE q == SubSeq(s, p, p + 2)
<1>1. s \in Seq(Byte) /\ p \in 1 .. Len(s) /\ p + 2 \in 1 .. Len(s) /\ Len(s) \in Nat
  BY DEF Texts
<1>2. q \in Seq(Byte) /\ Len(q) = 3 /\ \A i \in 1 .. 3 : q[i] = s[p + i - 1]
  BY <1>1
<1>. HIDE DEF q
<1>3. q = <<q[1], q[2], q[3]>>
  BY <1>2
<1>4. q[1] = s[p + 1 - 1] /\ q[2] = s[p + 2 - 1] /\ q[3] = s[p + 3 - 1]
  BY <1>2
<1>5. p + 1 - 1 = p /\ p + 2 - 1 = p + 1 /\ p + 3 - 1 = p + 2
  OBVIOUS
<1>. QED
  BY <1>3, <1>4, <1>5 DEF q

\* The three bytes at a place, if they are a mark.
LEMMA MarkIs ==
  ASSUME NEW s \in Texts, NEW p \in Int, NEW marks \in SUBSET TextMarks, MarkAt(s, p, marks)
  PROVE  /\ p \in 1 .. Len(s) /\ p + 2 \in 1 .. Len(s) /\ s[p] = 227
         /\ <<s[p], s[p + 1], s[p + 2]>> \in marks
<1>1. p > 0 /\ p + 2 <= Len(s) /\ SubSeq(s, p, p + 2) \in marks
  BY DEF MarkAt
<1>2. Len(s) \in Nat
  BY DEF Texts
<1>3. p \in 1 .. Len(s) /\ p + 2 \in 1 .. Len(s) /\ p \in Nat
  BY <1>1, <1>2
<1>4. <<s[p], s[p + 1], s[p + 2]>> \in marks
  BY <1>1, <1>3, ThreeOf
<1>5. <<s[p], s[p + 1], s[p + 2]>>[1] = 227
  BY <1>4 DEF TextMarks
<1>. QED
  BY <1>3, <1>4, <1>5

\* A byte is skipped when its character separates words: a mark is never half
\* removed, and nothing else is taken for one.
LEMMA SkippedIs ==
  ASSUME NEW t \in Seq(Chars), NEW o, Layout(o, t), NEW marks, NEW seps, Fits(marks, seps),
         NEW n \in 1 .. Len(t), NEW j \in 1 .. Len(Utf8[t[n]])
  PROVE  Skipped(Concat(t), o[n - 1] + j, marks) <=> t[n] \in seps
<1>. DEFINE s == Concat(t)
            k == o[n - 1] + j
            u == Utf8[t[n]]
<1>1. /\ s \in Texts /\ u \in Texts /\ Len(u) \in Nat /\ Len(u) > 0 /\ j \in 1 .. Len(u)
      /\ t[n] \in Chars /\ Len(t) \in Nat
  BY ConcatAppend, BytesOf
<1>2. s[k] = u[j]
  BY DEF Layout
<1>3. /\ o[n - 1] \in Nat /\ o[n] = o[n - 1] + Len(u) /\ o[n] \in Nat /\ o[n] <= Len(s)
      /\ \A i \in 1 .. Len(u) : s[o[n - 1] + i] = u[i]
  <2>1. Len(t) \in 0 .. Len(t) /\ n \in 0 .. Len(t) /\ n - 1 \in 0 .. Len(t)
    BY <1>1
  <2>2. o[n] <= o[Len(t)]
    BY <2>1, LayoutMonotone
  <2>3. o[n - 1] \in Nat /\ o[n] \in Nat /\ o[n] = o[n - 1] + Len(u)
    BY <2>1, LayoutTyped
  <2>4. o[Len(t)] = Len(s) /\ \A i \in 1 .. Len(u) : s[o[n - 1] + i] = u[i]
    BY DEF Layout
  <2>. QED
    BY <2>2, <2>3, <2>4
<1>6. \A p \in 1 .. Len(s) : s[p] \in 128 .. 191 \/ \E q \in 1 .. Len(t) : p = o[q - 1] + 1
  BY LeadBegins
<1>4. s[k] \in Blanks <=> \E b \in Blanks : u = <<b>>
  <2>1. ASSUME s[k] \in Blanks PROVE \E b \in Blanks : u = <<b>>
    <3>0. PICK b \in Blanks : u[j] = b
      BY <1>2, <2>1
    <3>1. u[j] \in 1 .. 127 /\ ~(u[j] \in 128 .. 191)
      <4>1. b \in 1 .. 127 /\ ~(b \in 128 .. 191)
        BY DEF Blanks
      <4>. QED
        BY <3>0, <4>1
    <3>2. \A i \in 2 .. Len(u) : u[i] \in 128 .. 191
      BY <1>1, BytesOf
    <3>3. j = 1
      <4>. HIDE DEF u, s, k
      <4>1. j \in 2 .. Len(u) \/ j = 1
        BY <1>1
      <4>. QED
        BY <3>1, <3>2, <4>1
    <3>4. Len(u) = 1
      <4>1. u[1] \in 1 .. 127
        BY <3>1, <3>3
      <4>. QED
        BY <1>1, <4>1, BytesOf
    <3>5. u = <<u[1]>>
      BY <1>1, <3>4 DEF Texts
    <3>. QED
      BY <1>2, <2>1, <3>3, <3>5
  <2>2. ASSUME NEW b \in Blanks, u = <<b>> PROVE s[k] \in Blanks
    <3>1. Len(<<b>>) = 1 /\ <<b>>[1] = b
      OBVIOUS
    <3>2. j = 1
      BY <1>1, <2>2, <3>1
    <3>. QED
      BY <1>2, <2>2, <3>1, <3>2
  <2>. QED
    BY <2>1, <2>2
<1>5. (\E m \in 0 .. 2 : MarkAt(s, k - m, marks)) <=> u \in marks
  <2>1. ASSUME NEW m \in 0 .. 2, MarkAt(s, k - m, marks) PROVE u \in marks
    <3>. DEFINE p == k - m
    <3>1. p \in Int /\ k = p + m
      BY <1>1, <1>3
    <3>. HIDE DEF p
    <3>2. /\ p \in 1 .. Len(s) /\ p + 2 \in 1 .. Len(s) /\ s[p] = 227
          /\ <<s[p], s[p + 1], s[p + 2]>> \in marks
      <4>1. MarkAt(s, p, marks) /\ marks \in SUBSET TextMarks
        BY <2>1 DEF p, Fits
      <4>. HIDE DEF s
      <4>. QED
        BY <1>1, <3>1, <4>1, MarkIs
    <3>3. PICK q \in 1 .. Len(t) : p = o[q - 1] + 1
      <4>1. ~(s[p] \in 128 .. 191)
        BY <3>2
      <4>3. p \in 1 .. Len(s)
        BY <3>2
      <4>2. s[p] \in 128 .. 191 \/ \E q \in 1 .. Len(t) : p = o[q - 1] + 1
        BY <1>6, <4>3, Zenon
      <4>. QED
        BY <4>1, <4>2
    <3>4. /\ t[q] \in Chars /\ Len(Utf8[t[q]]) \in Nat /\ Len(Utf8[t[q]]) > 0
          /\ \A i \in 1 .. Len(Utf8[t[q]]) : s[o[q - 1] + i] = Utf8[t[q]][i]
          /\ o[q - 1] \in Nat
      <4>1. t[q] \in Chars /\ q - 1 \in 0 .. Len(t)
        BY <1>1
      <4>. QED
        <5>1. Len(Utf8[t[q]]) \in Nat /\ Len(Utf8[t[q]]) > 0
          BY <4>1, BytesTyped, Zenon
        <5>2. o[q - 1] \in Nat
          BY <4>1, LayoutTyped, Zenon
        <5>3. \A i \in 1 .. Len(Utf8[t[q]]) : s[o[q - 1] + i] = Utf8[t[q]][i]
          BY Zenon DEF Layout
        <5>. QED
          BY <4>1, <5>1, <5>2, <5>3
    <3>5. Utf8[t[q]][1] = 227
      <4>1. s[o[q - 1] + 1] = Utf8[t[q]][1]
        BY <3>4
      <4>. QED
        BY <3>2, <3>3, <4>1
    <3>6. Len(Utf8[t[q]]) = 3
      <4>1. Utf8[t[q]][1] \in 224 .. 239
        BY <3>5
      <4>. QED
        BY <3>4, <4>1, BytesOf
    <3>7. n = q
      <4>1. m + 1 \in 1 .. Len(Utf8[t[q]])
        BY <3>6
      <4>2. o[n - 1] + j = o[q - 1] + (m + 1)
        BY <3>1, <3>3, <3>4
      <4>. QED
        BY <4>1, <4>2, LocatedOnce
    <3>8. s[p] = u[1] /\ s[p + 1] = u[2] /\ s[p + 2] = u[3] /\ Len(u) = 3
      <4>1. p = o[n - 1] + 1 /\ p + 1 = o[n - 1] + 2 /\ p + 2 = o[n - 1] + 3
        BY <1>3, <3>3, <3>7
      <4>2. Len(u) = 3
        BY <3>6, <3>7
      <4>. QED
        BY <1>3, <4>1, <4>2
    <3>9. u = <<u[1], u[2], u[3]>>
      BY <1>1, <3>8 DEF Texts
    <3>. QED
      BY <3>2, <3>8, <3>9
  <2>2. ASSUME u \in marks PROVE \E m \in 0 .. 2 : MarkAt(s, k - m, marks)
    <3>1. Len(u) = 3
      BY <2>2 DEF Fits, TextMarks
    <3>. DEFINE p == o[n - 1] + 1
    <3>2. p > 0 /\ p + 2 <= Len(s) /\ p \in Nat /\ Len(s) \in Nat
      <4>1. Len(s) \in Nat
        BY <1>1 DEF Texts
      <4>2. o[n - 1] + 3 <= Len(s)
        BY <1>3, <3>1
      <4>. HIDE DEF s
      <4>. QED
        BY <1>3, <4>1, <4>2
    <3>3. s[p] = u[1] /\ s[p + 1] = u[2] /\ s[p + 2] = u[3]
      <4>1. s[o[n - 1] + 1] = u[1] /\ s[o[n - 1] + 2] = u[2] /\ s[o[n - 1] + 3] = u[3]
        BY <1>3, <3>1
      <4>2. p + 1 = o[n - 1] + 2 /\ p + 2 = o[n - 1] + 3
        BY <1>3
      <4>. QED
        BY <4>1, <4>2
    <3>4. u = <<u[1], u[2], u[3]>>
      BY <1>1, <3>1 DEF Texts
    <3>5. SubSeq(s, p, p + 2) = <<s[p], s[p + 1], s[p + 2]>>
      <4>. HIDE DEF s, p
      <4>. QED
        BY <1>1, <3>2, ThreeOf
    <3>6. MarkAt(s, p, marks)
      BY <2>2, <3>2, <3>3, <3>4, <3>5 DEF MarkAt
    <3>7. j - 1 \in 0 .. 2 /\ k - (j - 1) = p
      BY <1>1, <1>3, <3>1
    <3>. QED
      BY <3>6, <3>7
  <2>. QED
    BY <2>1, <2>2
<1>. QED
  <2>1. Skipped(s, k, marks) <=> s[k] \in Blanks \/ \E m \in 0 .. 2 : MarkAt(s, k - m, marks)
    BY DEF Skipped
  <2>2. t[n] \in seps <=> u \in marks \/ \E b \in Blanks : u = <<b>>
    BY <1>1 DEF Fits
  <2>. HIDE DEF s, k, u
  <2>3. Skipped(s, k, marks) <=> t[n] \in seps
    BY <1>4, <1>5, <2>1, <2>2
  <2>. QED
    BY <2>3 DEF s, k

-----------------------------------------------------------------------------
(* Without what separates, the bytes are those of the characters that count. *)

Low(x) == IF x \in 65 .. 90 THEN x + 32 ELSE x

LEMMA LowOf ==
  ASSUME NEW c \in Chars
  PROVE  /\ Len(Utf8[LowerCase[c]]) = Len(Utf8[c])
         /\ \A j \in 1 .. Len(Utf8[c]) : Utf8[LowerCase[c]][j] = Low(Utf8[c][j])
<1>0. IF Utf8[c][1] \in 65 .. 90
      THEN LowerCase[c] \in Chars /\ Utf8[LowerCase[c]] = <<Utf8[c][1] + 32>>
      ELSE LowerCase[c] = c
  BY Utf8Assumption
<1>1. CASE Utf8[c][1] \in 65 .. 90
  <2>. DEFINE u == Utf8[c]
              v == Utf8[LowerCase[c]]
  <2>1. v = <<u[1] + 32>>
    BY <1>0, <1>1
  <2>2. Len(u) = 1
    BY <1>1, BytesOf
  <2>3. u[1] + 32 = Low(u[1])
    BY <1>1 DEF Low
  <2>4. Len(v) = 1 /\ v[1] = u[1] + 32
    BY <2>1
  <2>. HIDE DEF u, v
  <2>5. \A j \in 1 .. Len(u) : v[j] = Low(u[j])
    BY <2>2, <2>3, <2>4
  <2>. QED
    BY <2>2, <2>4, <2>5 DEF u, v
<1>2. CASE ~(Utf8[c][1] \in 65 .. 90)
  <2>. DEFINE u == Utf8[c]
  <2>1. Utf8[LowerCase[c]] = u
    BY <1>0, <1>2
  <2>2. ~(u[1] \in 65 .. 90)
    BY <1>2
  <2>3. Len(u) \in Nat /\ \A i \in 2 .. Len(u) : u[i] \in 128 .. 191
    BY BytesOf
  <2>. HIDE DEF u
  <2>4. ASSUME NEW j \in 1 .. Len(u) PROVE u[j] = Low(u[j])
    <3>1. CASE j = 1
      BY <2>2, <3>1 DEF Low
    <3>2. CASE j # 1
      <4>1. u[j] \in 128 .. 191
        BY <2>3, <3>2
      <4>2. \A x \in 128 .. 191 : x = Low(x)
        BY DEF Low
      <4>. QED
        BY <4>1, <4>2
    <3>. QED
      BY <3>1, <3>2
  <2>. QED
    BY <2>1, <2>4 DEF u
<1>. QED
  BY <1>1, <1>2

\* a is b in capitals, or what of it fits.
Begins(a, b, max) ==
  /\ a \in Seq(Byte) /\ b \in Seq(Byte)
  /\ Len(a) = IF Len(b) <= max THEN Len(b) ELSE max
  /\ \A i \in 1 .. Len(a) : Low(a[i]) = b[i]

LEMMA BeginsNext ==
  ASSUME NEW max \in Nat, NEW a, NEW b, Begins(a, b, max), NEW x \in Byte, NEW y \in Byte,
         y = Low(x)
  PROVE  Begins(IF Len(a) = max THEN a ELSE Append(a, x), Append(b, y), max)
<1>1. /\ a \in Seq(Byte) /\ b \in Seq(Byte)
      /\ Len(a) = IF Len(b) <= max THEN Len(b) ELSE max
      /\ \A i \in 1 .. Len(a) : Low(a[i]) = b[i]
  BY DEF Begins
<1>2. /\ Len(a) \in Nat /\ Len(b) \in Nat
      /\ Append(b, y) \in Seq(Byte) /\ Len(Append(b, y)) = Len(b) + 1
      /\ Append(b, y)[Len(b) + 1] = y
      /\ \A i \in 1 .. Len(b) : Append(b, y)[i] = b[i]
      /\ Append(a, x) \in Seq(Byte) /\ Len(Append(a, x)) = Len(a) + 1
      /\ Append(a, x)[Len(a) + 1] = x
      /\ \A i \in 1 .. Len(a) : Append(a, x)[i] = a[i]
  BY <1>1
<1>3. CASE Len(a) = max
  <2>1. Len(b) >= max
    BY <1>1, <1>2, <1>3
  <2>2. \A i \in 1 .. Len(a) : Low(a[i]) = Append(b, y)[i]
    BY <1>1, <1>2, <1>3, <2>1
  <2>3. Len(a) = IF Len(Append(b, y)) <= max THEN Len(Append(b, y)) ELSE max
    BY <1>2, <1>3, <2>1
  <2>4. Begins(a, Append(b, y), max)
    BY <1>1, <1>2, <2>2, <2>3 DEF Begins
  <2>. QED
    BY <1>3, <2>4
<1>4. CASE Len(a) # max
  <2>1. Len(b) < max /\ Len(a) = Len(b)
    BY <1>1, <1>2, <1>4
  <2>2. ASSUME NEW i \in 1 .. Len(a) + 1
        PROVE  Low(Append(a, x)[i]) = Append(b, y)[i]
    <3>1. CASE i = Len(a) + 1
      BY <1>2, <2>1, <3>1
    <3>2. CASE i # Len(a) + 1
      <4>1. i \in 1 .. Len(a) /\ i \in 1 .. Len(b)
        BY <1>2, <2>1, <3>2
      <4>. QED
        BY <1>1, <1>2, <4>1
    <3>. QED
      BY <3>1, <3>2
  <2>3. Len(Append(a, x)) = IF Len(Append(b, y)) <= max THEN Len(Append(b, y)) ELSE max
    BY <1>2, <2>1
  <2>4. Begins(Append(a, x), Append(b, y), max)
    BY <1>2, <2>2, <2>3 DEF Begins
  <2>. QED
    BY <1>4, <2>4
<1>. QED
  BY <1>3, <1>4

\* The bytes of one character, as far as j: each is taken or, when the buffer is
\* full, none.
LEMMA BeginsChar ==
  ASSUME NEW max \in Nat, NEW c \in Chars, NEW K, NEW b, Begins(K[0], b, max),
         \A j \in 1 .. Len(Utf8[c]) :
           K[j] = IF Len(K[j - 1]) = max THEN K[j - 1] ELSE Append(K[j - 1], Utf8[c][j])
  PROVE  Begins(K[Len(Utf8[c])], b \o Utf8[LowerCase[c]], max)
<1>. DEFINE v == Utf8[LowerCase[c]]
            u == Utf8[c]
            n == Len(v)
            To(j) == b \o SubSeq(v, 1, j)
            T == {j \in Nat : j <= n => Begins(K[j], To(j), max)}
<1>1. /\ v \in Seq(Byte) /\ u \in Seq(Byte) /\ n = Len(u) /\ n \in Nat
      /\ \A j \in 1 .. n : v[j] = Low(u[j])
  BY BytesOf, SmallIsChar, LowOf DEF Texts
<1>2. b \in Seq(Byte)
  BY DEF Begins
<1>3. \A j \in 1 .. n : K[j] = IF Len(K[j - 1]) = max THEN K[j - 1] ELSE Append(K[j - 1], u[j])
  BY <1>1
<1>. HIDE DEF u, v, n
<1>4. To(0) = b /\ To(n) = b \o v
  <2>1. SubSeq(v, 1, 0) = <<>> /\ SubSeq(v, 1, Len(v)) = v
    BY <1>1
  <2>. QED
    BY <1>2, <2>1 DEF n
<1>5. ASSUME NEW j \in 1 .. n PROVE To(j) = Append(To(j - 1), v[j])
  <2>1. SubSeq(v, 1, j) = Append(SubSeq(v, 1, j - 1), v[j])
    BY <1>1 DEF n
  <2>2. SubSeq(v, 1, j - 1) \in Seq(Byte)
    BY <1>1 DEF n
  <2>. QED
    BY <1>2, <2>1, <2>2
<1>. HIDE DEF To
<1>6. 0 \in T
  BY <1>4
<1>7. ASSUME NEW i \in Nat, i \in T PROVE i + 1 \in T
  <2>. SUFFICES ASSUME i + 1 <= n PROVE Begins(K[i + 1], To(i + 1), max)
    OBVIOUS
  <2>1. PICK j \in 1 .. n : j = i + 1 /\ i = j - 1
    BY <1>1
  <2>2. Begins(K[j - 1], To(j - 1), max)
    BY <1>1, <1>7, <2>1
  <2>3. u[j] \in Byte /\ v[j] \in Byte /\ v[j] = Low(u[j])
    BY <1>1 DEF n
  <2>4. K[j] = IF Len(K[j - 1]) = max THEN K[j - 1] ELSE Append(K[j - 1], u[j])
    BY <1>3
  <2>5. Begins(K[j], To(j), max)
    BY <1>5, <2>2, <2>3, <2>4, BeginsNext
  <2>. QED
    BY <2>1, <2>5
<1>8. Nat \subseteq T
  <2>. HIDE DEF T
  <2>. QED
    BY <1>6, <1>7, Induction
<1>9. Begins(K[n], b \o v, max)
  <2>1. n \in T
    BY <1>1, <1>8
  <2>2. Begins(K[n], To(n), max)
    BY <1>1, <2>1
  <2>. QED
    BY <1>4, <2>2
<1>. QED
  BY <1>1, <1>9 DEF u, v

\* The text without its blanks and marks, in the buffer of wakeup_detector_check_text,
\* is the beginning of what counts of it, and in whole characters.
LEMMA SkimsText ==
  ASSUME NEW t \in Seq(Chars), NEW marks, NEW seps, Fits(marks, seps), NEW max \in Nat
  PROVE  /\ Begins(NoSpace(Concat(t), marks, max), Concat(Spoken(t, seps)), max)
         /\ Len(Concat(Spoken(t, seps))) <= Len(Concat(t))
<1>. DEFINE s == Concat(t)
            N == Len(t)
<1>1. s \in Texts /\ N \in Nat
  BY ConcatAppend
<1>2. PICK o : Layout(o, t)
  BY LayoutExists
<1>3. PICK G : NoSpaceRun(G, s, marks, max)
  BY <1>1, NoSpaceRuns
<1>4. PICK R : SpokenRun(R, t, seps)
  BY SpokenRuns
<1>. DEFINE Claim(n) == /\ Begins(G[o[n]], Concat(R[n]), max)
                        /\ Len(Concat(R[n])) <= o[n]
            T == {n \in Nat : n <= N => Claim(n)}
<1>5. \A n \in 0 .. N : R[n] \in Seq(Chars) /\ Concat(R[n]) \in Seq(Byte) /\ Len(Concat(R[n])) \in Nat
  BY <1>4, ConcatAppend DEF SpokenRun, Texts
<1>6. 0 \in T
  <2>1. G[o[0]] = <<>> /\ R[0] = <<>> /\ o[0] = 0
    BY <1>2, <1>3, <1>4 DEF Layout, NoSpaceRun, SpokenRun
  <2>2. Concat(R[0]) = <<>>
    BY <2>1, ConcatAppend
  <2>3. <<>> \in Seq(Byte) /\ Len(<<>>) = 0
    OBVIOUS
  <2>4. Begins(<<>>, <<>>, max)
    BY <2>3 DEF Begins
  <2>. QED
    BY <2>1, <2>2, <2>3, <2>4
<1>7. ASSUME NEW i \in Nat, i \in T PROVE i + 1 \in T
  <2>. SUFFICES ASSUME i + 1 <= N PROVE Claim(i + 1)
    OBVIOUS
  <2>1. PICK n \in 1 .. N : n = i + 1 /\ i = n - 1
    BY <1>1
  <2>2. Claim(n - 1)
    BY <1>1, <1>7, <2>1
  <2>. DEFINE c == t[n]
              u == Utf8[c]
  <2>3. /\ c \in Chars /\ Len(u) \in Nat /\ n - 1 \in 0 .. N /\ n \in 0 .. N
        /\ o[n - 1] \in Nat /\ o[n] \in Nat /\ o[n] = o[n - 1] + Len(u)
    BY <1>2, BytesOf, LayoutTyped
  <2>4. R[n] = IF c \in seps THEN R[n - 1] ELSE Append(R[n - 1], LowerCase[c])
    BY <1>4 DEF SpokenRun
  <2>5. ASSUME NEW j \in 1 .. Len(u)
        PROVE  G[o[n - 1] + j] = IF c \in seps \/ Len(G[o[n - 1] + (j - 1)]) = max
                                 THEN G[o[n - 1] + (j - 1)]
                                 ELSE Append(G[o[n - 1] + (j - 1)], u[j])
    <3>1. Skipped(s, o[n - 1] + j, marks) <=> c \in seps
      BY <1>2, SkippedIs
    <3>2. s[o[n - 1] + j] = u[j]
      BY <1>2 DEF Layout
    <3>3. o[n] <= Len(s)
      <4>1. N \in 0 .. N /\ n \in 0 .. N
        BY <1>1, <2>3
      <4>2. o[n] <= o[N]
        BY <1>2, <4>1, LayoutMonotone
      <4>3. o[N] = Len(s)
        BY <1>2 DEF Layout
      <4>. QED
        BY <4>2, <4>3
    <3>4. PICK k \in 1 .. Len(s) : k = o[n - 1] + j /\ k - 1 = o[n - 1] + (j - 1)
      <4>1. Len(s) \in Nat
        BY <1>1 DEF Texts
      <4>. HIDE DEF u, s, c
      <4>2. PICK a \in Nat, d \in Nat, e \in Nat, z \in Nat :
              a = o[n - 1] /\ d = Len(u) /\ e = o[n] /\ z = Len(s)
        BY <2>3, <4>1
      <4>3. j \in 1 .. d /\ e = a + d /\ e <= z
        BY <2>3, <3>3, <4>2
      <4>4. a + j \in 1 .. z /\ (a + j) - 1 = a + (j - 1)
        BY <4>3
      <4>. QED
        BY <4>2, <4>4
    <3>5. G[k] = IF Skipped(s, k, marks) \/ Len(G[k - 1]) = max
                 THEN G[k - 1] ELSE Append(G[k - 1], s[k])
      BY <1>3 DEF NoSpaceRun
    <3>. HIDE DEF u, s, c
    <3>. QED
      BY <3>1, <3>2, <3>4, <3>5
  <2>. DEFINE K == [j \in 0 .. Len(u) |-> G[o[n - 1] + j]]
  <2>6. /\ K[0] = G[o[n - 1]] /\ K[Len(u)] = G[o[n]]
        /\ \A j \in 1 .. Len(u) : K[j] = G[o[n - 1] + j] /\ K[j - 1] = G[o[n - 1] + (j - 1)]
    <3>. HIDE DEF u
    <3>. QED
      BY <2>3
  <2>. HIDE DEF K
  <2>7. CASE c \in seps
    <3>1. \A j \in 1 .. Len(u) : K[j - 1] = G[o[n - 1]] => K[j] = G[o[n - 1]]
      BY <2>5, <2>6, <2>7
    <3>. DEFINE S == {j \in Nat : j <= Len(u) => K[j] = G[o[n - 1]]}
    <3>2. 0 \in S
      BY <2>6
    <3>3. ASSUME NEW j \in Nat, j \in S PROVE j + 1 \in S
      <4>. SUFFICES ASSUME j + 1 <= Len(u) PROVE K[j + 1] = G[o[n - 1]]
        OBVIOUS
      <4>1. PICK m \in 1 .. Len(u) : m = j + 1 /\ m - 1 = j
        BY <2>3
      <4>2. K[m - 1] = G[o[n - 1]]
        BY <2>3, <3>3, <4>1
      <4>. QED
        BY <3>1, <4>1, <4>2
    <3>4. Nat \subseteq S
      <4>. HIDE DEF S
      <4>. QED
        BY <3>2, <3>3, Induction
    <3>5. K[Len(u)] = G[o[n - 1]]
      BY <2>3, <3>4
    <3>6. R[n] = R[n - 1] /\ G[o[n]] = G[o[n - 1]]
      BY <2>4, <2>6, <2>7, <3>5
    <3>7. Begins(G[o[n]], Concat(R[n]), max)
      BY <2>2, <3>6
    <3>8. Len(Concat(R[n])) <= o[n]
      <4>1. Len(Concat(R[n])) <= o[n - 1] /\ Len(Concat(R[n])) \in Nat
        BY <1>5, <2>2, <2>3, <3>6
      <4>. HIDE DEF u
      <4>. QED
        BY <2>3, <4>1
    <3>. QED
      BY <2>1, <3>7, <3>8
  <2>8. CASE ~(c \in seps)
    <3>. DEFINE b == Concat(R[n - 1])
                v == Utf8[LowerCase[c]]
    <3>1. R[n - 1] \in Seq(Chars) /\ b \in Seq(Byte) /\ LowerCase[c] \in Chars /\ Len(b) \in Nat
      BY <1>5, <2>3, SmallIsChar
    <3>2. Concat(R[n]) = b \o v
      <4>1. R[n] = Append(R[n - 1], LowerCase[c])
        BY <2>4, <2>8
      <4>. QED
        BY <3>1, <4>1, ConcatAppend
    <3>3. \A j \in 1 .. Len(u) :
            K[j] = IF Len(K[j - 1]) = max THEN K[j - 1] ELSE Append(K[j - 1], u[j])
      BY <2>5, <2>6, <2>8
    <3>4. Begins(K[0], b, max)
      BY <2>2, <2>6
    <3>5. Begins(K[Len(u)], b \o v, max)
      <4>. HIDE DEF b, c
      <4>. QED
        BY <2>3, <3>3, <3>4, BeginsChar
    <3>6. Begins(G[o[n]], Concat(R[n]), max)
      BY <2>6, <3>2, <3>5
    <3>7. Len(Concat(R[n])) <= o[n]
      <4>1. v \in Seq(Byte) /\ Len(v) = Len(u)
        BY <2>3, <3>1, BytesOf, LowOf DEF Texts
      <4>2. Len(b \o v) = Len(b) + Len(v)
        BY <3>1, <4>1, JoinedBytes
      <4>3. Len(b) <= o[n - 1]
        BY <2>2
      <4>. HIDE DEF b, u, v
      <4>. QED
        BY <2>3, <3>1, <3>2, <4>1, <4>2, <4>3
    <3>. QED
      BY <2>1, <3>6, <3>7
  <2>. QED
    BY <2>7, <2>8
<1>8. Claim(N)
  <2>1. Nat \subseteq T
    <3>. HIDE DEF T
    <3>. QED
      BY <1>6, <1>7, Induction
  <2>2. N \in T
    BY <1>1, <2>1
  <2>. HIDE DEF Claim
  <2>. QED
    BY <1>1, <2>2
<1>9. G[o[N]] = NoSpace(s, marks, max) /\ R[N] = Spoken(t, seps) /\ o[N] = Len(s)
  BY <1>2, <1>3, <1>4 DEF Layout, NoSpaceRun, SpokenRun
<1>. QED
  BY <1>8, <1>9

-----------------------------------------------------------------------------
(* Searching bytes is searching characters. *)

LEMMA OccursIs ==
  ASSUME NEW S, NEW w \in Seq(S), NEW t \in Seq(S)
  PROVE  Occurs(w, t) <=>
           \E i \in 0 .. Len(t) - Len(w) : \A k \in 1 .. Len(w) : t[i + k] = w[k]
<1>1. Len(w) \in Nat /\ Len(t) \in Nat
  OBVIOUS
<1>2. ASSUME NEW i \in 0 .. Len(t) - Len(w)
      PROVE  SubSeq(t, i + 1, i + Len(w)) = w <=> \A k \in 1 .. Len(w) : t[i + k] = w[k]
  <2>. DEFINE q == SubSeq(t, i + 1, i + Len(w))
  <2>0. PICK a \in Nat : a = i /\ a + Len(w) <= Len(t)
    BY <1>1
  <2>1. q \in Seq(S) /\ Len(q) = Len(w) /\ \A k \in 1 .. Len(w) : q[k] = t[i + k]
    BY <1>1, <2>0
  <2>. HIDE DEF q
  <2>2. ASSUME q = w PROVE \A k \in 1 .. Len(w) : t[i + k] = w[k]
    BY <2>1, <2>2
  <2>3. ASSUME \A k \in 1 .. Len(w) : t[i + k] = w[k] PROVE q = w
    BY <2>1, <2>3
  <2>. QED
    BY <2>2, <2>3 DEF q
<1>. QED
  BY <1>2 DEF Occurs

\* The characters of w are in t, behind the first a.
At(w, t, a) == \A k \in 1 .. Len(w) : t[a + k] = w[k]

\* Where characters agree, so do the places of their bytes.
LEMMA SameLayout ==
  ASSUME NEW t \in Seq(Chars), NEW o, Layout(o, t), NEW w \in Seq(Chars), NEW p, Layout(p, w),
         NEW a \in Nat, a + Len(w) <= Len(t), At(w, t, a)
  PROVE  \A m \in 0 .. Len(w) : o[a + m] = o[a] + p[m]
<1>. DEFINE T == {m \in Nat : m <= Len(w) => o[a + m] = o[a] + p[m]}
<1>1. /\ Len(w) \in Nat /\ Len(t) \in Nat
      /\ \A i \in 0 .. Len(t) : o[i] \in Nat
      /\ \A i \in 0 .. Len(w) : p[i] \in Nat
  BY LayoutTyped
<1>2. 0 \in T
  <2>1. p[0] = 0 /\ a \in 0 .. Len(t) /\ a + 0 = a
    BY <1>1 DEF Layout
  <2>2. o[a] + 0 = o[a]
    BY <1>1, <2>1
  <2>. QED
    BY <2>1, <2>2
<1>3. ASSUME NEW m \in Nat, m \in T PROVE m + 1 \in T
  <2>. SUFFICES ASSUME m + 1 <= Len(w) PROVE o[a + (m + 1)] = o[a] + p[m + 1]
    OBVIOUS
  <2>1. o[a + m] = o[a] + p[m]
    BY <1>1, <1>3
  <2>2. PICK k \in 1 .. Len(w) : k = m + 1 /\ k - 1 = m
    BY <1>1
  <2>3. PICK n \in 1 .. Len(t) : n = a + k /\ n - 1 = a + m
    BY <1>1, <2>2
  <2>4. t[n] = w[k]
    BY <2>3 DEF At
  <2>5. o[n] = o[n - 1] + Len(Utf8[t[n]]) /\ p[k] = p[k - 1] + Len(Utf8[w[k]])
    BY DEF Layout
  <2>6. Len(Utf8[w[k]]) \in Nat /\ p[m] \in Nat /\ o[a] \in Nat
    <3>1. w[k] \in Chars /\ m \in 0 .. Len(w) /\ a \in 0 .. Len(t)
      BY <1>1, <2>2
    <3>. QED
      BY <1>1, <3>1, BytesOf
  <2>7. o[a + k] = o[a + m] + Len(Utf8[w[k]]) /\ p[k] = p[m] + Len(Utf8[w[k]])
    BY <2>2, <2>3, <2>4, <2>5
  <2>8. o[a + k] = o[a] + p[k]
    BY <2>1, <2>6, <2>7
  <2>. QED
    BY <2>2, <2>8
<1>4. Nat \subseteq T
  <2>. HIDE DEF T
  <2>. QED
    BY <1>2, <1>3, Induction
<1>. QED
  BY <1>1, <1>4

\* A word that is there in characters is there in bytes.
LEMMA CharsToBytes ==
  ASSUME NEW t \in Seq(Chars), NEW w \in Seq(Chars), NEW a \in Nat, a + Len(w) <= Len(t),
         At(w, t, a)
  PROVE  \E i \in 0 .. Len(Concat(t)) - Len(Concat(w)) : At(Concat(w), Concat(t), i)
<1>1. PICK o : Layout(o, t)
  BY LayoutExists
<1>2. PICK p : Layout(p, w)
  BY LayoutExists
<1>3. /\ Len(w) \in Nat /\ Len(t) \in Nat
      /\ \A i \in 0 .. Len(t) : o[i] \in Nat
      /\ \A i \in 0 .. Len(w) : p[i] \in Nat
  BY <1>1, <1>2, LayoutTyped
<1>4. \A m \in 0 .. Len(w) : o[a + m] = o[a] + p[m]
  BY <1>1, <1>2, SameLayout
<1>5. o[a] \in 0 .. Len(Concat(t)) - Len(Concat(w))
  <2>1. o[a + Len(w)] = o[a] + p[Len(w)] /\ p[Len(w)] \in Nat /\ o[a] \in Nat
    BY <1>3, <1>4
  <2>2. p[Len(w)] = Len(Concat(w)) /\ o[Len(t)] = Len(Concat(t))
    BY <1>1, <1>2 DEF Layout
  <2>3. o[a + Len(w)] <= o[Len(t)] /\ o[Len(t)] \in Nat
    <3>1. Len(t) \in 0 .. Len(t) /\ a + Len(w) \in 0 .. Len(t)
      BY <1>3
    <3>. QED
      BY <1>1, <1>3, <3>1, LayoutMonotone
  <2>. QED
    BY <2>1, <2>2, <2>3
<1>6. ASSUME NEW k \in 1 .. Len(Concat(w)) PROVE Concat(t)[o[a] + k] = Concat(w)[k]
  <2>1. PICK m \in 1 .. Len(w) : \E j \in 1 .. Len(Utf8[w[m]]) : k = p[m - 1] + j
    BY <1>2, Located
  <2>2. PICK j \in 1 .. Len(Utf8[w[m]]) : k = p[m - 1] + j
    BY <2>1
  <2>3. PICK n \in 1 .. Len(t) : n = a + m /\ n - 1 = a + (m - 1)
    BY <1>3
  <2>4. t[n] = w[m]
    BY <2>3 DEF At
  <2>5. Concat(w)[p[m - 1] + j] = Utf8[w[m]][j]
    BY <1>2 DEF Layout
  <2>6. Concat(t)[o[n - 1] + j] = Utf8[w[m]][j]
    BY <1>1, <2>4 DEF Layout
  <2>7. o[n - 1] + j = o[a] + k
    <3>1. m - 1 \in 0 .. Len(w) /\ a \in 0 .. Len(t) /\ j \in Int
      BY <1>3, <2>3
    <3>2. o[n - 1] = o[a] + p[m - 1] /\ o[a] \in Nat /\ p[m - 1] \in Nat
      BY <1>3, <1>4, <2>3, <3>1
    <3>. QED
      BY <2>2, <3>1, <3>2
  <2>. QED
    BY <2>2, <2>5, <2>6, <2>7
<1>. QED
  BY <1>5, <1>6 DEF At

\* The first byte of a character tells how many there are.
LEMMA SameLength ==
  ASSUME NEW u, NEW v, CodePoint(u), CodePoint(v), u[1] = v[1]
  PROVE  Len(u) = Len(v)
<1>1. PICK x : x = u[1] /\ x = v[1]
  OBVIOUS
<1>2. \/ Len(u) = 1 /\ x \in 1 .. 127
      \/ Len(u) = 2 /\ x \in 194 .. 223
      \/ Len(u) = 3 /\ x \in 224 .. 239
      \/ Len(u) = 4 /\ x \in 240 .. 244
  BY <1>1 DEF CodePoint
<1>3. \/ Len(v) = 1 /\ x \in 1 .. 127
      \/ Len(v) = 2 /\ x \in 194 .. 223
      \/ Len(v) = 3 /\ x \in 224 .. 239
      \/ Len(v) = 4 /\ x \in 240 .. 244
  BY <1>1 DEF CodePoint
<1>4. x \in Int
  BY <1>2
<1>5. PICK y \in Int : y = x
  BY <1>4
<1>. QED
  BY <1>2, <1>3, <1>5

\* Two characters that agree in their first byte, and in the bytes both have.
LEMMA SameChar ==
  ASSUME NEW c \in Chars, NEW d \in Chars, Utf8[c][1] = Utf8[d][1],
         \A j \in 1 .. Len(Utf8[d]) : j \in 1 .. Len(Utf8[c]) => Utf8[c][j] = Utf8[d][j]
  PROVE  c = d
<1>1. CodePoint(Utf8[c]) /\ CodePoint(Utf8[d])
  BY Utf8Assumption
<1>2. Len(Utf8[c]) = Len(Utf8[d])
  BY <1>1, SameLength
<1>3. PICK u \in Seq(Byte), v \in Seq(Byte) : u = Utf8[c] /\ v = Utf8[d]
  BY BytesOf DEF Texts
<1>4. Len(u) = Len(v) /\ \A j \in 1 .. Len(v) : j \in 1 .. Len(u) => u[j] = v[j]
  BY <1>2, <1>3, Zenon
<1>5. u = v
  BY <1>4
<1>6. Utf8[c] = Utf8[d]
  BY <1>3, <1>5, Zenon
<1>7. Utf8[c] = Utf8[d] => c = d
  BY Utf8Assumption
<1>. QED
  BY <1>6, <1>7

\* A word whose bytes are in a text begins at a character.
LEMMA BeginsAtChar ==
  ASSUME NEW t \in Seq(Chars), NEW o, Layout(o, t), NEW w \in Seq(Chars), Len(w) > 0,
         NEW i \in Nat, i + Len(Concat(w)) <= Len(Concat(t)), At(Concat(w), Concat(t), i)
  PROVE  \E a \in 0 .. Len(t) : i = o[a]
<1>1. PICK p : Layout(p, w)
  BY LayoutExists
<1>2. Len(Concat(w)) \in Nat /\ Len(Concat(t)) \in Nat
  BY ConcatAppend DEF Texts
<1>3. PICK d \in Chars : d = w[1]
  BY <1>2
<1>4. p[0] = 0 /\ p[1] = p[0] + Len(Utf8[d]) /\ Len(Utf8[d]) \in Nat /\ Len(Utf8[d]) > 0
  <2>1. 1 \in 1 .. Len(w) /\ 1 - 1 = 0
    BY LayoutTyped, <1>1
  <2>2. p[0] = 0
    BY <1>1 DEF Layout
  <2>3. p[1] = p[1 - 1] + Len(Utf8[w[1]])
    BY <1>1, <2>1 DEF Layout
  <2>. QED
    BY <1>3, <2>1, <2>2, <2>3, BytesOf
<1>5. 1 \in 1 .. Len(Concat(w))
  <2>1. 1 \in 0 .. Len(w) /\ Len(w) \in 0 .. Len(w)
    BY LayoutTyped, <1>1
  <2>2. p[1] <= p[Len(w)]
    BY <1>1, <2>1, LayoutMonotone
  <2>3. p[Len(w)] = Len(Concat(w))
    BY <1>1 DEF Layout
  <2>. QED
    BY <1>2, <1>4, <2>2, <2>3
<1>6. Concat(w)[1] = Utf8[d][1]
  <2>1. 1 \in 1 .. Len(w) /\ 1 - 1 = 0 /\ 1 \in 1 .. Len(Utf8[w[1]]) /\ 0 + 1 = 1
    BY LayoutTyped, <1>1, <1>3, <1>4
  <2>2. Concat(w)[p[1 - 1] + 1] = Utf8[w[1]][1]
    BY <1>1, <2>1 DEF Layout
  <2>. QED
    BY <1>3, <1>4, <2>1, <2>2
<1>7. PICK k \in 1 .. Len(Concat(t)) : k = i + 1
  BY <1>2, <1>5
<1>8. Concat(t)[k] = Utf8[d][1]
  BY <1>5, <1>6, <1>7 DEF At
<1>9. ~(Concat(t)[k] \in 128 .. 191)
  <2>1. Utf8[d][1] \in 1 .. 127 \cup 194 .. 244
    BY BytesOf
  <2>2. \A x \in 1 .. 127 \cup 194 .. 244 : ~(x \in 128 .. 191)
    OBVIOUS
  <2>3. ~(Utf8[d][1] \in 128 .. 191)
    BY <2>1, <2>2, Zenon
  <2>. QED
    BY <1>8, <2>3, Zenon
<1>10. PICK n \in 1 .. Len(t) : k = o[n - 1] + 1
  <2>1. \/ Concat(t)[k] \in 128 .. 191
        \/ \E n \in 1 .. Len(t) : k = o[n - 1] + 1
    BY LeadBegins, ZenonT(40)
  <2>. QED
    BY <1>9, <2>1, Zenon
<1>11. n - 1 \in 0 .. Len(t) /\ o[n - 1] \in Nat
  <2>1. n - 1 \in 0 .. Len(t)
    BY LayoutTyped
  <2>. QED
    BY <2>1, LayoutTyped
<1>12. i = o[n - 1]
  BY <1>7, <1>10, <1>11
<1>. QED
  BY <1>11, <1>12

\* The next character of the word is the next of the text.
LEMMA NextChar ==
  ASSUME NEW t \in Seq(Chars), NEW o, Layout(o, t), NEW w \in Seq(Chars), NEW p, Layout(p, w),
         NEW i \in Nat, i + Len(Concat(w)) <= Len(Concat(t)), At(Concat(w), Concat(t), i),
         NEW k \in 1 .. Len(w), NEW n \in 1 .. Len(t) + 1, o[n - 1] = i + p[k - 1]
  PROVE  n <= Len(t) /\ t[n] = w[k] /\ o[n] = i + p[k]
<1>. DEFINE bt == Concat(t)
            bw == Concat(w)
            d == w[k]
            v == Utf8[d]
<1>0. i + Len(bw) <= Len(bt)
  OBVIOUS
<1>1. /\ Len(w) \in Nat /\ Len(t) \in Nat /\ k - 1 \in 0 .. Len(w) /\ k \in 0 .. Len(w)
      /\ n - 1 \in 0 .. Len(t) /\ d \in Chars
      /\ Len(bw) \in Nat /\ Len(bt) \in Nat /\ Len(v) \in Nat /\ Len(v) > 0
  <2>1. Len(bw) \in Nat /\ Len(bt) \in Nat
    BY ConcatAppend DEF Texts
  <2>2. Len(w) \in Nat /\ Len(t) \in Nat /\ d \in Chars
    OBVIOUS
  <2>3. Len(v) \in Nat /\ Len(v) > 0
    BY <2>2, BytesOf
  <2>. HIDE DEF bt, bw, v, d
  <2>. QED
    BY <2>1, <2>2, <2>3
<1>2. /\ p[k - 1] \in Nat /\ p[k] \in Nat /\ p[k] = p[k - 1] + Len(v)
      /\ \A j \in 1 .. Len(v) : bw[p[k - 1] + j] = v[j]
  <2>1. p[k - 1] \in Nat /\ p[k] \in Nat
    BY <1>1, LayoutTyped
  <2>2. p[k] = p[k - 1] + Len(v) /\ \A j \in 1 .. Len(v) : bw[p[k - 1] + j] = v[j]
    BY DEF Layout
  <2>. QED
    BY <2>1, <2>2
<1>3. p[k] <= Len(bw)
  <2>1. Len(w) \in 0 .. Len(w)
    BY <1>1
  <2>2. p[k] <= p[Len(w)]
    BY <1>1, <2>1, LayoutMonotone
  <2>3. p[Len(w)] = Len(bw)
    BY DEF Layout
  <2>. QED
    BY <2>2, <2>3
<1>4. ASSUME NEW j \in 1 .. Len(v) PROVE bt[o[n - 1] + j] = v[j]
  <2>1. PICK b \in Nat, e \in Nat, z \in Nat : b = p[k - 1] /\ e = Len(v) /\ z = Len(bw)
    BY <1>1, <1>2
  <2>2. j \in 1 .. e /\ b + e <= z
    BY <1>2, <1>3, <2>1
  <2>3. PICK q \in 1 .. Len(bw) : q = b + j
    <3>1. b + j \in 1 .. z
      BY <2>2
    <3>. QED
      BY <2>1, <3>1
  <2>4. bt[i + q] = bw[q]
    BY DEF At
  <2>5. bw[p[k - 1] + j] = v[j]
    BY <1>2
  <2>6. p[k - 1] + j = q
    BY <2>1, <2>3
  <2>7. o[n - 1] + j = i + q
    <3>1. o[n - 1] = i + b
      BY <2>1
    <3>. QED
      BY <2>2, <2>3, <3>1
  <2>. QED
    BY <2>4, <2>5, <2>6, <2>7
<1>5. n <= Len(t)
  <2>. SUFFICES ASSUME n = Len(t) + 1 PROVE FALSE
    BY <1>1
  <2>1. o[n - 1] = Len(bt)
    <3>1. n - 1 = Len(t)
      BY <1>1
    <3>. QED
      BY <3>1 DEF Layout
  <2>2. i + p[k - 1] = Len(bt)
    BY <2>1
  <2>. HIDE DEF bt, bw, v, d
  <2>3. PICK b \in Nat, e \in Nat, y \in Nat, z \in Nat :
          b = p[k - 1] /\ e = p[k] /\ y = Len(bw) /\ z = Len(v)
    BY <1>1, <1>2
  <2>4. e = b + z /\ e <= y /\ z > 0
    BY <1>1, <1>2, <1>3, <2>3
  <2>5. i + y <= i + b
    BY <1>0, <2>2, <2>3
  <2>. QED
    BY <2>4, <2>5
<1>6. PICK m \in 1 .. Len(t) : m = n
  BY <1>1, <1>5
<1>. DEFINE c == t[m]
            u == Utf8[c]
<1>7. /\ c \in Chars /\ o[m] = o[m - 1] + Len(u)
      /\ \A j \in 1 .. Len(u) : bt[o[m - 1] + j] = u[j]
      /\ Len(u) \in Nat /\ Len(u) > 0
  <2>1. c \in Chars
    OBVIOUS
  <2>2. o[m] = o[m - 1] + Len(u) /\ \A j \in 1 .. Len(u) : bt[o[m - 1] + j] = u[j]
    BY DEF Layout
  <2>3. Len(u) \in Nat /\ Len(u) > 0
    BY <2>1, BytesOf
  <2>. QED
    BY <2>1, <2>2, <2>3
<1>8. ASSUME NEW j \in 1 .. Len(v), j \in 1 .. Len(u) PROVE u[j] = v[j]
  BY <1>4, <1>6, <1>7, <1>8
<1>9. u[1] = v[1]
  <2>0. \A l \in Nat : l > 0 => 1 \in 1 .. l
    OBVIOUS
  <2>1. 1 \in 1 .. Len(v) /\ 1 \in 1 .. Len(u)
    BY <1>1, <1>7, <2>0, Zenon
  <2>. QED
    BY <1>8, <2>1
<1>10. c = d
  <2>. HIDE DEF c, d
  <2>. QED
    BY <1>1, <1>7, <1>8, <1>9, SameChar
<1>11. o[n] = i + p[k]
  <2>1. o[n] = (i + p[k - 1]) + Len(v)
    BY <1>6, <1>7, <1>10
  <2>. HIDE DEF v
  <2>. QED
    BY <1>1, <1>2, <2>1
<1>. QED
  BY <1>5, <1>6, <1>10, <1>11

\* A word that is there in bytes is there in characters.
LEMMA BytesToChars ==
  ASSUME NEW t \in Seq(Chars), NEW w \in Seq(Chars),
         NEW i \in Nat, i + Len(Concat(w)) <= Len(Concat(t)), At(Concat(w), Concat(t), i)
  PROVE  \E a \in 0 .. Len(t) - Len(w) : At(w, t, a)
<1>1. Len(w) \in Nat /\ Len(t) \in Nat
  OBVIOUS
<1>2. CASE Len(w) = 0
  <2>1. 0 \in 0 .. Len(t) - Len(w) /\ At(w, t, 0)
    BY <1>1, <1>2 DEF At
  <2>. QED
    BY <2>1
<1>3. CASE Len(w) > 0
  <2>1. PICK o : Layout(o, t)
    BY LayoutExists
  <2>2. PICK p : Layout(p, w)
    BY LayoutExists
  <2>3. PICK a \in 0 .. Len(t) : i = o[a]
    BY <1>3, <2>1, BeginsAtChar
  <2>. DEFINE Claim(m) == /\ a + m <= Len(t) /\ o[a + m] = i + p[m]
                          /\ \A k \in 1 .. m : t[a + k] = w[k]
              T == {m \in Nat : m <= Len(w) => Claim(m)}
  <2>4. 0 \in T
    <3>1. p[0] = 0 /\ a + 0 = a /\ a <= Len(t) /\ i + 0 = i
      BY <1>1, <2>2 DEF Layout
    <3>. QED
      BY <2>3, <3>1
  <2>5. ASSUME NEW m \in Nat, m \in T PROVE m + 1 \in T
    <3>. SUFFICES ASSUME m + 1 <= Len(w) PROVE Claim(m + 1)
      OBVIOUS
    <3>1. a + m <= Len(t) /\ o[a + m] = i + p[m] /\ \A k \in 1 .. m : t[a + k] = w[k]
      BY <1>1, <2>5
    <3>2. PICK k \in 1 .. Len(w) : k = m + 1 /\ k - 1 = m
      BY <1>1
    <3>3. PICK n \in 1 .. Len(t) + 1 : n = a + k /\ n - 1 = a + m
      BY <1>1, <3>1, <3>2
    <3>4. o[n - 1] = i + p[k - 1]
      BY <3>1, <3>2, <3>3
    <3>5. n <= Len(t) /\ t[n] = w[k] /\ o[n] = i + p[k]
      BY <2>1, <2>2, <3>4, NextChar
    <3>6. ASSUME NEW q \in 1 .. m + 1 PROVE t[a + q] = w[q]
      <4>1. q \in 1 .. m \/ q = k
        BY <3>2
      <4>. QED
        BY <3>1, <3>3, <3>5, <4>1
    <3>. QED
      BY <3>2, <3>3, <3>5, <3>6
  <2>6. Nat \subseteq T
    <3>. HIDE DEF T
    <3>. QED
      BY <2>4, <2>5, Induction
  <2>7. Claim(Len(w))
    <3>1. Len(w) \in T
      BY <1>1, <2>6
    <3>. HIDE DEF Claim
    <3>. QED
      BY <1>1, <3>1
  <2>8. a \in 0 .. Len(t) - Len(w) /\ At(w, t, a)
    BY <1>1, <2>7 DEF At
  <2>. QED
    BY <2>8
<1>. QED
  BY <1>1, <1>2, <1>3

\* The search for bytes finds exactly what a search for characters finds.
LEMMA OccursBytes ==
  ASSUME NEW t \in Seq(Chars), NEW w \in Seq(Chars)
  PROVE  Occurs(Concat(w), Concat(t)) <=> Occurs(w, t)
<1>. DEFINE bt == Concat(t)
            bw == Concat(w)
<1>1. bt \in Seq(Byte) /\ bw \in Seq(Byte)
  BY ConcatAppend DEF Texts
<1>2. Occurs(w, t) <=> \E a \in 0 .. Len(t) - Len(w) : At(w, t, a)
  BY OccursIs DEF At
<1>3. Occurs(bw, bt) <=> \E i \in 0 .. Len(bt) - Len(bw) : At(bw, bt, i)
  <2>. HIDE DEF bt, bw
  <2>. QED
    BY <1>1, OccursIs DEF At
<1>4. ASSUME NEW a \in 0 .. Len(t) - Len(w), At(w, t, a)
      PROVE  \E i \in 0 .. Len(bt) - Len(bw) : At(bw, bt, i)
  <2>1. a \in Nat /\ a + Len(w) <= Len(t)
    OBVIOUS
  <2>. QED
    BY <1>4, <2>1, CharsToBytes
<1>5. ASSUME NEW i \in 0 .. Len(bt) - Len(bw), At(bw, bt, i)
      PROVE  \E a \in 0 .. Len(t) - Len(w) : At(w, t, a)
  <2>1. i \in Nat /\ i + Len(bw) <= Len(bt)
    <3>1. Len(bt) \in Nat /\ Len(bw) \in Nat
      BY <1>1
    <3>. HIDE DEF bt, bw
    <3>. QED
      BY <3>1
  <2>. QED
    BY <1>5, <2>1, BytesToChars
<1>. QED
  BY <1>2, <1>3, <1>4, <1>5

\* What Lower makes of the beginning.
LEMMA LowerIs ==
  ASSUME NEW a, NEW b, NEW max \in Nat, Begins(a, b, max)
  PROVE  /\ Lower(a) \in Seq(Byte) /\ b \in Seq(Byte)
         /\ Len(Lower(a)) = IF Len(b) <= max THEN Len(b) ELSE max
         /\ \A i \in 1 .. Len(Lower(a)) : Lower(a)[i] = b[i]
<1>1. /\ a \in Seq(Byte) /\ b \in Seq(Byte)
      /\ Len(a) = IF Len(b) <= max THEN Len(b) ELSE max
      /\ \A i \in 1 .. Len(a) : Low(a[i]) = b[i]
  BY DEF Begins
<1>2. \A x \in Byte : Low(x) \in Byte
  BY DEF Low, Byte
<1>3. Lower(a) = [i \in DOMAIN a |-> Low(a[i])]
  BY DEF Lower, Low
<1>4. Lower(a) = [i \in 1 .. Len(a) |-> Low(a[i])] /\ Len(a) \in Nat
  BY <1>1, <1>3
<1>5. \A i \in 1 .. Len(a) : Low(a[i]) \in Byte
  BY <1>1, <1>2
<1>6. Lower(a) \in Seq(Byte) /\ Len(Lower(a)) = Len(a)
  BY <1>4, <1>5
<1>. QED
  BY <1>1, <1>4, <1>6

LEMMA DetectsExactly ==
  ASSUME NEW t \in Seq(Chars), NEW w \in Seq(Chars), Len(Concat(w)) <= WordMax
  PROVE  LET found == Occurs(Spoken(w, Separators \ {"stop"}), Spoken(t, Separators))
             detected == wakeup_detector_check_text(Concat(t), Concat(w))
         IN /\ detected => found
            /\ found /\ Len(Concat(t)) <= TextMax => detected
<1>. DEFINE W == Spoken(w, Separators \ {"stop"})
            T == Spoken(t, Separators)
            bw == Concat(W)
            bt == Concat(T)
            aw == Lower(NoSpace(Concat(w), WordMarks, WordMax))
            at == Lower(NoSpace(Concat(t), TextMarks, TextMax))
<1>1. W \in Seq(Chars) /\ T \in Seq(Chars)
  <2>1. PICK G : SpokenRun(G, w, Separators \ {"stop"})
    BY SpokenRuns
  <2>2. PICK H : SpokenRun(H, t, Separators)
    BY SpokenRuns
  <2>3. Len(w) \in 0 .. Len(w) /\ Len(t) \in 0 .. Len(t)
    OBVIOUS
  <2>. QED
    BY <2>1, <2>2, <2>3 DEF SpokenRun
<1>2. /\ Begins(NoSpace(Concat(w), WordMarks, WordMax), bw, WordMax)
      /\ Len(bw) <= Len(Concat(w))
      /\ Begins(NoSpace(Concat(t), TextMarks, TextMax), bt, TextMax)
      /\ Len(bt) <= Len(Concat(t))
  BY SkimsText, SeparatorsFit, MaxAssumption
<1>3. /\ aw \in Seq(Byte) /\ bw \in Seq(Byte)
      /\ Len(aw) = IF Len(bw) <= WordMax THEN Len(bw) ELSE WordMax
      /\ \A i \in 1 .. Len(aw) : aw[i] = bw[i]
  BY <1>2, LowerIs, MaxAssumption
<1>4. /\ at \in Seq(Byte) /\ bt \in Seq(Byte)
      /\ Len(at) = IF Len(bt) <= TextMax THEN Len(bt) ELSE TextMax
      /\ \A i \in 1 .. Len(at) : at[i] = bt[i]
  BY <1>2, LowerIs, MaxAssumption
<1>5. Len(Concat(w)) \in Nat /\ Len(Concat(t)) \in Nat /\ WordMax \in Nat /\ TextMax \in Nat
  BY ConcatAppend, MaxAssumption DEF Texts
<1>6. Occurs(bw, bt) <=> Occurs(W, T)
  <2>. HIDE DEF W, T
  <2>. QED
    BY <1>1, OccursBytes
<1>7. Len(bw) <= WordMax
  <2>1. Len(bw) \in Nat
    BY <1>3
  <2>2. Len(bw) <= Len(Concat(w))
    BY <1>2
  <2>. HIDE DEF bw
  <2>. QED
    BY <1>5, <2>1, <2>2
<1>8. aw = bw
  <2>. HIDE DEF aw, bw
  <2>. QED
    BY <1>3, <1>7
<1>9. Occurs(aw, at) => Occurs(bw, bt)
  <2>. SUFFICES ASSUME Occurs(bw, at) PROVE Occurs(bw, bt)
    BY <1>8
  <2>. HIDE DEF bw, at, bt
  <2>1. PICK i \in 0 .. Len(at) - Len(bw) : \A k \in 1 .. Len(bw) : at[i + k] = bw[k]
    BY <1>3, <1>4, OccursIs
  <2>2. Len(at) <= Len(bt) /\ Len(at) \in Nat /\ Len(bt) \in Nat /\ Len(bw) \in Nat
    BY <1>3, <1>4, <1>5
  <2>3. i \in 0 .. Len(bt) - Len(bw)
    BY <2>2
  <2>4. ASSUME NEW k \in 1 .. Len(bw) PROVE bt[i + k] = bw[k]
    <3>1. PICK q \in 1 .. Len(at) : q = i + k
      BY <2>2
    <3>2. at[q] = bt[q]
      BY <1>4
    <3>3. at[i + k] = bw[k]
      BY <2>1
    <3>. QED
      BY <3>1, <3>2, <3>3
  <2>. QED
    BY <1>3, <1>4, <2>3, <2>4, OccursIs
<1>10. ASSUME Len(Concat(t)) <= TextMax, Occurs(bw, bt) PROVE Occurs(aw, at)
  <2>1. Len(bt) <= TextMax
    <3>1. Len(bt) \in Nat
      BY <1>4
    <3>2. Len(bt) <= Len(Concat(t))
      BY <1>2
    <3>. HIDE DEF bt
    <3>. QED
      BY <1>5, <1>10, <3>1, <3>2
  <2>. HIDE DEF aw, at, bw, bt
  <2>2. at = bt
    BY <1>4, <2>1
  <2>. QED
    BY <1>8, <1>10, <2>2
<1>11. wakeup_detector_check_text(Concat(t), Concat(w)) <=> Occurs(aw, at)
  BY DEF wakeup_detector_check_text
<1>. HIDE DEF aw, at, bw, bt
<1>12. Occurs(aw, at) => Occurs(W, T)
  BY <1>6, <1>9
<1>13. Occurs(W, T) /\ Len(Concat(t)) <= TextMax => Occurs(aw, at)
  BY <1>6, <1>10
<1>. QED
  BY <1>11, <1>12, <1>13

LEMMA TextTyped == CodecsSpec => [](text \in Seq(Chars) /\ word \in Seq(Chars))
<1>. DEFINE I == text \in Seq(Chars) /\ word \in Seq(Chars)
<1>1. NoArguments => I
  BY DEF NoArguments
<1>2. I /\ [MoreArguments]_arguments => I'
  <2>. SUFFICES ASSUME I, [MoreArguments]_arguments PROVE I'
    OBVIOUS
  <2>1. ASSUME NEW b \in Bytes, Record(b) PROVE I'
    BY <2>1 DEF Record
  <2>2. ASSUME NEW c \in Chars, Hear(c) PROVE I'
    BY <2>2 DEF Hear
  <2>3. ASSUME NEW c \in Chars, Name(c) PROVE I'
    BY <2>3 DEF Name
  <2>4. CASE UNCHANGED arguments
    BY <2>4 DEF arguments
  <2>. QED
    BY <2>1, <2>2, <2>3, <2>4 DEF MoreArguments
<1>. QED
  BY <1>1, <1>2, PTL DEF CodecsSpec

\* The search for the bytes of the wake word finds it exactly where the characters
\* agree, for every alphabet in UTF-8, every text and every word, and whatever the
\* sizes of the buffers: what the detector takes for the word is the word, and a
\* word that fits, in a text that fits, is found.
\* (wakeup_detector_check_text compares bytes of UTF-8)
THEOREM WordAlwaysFound == CodecsSpec => []DetectsWord
<1>1. ASSUME text \in Seq(Chars), word \in Seq(Chars) PROVE DetectsWord
  BY <1>1, DetectsExactly DEF DetectsWord, Detected, Found
<1>. QED
  BY <1>1, TextTyped, PTL
=============================================================================
