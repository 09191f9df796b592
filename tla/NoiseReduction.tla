--------------------------- MODULE NoiseReduction ---------------------------
(***************************************************************************)
(* The arithmetic on the samples of the voice activity detector, by its    *)
(* widths: the high-pass filter audio_noise_reduction, the energy          *)
(* audio_calculate_energy and the conversion audio_convert_32to16 of       *)
(* src/applications/audio_process.c.                                       *)
(*                                                                         *)
(* A sample of the microphone has 24 bits in an int32_t.  The widths are   *)
(* constants, so that TLC takes small ones in the code's proportions and   *)
(* the proofs hold for the real ones:                                      *)
(*   Scale = 2^8, PcmHalf = 2^15, IntHalf = 2^31, UintSize = 2^32,         *)
(*   LongSize = 2^64, full scale 2^23 = Scale * PcmHalf.                   *)
(***************************************************************************)
EXTENDS Integers, Sequences, SequencesExt

CONSTANTS
  Peak,       \* samples are in -Peak .. Peak
  Samples,    \* the samples the microphone delivers
  FrameSize,  \* samples of a frame
  Scale, PcmHalf, IntHalf, UintSize, LongSize

ASSUME PeakAssumption == Peak \in Nat /\ Samples \subseteq -Peak .. Peak
ASSUME FrameSizeAssumption == FrameSize \in Nat \ {0}
ASSUME WidthAssumption == Scale \in Nat \ {0} /\ PcmHalf \in Nat \ {0}

VARIABLES
  nr_prev_sample, nr_prev_output,  \* g_audio_ctx
  frame,                           \* the filtered samples of the frame so far
  energy,                          \* audio_calculate_energy of the last frame
  pcm16                            \* audio_convert_32to16 of the last frame

vars == <<nr_prev_sample, nr_prev_output, frame, energy, pcm16>>

Init ==
  /\ nr_prev_sample = 0
  /\ nr_prev_output = 0
  /\ frame = <<>>
  /\ energy = 0
  /\ pcm16 = <<>>

\* An int of 2 * half values.
Wrapped(v, half) == ((v + half) % (2 * half)) - half

\* Mutant: one bit too few is shifted out.
ScaledLess(sample) == sample \div (Scale \div 2)

\* Arithmetic shift right.
Scaled(sample) == sample \div Scale

\* (int32_t)(0.95f * v): 0.95f is 15938355 / 2^24; the float product is rounded,
\* so the integer is one of the two neighbours of the exact product.
Decayed(v) ==
  {(15938355 * v) \div 16777216, -((15938355 * (-v)) \div 16777216)}

FilterWith(current, output) ==
  /\ Len(frame) < FrameSize
  /\ nr_prev_sample' = current
  /\ nr_prev_output' = output
  /\ frame' = Append(frame, output)
  /\ UNCHANGED <<energy, pcm16>>

\* Mutant: the old sample is added.
FilterSummed(current) ==
  \E d \in Decayed(nr_prev_output) : FilterWith(current, current + nr_prev_sample + d)

\* y[n] = x[n] - x[n-1] + 0.95 y[n-1]
Filter(current) ==
  \E d \in Decayed(nr_prev_output) : FilterWith(current, current - nr_prev_sample + d)

\* The int product is converted to uint64_t before it is added.
Square(sample) == Wrapped(Scaled(sample) * Scaled(sample), IntHalf) % LongSize

Sum(terms) == FoldSeq(LAMBDA t, s : (s + t) % LongSize, 0, terms)

FrameEnergy(f) ==
  (Sum([i \in DOMAIN f |-> Square(f[i])]) \div Len(f)) % UintSize

Converted(f) == [i \in DOMAIN f |-> Wrapped(Scaled(f[i]), PcmHalf)]

EndOfFrame ==
  /\ Len(frame) = FrameSize
  /\ energy' = FrameEnergy(frame)
  /\ pcm16' = Converted(frame)
  /\ frame' = <<>>
  /\ UNCHANGED <<nr_prev_sample, nr_prev_output>>

\* audio_process_start clears the filter, between two frames.
Restart ==
  /\ frame = <<>>
  /\ nr_prev_sample' = 0
  /\ nr_prev_output' = 0
  /\ UNCHANGED <<frame, energy, pcm16>>

Next ==
  \/ \E current \in Samples : Filter(current)
  \/ EndOfFrame
  \/ Restart

Spec == Init /\ [][Next]_vars

-----------------------------------------------------------------------------
(* Properties. *)

Abs(v) == IF v < 0 THEN -v ELSE v

TypeOK ==
  /\ nr_prev_sample \in Int /\ nr_prev_output \in Int
  /\ frame \in Seq(Int) /\ Len(frame) <= FrameSize
  /\ energy \in Int
  /\ pcm16 \in Seq(Int)

\* The filter is stable: its output stays within Peak of its input, hence
\* within twice the peak, however long it runs.
Stable ==
  /\ Abs(nr_prev_sample) <= Peak
  /\ Abs(nr_prev_output - nr_prev_sample) <= Peak
  /\ \A i \in DOMAIN frame : Abs(frame[i]) <= 2 * Peak

\* A sound below half of full scale is neither distorted by the conversion to
\* 16 bits nor overflows a square: no cast changes a value.
SamplesKept ==
  \A i \in DOMAIN frame :
    /\ Converted(frame)[i] = Scaled(frame[i])
    /\ Square(frame[i]) = Scaled(frame[i]) * Scaled(frame[i])

\* ... and the energy of a frame is the mean of the squares of its samples.
\* ("Scale down to prevent overflow" in audio_calculate_energy, and the cast in
\* audio_convert_32to16; between half and full scale the casts do wrap)
Undistorted ==
  /\ SamplesKept
  /\ Len(frame) = FrameSize =>
       FrameEnergy(frame) =
         FoldSeq(LAMBDA y, s : s + Scaled(y) * Scaled(y), 0, frame) \div FrameSize
=============================================================================
