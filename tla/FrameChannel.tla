---------------------------- MODULE FrameChannel ----------------------------
(***************************************************************************)
(* What the microphone driver promises to its readers, with no ring, no    *)
(* semaphore and no interrupt: a bounded FIFO of frames that refuses the   *)
(* newest frame when it is full, but for the one place that a reader may   *)
(* be about to give back.  Frames are numbered in the order in which they  *)
(* are captured.                                                           *)
(*                                                                         *)
(* The promise has a condition.  Once `valid' is FALSE the channel is      *)
(* void: nothing is said of the contents any more, and it stays so.        *)
(***************************************************************************)
EXTENDS Integers, Sequences

CONSTANT Capacity

VARIABLES
  queue,      \* the frames captured and not yet handed to a reader
  captured,   \* number of frames put in the channel so far
  taken,      \* number of frames handed to readers so far
  refused,    \* number of frames refused so far
  valid       \* the channel still keeps its promise

vars == <<queue, captured, taken, refused, valid>>

Init ==
  /\ queue = <<>>
  /\ captured = 0
  /\ taken = 0
  /\ refused = 0
  /\ valid = TRUE

\* A frame is captured and there is room for it.
Put ==
  /\ Len(queue) < Capacity
  /\ captured' = captured + 1
  /\ queue' = Append(queue, captured')
  /\ UNCHANGED <<taken, refused, valid>>

\* A frame is captured and there is hardly room for it.
Refuse ==
  /\ Len(queue) >= Capacity - 1
  /\ refused' = refused + 1
  /\ UNCHANGED <<queue, captured, taken, valid>>

\* A reader gets the oldest frame.
Get ==
  /\ queue # <<>>
  /\ taken' = Head(queue)
  /\ queue' = Tail(queue)
  /\ UNCHANGED <<captured, refused, valid>>

\* The condition of the promise is broken.
Void == valid' = FALSE

Next ==
  \/ valid /\ valid' /\ (Put \/ Refuse \/ Get)
  \/ Void

Spec == Init /\ [][Next]_vars
=============================================================================
