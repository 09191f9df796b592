------------------------------ MODULE WakeWord ------------------------------
(***************************************************************************)
(* wakeup_detector_check_text of src/applications/wakeup_detector.c: does  *)
(* a recognised text contain the wake word?  Texts are sequences of bytes, *)
(* in UTF-8 where they are not ASCII.                                      *)
(***************************************************************************)
EXTENDS Integers, Sequences, SequencesExt

CONSTANTS
  TextMax,  \* bytes of text_no_space, 127
  WordMax   \* bytes of word_no_space, 31

ASSUME MaxAssumption == TextMax \in Nat /\ WordMax \in Nat

Blanks == {32, 44, 46}                               \* ' '  ','  '.'
TextMarks == {<<227, 128, 129>>, <<227, 128, 130>>}  \* ideographic comma, full stop
WordMarks == {<<227, 128, 129>>}

MarkAt(s, i, marks) == i > 0 /\ i + 2 <= Len(s) /\ SubSeq(s, i, i + 2) \in marks

\* Mutant: only the first byte of a mark is skipped.
SkippedLead(s, i, marks) == s[i] \in Blanks \/ MarkAt(s, i, marks)

\* A blank, or one of the three bytes of a mark.
Skipped(s, i, marks) == s[i] \in Blanks \/ \E k \in 0 .. 2 : MarkAt(s, i - k, marks)

\* The bytes that are not skipped, as many as fit.
NoSpace(s, marks, max) ==
  LET Keep(kept, i) ==
        IF Skipped(s, i, marks) \/ Len(kept) = max THEN kept ELSE Append(kept, s[i])
  IN FoldLeftDomain(Keep, <<>>, s)

Lower(s) == [i \in DOMAIN s |-> IF s[i] \in 65 .. 90 THEN s[i] + 32 ELSE s[i]]

\* strstr
Occurs(word, text) ==
  \E i \in 0 .. Len(text) - Len(word) : SubSeq(text, i + 1, i + Len(word)) = word

wakeup_detector_check_text(text, word) ==
  Occurs(Lower(NoSpace(word, WordMarks, WordMax)), Lower(NoSpace(text, TextMarks, TextMax)))
=============================================================================
