-------------------------- MODULE MCVoiceAssistant --------------------------
EXTENDS VoiceAssistant, TLC

\* Threads of a kind are interchangeable; sound for invariants and action
\* properties, so the liveness runs leave it out.
Symmetry == Permutations(Mains) \cup Permutations(Procs)
=============================================================================
