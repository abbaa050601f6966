-------------------------- MODULE MCTranscriptFlush --------------------------
(* Instances of TranscriptFlush for TLC *)
EXTENDS TranscriptFlush, TLC

\* Hooks that left something behind are not like the others
Symmetry == Permutations(Hooks \ Left)

=============================================================================
