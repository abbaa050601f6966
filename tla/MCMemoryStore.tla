---------------------------- MODULE MCMemoryStore ----------------------------
(* Instances of MemoryStore for TLC *)
EXTENDS MemoryStore, TLC

\* Row ids are ordered by the scroll, and are not symmetric
Symmetry == Permutations(Writers) \cup Permutations(Dedups) \cup Permutations(Texts)

=============================================================================
