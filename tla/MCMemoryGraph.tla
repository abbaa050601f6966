---------------------------- MODULE MCMemoryGraph ----------------------------
(* Instances of MemoryGraph for TLC *)
EXTENDS MemoryGraph, TLC

\* Contents are not symmetric: one of them is sensitive
Symmetry == Permutations(Ids) \cup Permutations(Reqs)

=============================================================================
