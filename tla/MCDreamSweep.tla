---------------------------- MODULE MCDreamSweep ----------------------------
(* Instances of DreamSweep for TLC *)
EXTENDS DreamSweep

=============================================================================
