---------------------------- MODULE MCContextSlots ----------------------------
(* ContextSlots with interchangeable streams, for TLC.                     *)
EXTENDS ContextSlots, TLC

StreamSymmetry == Permutations(Streams)
=============================================================================
