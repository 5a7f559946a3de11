---------------------------- MODULE MCSessionLog ----------------------------
(* SessionLog for TLC: calls are interchangeable, so they are symmetric. *)
EXTENDS SessionLog, TLC

CallSymmetry == Permutations(Emitters) \cup Permutations(Enders)
=============================================================================
