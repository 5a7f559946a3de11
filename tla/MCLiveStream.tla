---------------------------- MODULE MCLiveStream ----------------------------
(* LiveStream for TLC: emitters, enders and viewers are interchangeable. *)
EXTENDS LiveStream

LiveSymmetry ==
    Permutations(Emitters) \cup Permutations(Enders) \cup Permutations(Viewers)
=============================================================================
