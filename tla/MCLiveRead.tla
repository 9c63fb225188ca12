----------------------------- MODULE MCLiveRead -----------------------------
(* Values of the constants of LiveRead for TLC. *)
EXTENDS LiveRead, TLC

MCSymmetry == Permutations(Accounts) \cup Permutations(Sacs)
=============================================================================
