---------------------------- MODULE MCPlayEvents ----------------------------
(* PlayEvents for TLC: sessions and handler runs are interchangeable.      *)
EXTENDS PlayEvents, TLC

PlaySymmetry == Permutations(Sessions) \cup Permutations(Runs)

=============================================================================
