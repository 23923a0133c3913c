------------------------- MODULE MCStatusLogWriter -------------------------
(* Instances of StatusLogWriter for TLC. *)
EXTENDS StatusLogWriter, TLC

\* Devices, statuses and flushes are each interchangeable.
WriterSymmetry == Permutations(Devices) \cup Permutations(Statuses) \cup Permutations(Flushes)
=============================================================================
