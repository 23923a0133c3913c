-------------------------- MODULE MCActivityChain --------------------------
(* ActivityChain for TLC: transactions are interchangeable.                *)
EXTENDS ActivityChain, TLC

WriterSymmetry == Permutations(Writers)

=============================================================================
