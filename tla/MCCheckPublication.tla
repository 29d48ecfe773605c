-------------------------- MODULE MCCheckPublication --------------------------
(* Small instances of the delivery to a GitHub Check.                         *)
EXTENDS CheckPublicationProps, TLC

Symmetry == Permutations(Findings) \cup Permutations(Workers)
===============================================================================
