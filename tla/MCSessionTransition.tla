------------------------- MODULE MCSessionTransition -------------------------
(* SessionTransition for TLC: the symmetry its configurations may use.     *)
EXTENDS SessionTransition, TLC

Symmetry == Permutations(Chans) \cup Permutations(Peers)
=============================================================================
