-------------------------- MODULE MCDeliveryLedger --------------------------
(* DeliveryLedger for TLC: the symmetries its configurations may use.      *)
EXTENDS DeliveryLedger, TLC

ChanSymmetry == Permutations(Chans)
GenSymmetry == Permutations(Chans) \cup Permutations(Gens)
=============================================================================
