----------------------------- MODULE MCChannels -----------------------------
(* Channels for TLC: the guest instances are interchangeable.              *)
EXTENDS Channels, TLC

Symmetric == Permutations(Insts)
=============================================================================
