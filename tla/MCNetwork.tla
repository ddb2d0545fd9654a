----------------------------- MODULE MCNetwork -------------------------------
(* Two Macs, alike, and three events of the radio's own on the way.          *)
EXTENDS Network, TLC

Alike == Permutations(Macs)
=============================================================================
