----------------------------- MODULE MCRealtime -----------------------------
(* Instances of Realtime for TLC.                                          *)
EXTENDS Realtime, TLC
CONSTANTS a, b, c1, c2

Symmetric == Permutations(Clients)
=============================================================================
