------------------------------ MODULE MCRelay ------------------------------
(* Instances of Relay for TLC. *)
EXTENDS Relay, TLC

MCIds == 1 .. 4

MCSymmetry == Permutations(Relays)
=============================================================================
