---------------------------- MODULE MCCheckout ----------------------------
(* Instances of Checkout for TLC. *)
EXTENDS Checkout

MCHolds == 1 .. 2
=============================================================================
