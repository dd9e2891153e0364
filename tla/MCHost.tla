------------------------------- MODULE MCHost -------------------------------
(* The listings and reviews services and the two tabs, for TLC. *)
EXTENDS Host
=============================================================================
