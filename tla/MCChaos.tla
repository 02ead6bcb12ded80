-------------------------------- MODULE MCChaos --------------------------------
(* Instances of Chaos for TLC. *)
EXTENDS Chaos
=============================================================================
