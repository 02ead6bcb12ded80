------------------------------ MODULE MCSnapshot ------------------------------
(* Instances of Snapshot for TLC. *)
EXTENDS Snapshot
CONSTANT k2
SomeUntagged == {<<k2, 1>>}
=============================================================================
