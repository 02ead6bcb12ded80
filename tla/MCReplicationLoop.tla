------------------------- MODULE MCReplicationLoop -------------------------
(* Instances of ReplicationLoop for TLC. *)
EXTENDS ReplicationLoop
TaggedOnly == {TRUE}
=============================================================================
