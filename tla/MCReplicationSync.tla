------------------------- MODULE MCReplicationSync -------------------------
(* Instances of ReplicationSync for TLC. *)
EXTENDS ReplicationSync
BothTags == BOOLEAN
TaggedOnly == {TRUE}
=============================================================================
