---------------------------- MODULE LaggingReplica ----------------------------
(***************************************************************************)
(* What asynchronous one-way replication promises.  A source moves through *)
(* versions 1, 2, 3, ... of every key; the replica of a key holds some     *)
(* version the source has had, and only ever moves to a later one.  How    *)
(* far behind the replica is, and through which versions it passes, is     *)
(* left open.  ReplicationSync implements this with source <- latest and   *)
(* replica <- the bodies held by the secondary site.                       *)
(***************************************************************************)
EXTENDS Naturals

CONSTANT Keys

VARIABLES source,   \* source[k]: the latest version written, 0 before the first
          replica   \* replica[k]: the version the replica holds, 0 for none

vars == <<source, replica>>

Init == /\ source  = [k \in Keys |-> 0]
        /\ replica = [k \in Keys |-> 0]

Write(k) == /\ source' = [source EXCEPT ![k] = @ + 1]
            /\ UNCHANGED replica

CatchUp(k) == \E v \in replica[k] .. source[k] :
                 /\ replica' = [replica EXCEPT ![k] = v]
                 /\ UNCHANGED source

Next == \E k \in Keys : Write(k) \/ CatchUp(k)

Spec == Init /\ [][Next]_vars

=============================================================================
