---------------------------- MODULE SnapshotLedger ----------------------------
(***************************************************************************)
(* What the snapshot service promises of each snapshot id.  It is not to   *)
(* be seen until it is published, with its content complete; from then on  *)
(* the content stays what it was, whatever becomes of the live objects and *)
(* of other snapshots, until somebody gives the snapshot up; and what is   *)
(* given up is never published again.                                      *)
(*                                                                         *)
(* Snapshot implements this with published <- the ids listed and not being *)
(* deleted, given up <- those whose deletion has begun.                    *)
(***************************************************************************)
CONSTANTS Ids,
          Missing  \* in place of a body: there is none

VARIABLES state,   \* state[i]: "unseen", "published" or "given up"
          content  \* content[i]: the bodies a reader of i is promised, Nothing unless published

Nothing == [k \in {} |-> Missing]

vars == <<state, content>>

Init == /\ state = [i \in Ids |-> "unseen"]
        /\ content = [i \in Ids |-> Nothing]

\* Nothing but i changes.
Moves(i, from, to) ==
  /\ state[i] = from
  /\ state' = [state EXCEPT ![i] = to]
  /\ content' = [content EXCEPT ![i] = content'[i]]

Publish(i) == /\ Moves(i, "unseen", "published")
              /\ \A k \in DOMAIN content'[i] : content'[i][k] # Missing
GiveUp(i)  == Moves(i, "published", "given up") /\ content'[i] = Nothing

Next == \E i \in Ids : Publish(i) \/ GiveUp(i)

Spec == Init /\ [][Next]_vars

=============================================================================
