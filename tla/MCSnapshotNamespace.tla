------------------------- MODULE MCSnapshotNamespace -------------------------
(* Instances of SnapshotNamespace for TLC: the clients' keys are p/x, p/q/x *)
(* (deeper), and pq/x (a sibling that begins with p too).                   *)
EXTENDS SnapshotNamespace
X       == <<"p", "/", "x">>
Deep    == <<"p", "/", "q", "/", "x">>
Sibling == <<"p", "q", "/", "x">>

Pieces == {"/", ".snapshots", "_manifest.json", "i1", "i2", "p", "q", "x"}

Directory == << X, Deep >>
Siblings  == << X, Sibling >>

WholeOrDirectory == { <<>>, <<"p">>, <<"p", "/">> }
BareName == { <<"p">> }
=============================================================================
