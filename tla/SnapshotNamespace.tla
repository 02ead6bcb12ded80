--------------------------- MODULE SnapshotNamespace ---------------------------
(***************************************************************************)
(* Where SnapshotService (storguard/snapshot/service.py) puts things: the  *)
(* mapping from a key to its copy and back, prefixes that are not          *)
(* directories, snapshots of a whole bucket, which contain the snapshots   *)
(* taken before.  One caller, no failures, so a call is one step; Snapshot *)
(* has the interleavings.                                                  *)
(*                                                                         *)
(* A key is a sequence of tokens, "/" and pieces of names; a prefix may    *)
(* end between any two.  What an object holds is a pair: <<"data", n>>, a  *)
(* client's n-th content, or <<"manifest", i>>, the JSON of snapshot i's   *)
(* manifest.  Every object carries its checksum, which stands for it.      *)
(***************************************************************************)
EXTENDS Naturals, Sequences, SequencesExt, FiniteSets

CONSTANTS
  Tokens,          \* "/", and the names and pieces of names keys are made of
  ClientKeys,      \* the clients' keys, in the order S3 lists them
  SourcePrefixes,  \* source prefixes passed to create; <<>> is the whole bucket
  Ids,             \* snapshot ids uuid4 can draw
  MaxBody          \* bound: distinct contents

ASSUME NamespaceAssumption ==
  /\ MaxBody \in Nat /\ Ids # {}
  /\ Ids \cup {"/", ".snapshots", "_manifest.json"} \subseteq Tokens
  /\ ClientKeys \in Seq(Seq(Tokens)) /\ SourcePrefixes \subseteq Seq(Tokens)
  /\ \A n, m \in DOMAIN ClientKeys : ClientKeys[n] = ClientKeys[m] => n = m

VARIABLES
  bucket,     \* what is stored, by key
  manifests,  \* manifests[i]: the manifest create wrote for i
  deleted,    \* history: the ids delete was called on
  captured,   \* history: captured[i], the objects create found, by their keys
  last        \* the latest restore: its id and what it reported

vars == <<bucket, manifests, deleted, captured, last>>

Slash    == <<"/">>
Root     == <<".snapshots", "/">>
Manifest == <<"_manifest.json">>
NoObjects == [k \in {} |-> <<"data", 0>>]
NoReport == [id |-> CHOOSE i \in Ids : TRUE, restored |-> {}, failed |-> {}]

Under(prefix) == {k \in DOMAIN bucket : IsPrefix(prefix, k)}
SnapshotDir(i) == Root \o <<i>> \o Slash
SnapKey(i, r)  == SnapshotDir(i) \o r

\* lstrip("/"), rstrip("/"): the rest from the first token that is no slash, and up
\* to the last one.
WithoutLeadingSlashes(s) ==
  LET slashes == CHOOSE n \in 0 .. Len(s) : /\ \A m \in 1 .. n : s[m] = "/"
                                            /\ n < Len(s) => s[n + 1] # "/"
  IN SubSeq(s, slashes + 1, Len(s))

WithoutTrailingSlashes(s) ==
  LET rest == CHOOSE n \in 0 .. Len(s) : /\ \A m \in n + 1 .. Len(s) : s[m] = "/"
                                         /\ n > 0 => s[n] # "/"
  IN SubSeq(s, 1, rest)

\* create: relative_key.
RelativeKey(prefix, k) ==
  IF prefix = <<>> THEN k
  ELSE WithoutLeadingSlashes(SubSeq(k, Len(prefix) + 1, Len(k)))

\* Mutant: the prefix is put back as it was given.
PrefixAsGiven(prefix, r) == IF prefix = <<>> THEN r ELSE prefix \o Slash \o r

\* restore: live_key.
LiveKey(prefix, r) ==
  IF prefix = <<>> THEN r ELSE WithoutTrailingSlashes(prefix) \o Slash \o r

-----------------------------------------------------------------------------
Init == /\ bucket = NoObjects
        /\ manifests = [i \in {} |-> NoReport]
        /\ deleted = {}
        /\ captured = [i \in {} |-> NoObjects]
        /\ last = NoReport

Holding(keys) == [k \in keys |-> bucket[k]]
Only(k, what) == [x \in {k} |-> what]

\* What is new takes the place of what was there.
Over(new, old) == [k \in DOMAIN new \cup DOMAIN old |-> IF k \in DOMAIN new THEN new[k] ELSE old[k]]

ClientPut(k, n) == /\ bucket' = Over(Only(k, <<"data", n>>), bucket)
                   /\ last' = NoReport
                   /\ UNCHANGED <<manifests, deleted, captured>>

ClientDelete(k) == /\ k \in DOMAIN bucket
                   /\ bucket' = Holding(DOMAIN bucket \ {k})
                   /\ last' = NoReport
                   /\ UNCHANGED <<manifests, deleted, captured>>

\* Of the listed keys with one relative key, the one listed last is copied last.
\* Only clients' keys can share one.
CopiedTo(listed, prefix, r) ==
  LET sources == {k \in listed : RelativeKey(prefix, k) = r} IN
    IF Cardinality(sources) = 1 THEN CHOOSE k \in sources : TRUE
    ELSE Last(SelectSeq(ClientKeys, LAMBDA k : k \in sources))

\* create: every listed object is copied, then the manifest is written, over a
\* copy that has its name.
Create(i, prefix) ==
  /\ i \notin DOMAIN manifests
  /\ LET listed  == Under(prefix)
         objects == [r \in {RelativeKey(prefix, k) : k \in listed} |->
                       bucket[CopiedTo(listed, prefix, r)]]
         copies  == [c \in {SnapKey(i, r) : r \in DOMAIN objects} |->
                       objects[SubSeq(c, Len(SnapshotDir(i)) + 1, Len(c))]]
     IN /\ bucket' = Over(Over(Only(SnapKey(i, Manifest), <<"manifest", i>>), copies), bucket)
        /\ manifests' = Over(Only(i, [source_prefix |-> prefix, objects |-> objects]), manifests)
        /\ captured' = Over(Only(i, Holding(listed)), captured)
  /\ last' = NoReport
  /\ UNCHANGED deleted

\* get: the manifest of i can be read.
Gettable(i) == SnapKey(i, Manifest) \in DOMAIN bucket

\* restore: copy by copy, a key is restored if its copy is there and is what the
\* manifest says; what was copied stays copied.
Restore(i) ==
  /\ Gettable(i)
  /\ LET m == manifests[i]
         present  == {r \in DOMAIN m.objects : SnapKey(i, r) \in DOMAIN bucket}
         restored == {r \in present : bucket[SnapKey(i, r)] = m.objects[r]}
         Live(rs) == {LiveKey(m.source_prefix, r) : r \in rs}
         back == [k \in Live(present) |->
                    bucket[SnapKey(i, CHOOSE r \in present : LiveKey(m.source_prefix, r) = k)]]
     IN /\ bucket' = Over(back, bucket)
        /\ last' = [id |-> i, restored |-> Live(restored),
                    failed |-> Live(DOMAIN m.objects \ restored)]
  /\ UNCHANGED <<manifests, deleted, captured>>

\* Mutant: the objects go and the manifest stays.
KeepsManifest(i) == {k \in Under(SnapshotDir(i)) : ~IsSuffix(Manifest, k)}

\* delete: every key under the snapshot's directory.
Doomed(i) == Under(SnapshotDir(i))

Delete(i) ==
  /\ i \in DOMAIN manifests
  /\ bucket' = Holding(DOMAIN bucket \ Doomed(i))
  /\ deleted' = deleted \cup {i}
  /\ last' = NoReport
  /\ UNCHANGED <<manifests, captured>>

Next == \/ \E n \in DOMAIN ClientKeys :
             ClientDelete(ClientKeys[n]) \/ \E b \in 1 .. MaxBody : ClientPut(ClientKeys[n], b)
        \/ \E i \in Ids : \/ Restore(i) \/ Delete(i)
                          \/ \E prefix \in SourcePrefixes : Create(i, prefix)

Spec == Init /\ [][Next]_vars

-----------------------------------------------------------------------------
(* Properties.                                                             *)

\* A restore that passes brings back every object create found, under its own key
\* and with its own content ("a server-side copy of every live object under a
\* source prefix ... Restore copies the snapshotted objects back", service.py).
Passed == last.restored # {} /\ last.failed = {}
RestoreBringsBack ==
  Passed => \A k \in DOMAIN captured[last.id] :
              k \in DOMAIN bucket /\ bucket[k] = captured[last.id][k]

\* A snapshot get() finds can be restored in full, whatever clients, other snapshots
\* and restores of snapshots that contain it have done to the bucket since.  A
\* restore may even bring back a deleted snapshot, and then all of it.
GettableIsWhole ==
  \A i \in DOMAIN manifests : Gettable(i) =>
    \A r \in DOMAIN manifests[i].objects :
      /\ SnapKey(i, r) \in DOMAIN bucket
      /\ bucket[SnapKey(i, r)] = manifests[i].objects[r]

=============================================================================
