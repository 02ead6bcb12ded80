----------------------------- MODULE NamespaceProofs -----------------------------
(***************************************************************************)
(* Snapshots of directories and of the whole bucket, snapshots of          *)
(* snapshots, for any number of keys, prefixes, ids and contents: whatever *)
(* get() finds is whole, and restoring it brings everything back.          *)
(***************************************************************************)
EXTENDS SnapshotNamespace, SequenceTheorems, FiniteSetTheorems, WellFoundedInduction, TLAPS

Key       == Seq(Tokens)
ClientSet == {ClientKeys[n] : n \in DOMAIN ClientKeys}

\* What the service needs of its users' keys and does not enforce: nobody writes below
\* .snapshots/ or names a prefix in it, and cutting a prefix off a key and putting it
\* back gives the key.
KeysFit ==
  /\ \A k \in ClientSet : ~IsPrefix(Root, k)
  /\ \A prefix \in SourcePrefixes :
       /\ prefix # <<>> => prefix[1] # ".snapshots"
       /\ \A k \in ClientSet : IsPrefix(prefix, k) =>
            /\ LiveKey(prefix, RelativeKey(prefix, k)) = k
            /\ RelativeKey(prefix, k) # Manifest

-----------------------------------------------------------------------------
(* Keys.                                                                   *)

LEMMA PrefixByToken ==
  ASSUME NEW s \in Key, NEW t \in Key
  PROVE  IsPrefix(s, t) <=> /\ Len(s) <= Len(t)
                            /\ \A n \in 1 .. Len(s) : s[n] = t[n]
<1>1. Len(s) \in Nat /\ Len(t) \in Nat
  BY DEF Key
<1>2. ASSUME Len(s) <= Len(t)
      PROVE  /\ SubSeq(s, 1, Len(s)) \in Key /\ Len(SubSeq(s, 1, Len(s))) = Len(s)
             /\ SubSeq(t, 1, Len(s)) \in Key /\ Len(SubSeq(t, 1, Len(s))) = Len(s)
             /\ \A n \in 1 .. Len(s) : SubSeq(s, 1, Len(s))[n] = s[n] /\ SubSeq(t, 1, Len(s))[n] = t[n]
  BY <1>1, <1>2 DEF Key
<1>3. ASSUME Len(s) <= Len(t), \A n \in 1 .. Len(s) : s[n] = t[n]
      PROVE  SubSeq(s, 1, Len(s)) = SubSeq(t, 1, Len(s))
  BY <1>2, <1>3, SeqEqual DEF Key
<1>4. QED  BY <1>2, <1>3 DEF IsPrefix

LEMMA ManifestIsKey == Manifest \in Key
  BY NamespaceAssumption DEF Manifest, Key

LEMMA LeastNumber ==
  ASSUME NEW T, T \subseteq Nat, T # {}
  PROVE  \E n \in T : \A m \in T : n <= m
<1> DEFINE R == {p \in Nat \X Nat : p[1] < p[2]}
<1>1. IsWellFoundedOn(R, Nat)
  BY NatLessThanWellFounded DEF OpToRel
<1>2. \E n \in T : \A m \in T : ~(<<m, n>> \in R)
  <2> HIDE DEF R
  <2> QED  BY <1>1, WFMin
<1>3. PICK n \in T : \A m \in T : ~(<<m, n>> \in R)
  BY <1>2
<1>4. ASSUME NEW m \in T PROVE n <= m
  <2>1. m \in Nat /\ n \in Nat /\ ~(m < n)
    BY <1>3
  <2>2. QED  BY <2>1
<1>5. QED  BY <1>4

\* lstrip finds where the slashes end.
LEMMA LeadingSlashesEnd ==
  ASSUME NEW s \in Key
  PROVE  \E n \in 0 .. Len(s) : (\A m \in 1 .. n : s[m] = "/") /\ (n < Len(s) => s[n + 1] # "/")
<1> DEFINE Ends == {n \in 0 .. Len(s) : n < Len(s) => s[n + 1] # "/"}
<1>1. Len(s) \in Nat
  BY DEF Key
<1>2. Ends \subseteq Nat /\ Len(s) \in Ends
  BY <1>1
<1>3. PICK n \in Ends : \A m \in Ends : n <= m
  BY <1>2, LeastNumber
<1>4. ASSUME NEW m \in 1 .. n PROVE s[m] = "/"
  <2>1. m - 1 \in 0 .. Len(s) /\ m - 1 < Len(s) /\ ~(n <= m - 1)
    BY <1>1, <1>2, <1>3, <1>4
  <2>2. m - 1 \notin Ends
    BY <1>3, <2>1
  <2>3. s[(m - 1) + 1] = "/"
    BY <2>1, <2>2
  <2>4. (m - 1) + 1 = m
    BY <1>2, <1>4
  <2>5. QED  BY <2>3, <2>4
<1>5. QED  BY <1>3, <1>4

LEMMA StrippedIsKey ==
  ASSUME NEW s \in Key
  PROVE  WithoutLeadingSlashes(s) \in Key
<1> DEFINE IsCount(n) == (\A m \in 1 .. n : s[m] = "/") /\ (n < Len(s) => s[n + 1] # "/")
           slashes == CHOOSE n \in 0 .. Len(s) : IsCount(n)
<1>1. \E n \in 0 .. Len(s) : IsCount(n)
  BY LeadingSlashesEnd
<1>2. slashes \in 0 .. Len(s) /\ Len(s) \in Nat
  <2> HIDE DEF IsCount
  <2> QED  BY <1>1 DEF Key
<1>3. WithoutLeadingSlashes(s) = SubSeq(s, slashes + 1, Len(s))
  BY DEF WithoutLeadingSlashes
<1> HIDE DEF slashes
<1>4. \A n \in slashes + 1 .. Len(s) : s[n] \in Tokens
  BY <1>2 DEF Key
<1>5. SubSeq(s, slashes + 1, Len(s)) \in Seq(Tokens)
  BY <1>2, <1>4, SubSeqProperties
<1>6. QED  BY <1>3, <1>5 DEF Key

LEMMA RelativeIsKey ==
  ASSUME NEW prefix \in Key, NEW k \in Key, IsPrefix(prefix, k)
  PROVE  RelativeKey(prefix, k) \in Key
<1> DEFINE rest == SubSeq(k, Len(prefix) + 1, Len(k))
<1>1. Len(prefix) \in Nat /\ Len(k) \in Nat
  BY DEF Key
<1>2. \A n \in Len(prefix) + 1 .. Len(k) : k[n] \in Tokens
  BY <1>1 DEF Key
<1>3. rest \in Key
  BY <1>1, <1>2, SubSeqProperties DEF Key
<1>4. WithoutLeadingSlashes(rest) \in Key
  BY <1>3, StrippedIsKey
<1>5. QED  BY <1>4 DEF RelativeKey

\* Two keys put together, token by token and cut apart again.
LEMMA Joined ==
  ASSUME NEW s \in Key, NEW t \in Key
  PROVE  /\ s \o t \in Key /\ Len(s \o t) = Len(s) + Len(t)
         /\ Len(s) \in Nat /\ Len(t) \in Nat
         /\ \A n \in 1 .. Len(s) : (s \o t)[n] = s[n]
         /\ \A n \in 1 .. Len(t) : (s \o t)[Len(s) + n] = t[n]
         /\ SubSeq(s \o t, 1, Len(s)) = s
         /\ SubSeq(s \o t, Len(s) + 1, Len(s \o t)) = t
<1>1. s \in Seq(Tokens) /\ t \in Seq(Tokens) /\ Len(s) \in Nat /\ Len(t) \in Nat
  BY DEF Key
<1>2. /\ s \o t \in Seq(Tokens) /\ Len(s \o t) = Len(s) + Len(t)
      /\ \A n \in 1 .. Len(s) + Len(t) : (s \o t)[n] = IF n <= Len(s) THEN s[n] ELSE t[n - Len(s)]
  BY <1>1, ConcatProperties
<1>3. /\ \A n \in 1 .. Len(s) : (s \o t)[n] = s[n]
      /\ \A n \in 1 .. Len(t) : (s \o t)[Len(s) + n] = t[n]
  BY <1>1, <1>2
<1> DEFINE both == s \o t
<1>4. both \in Seq(Tokens) /\ Len(both) = Len(s) + Len(t)
      /\ (\A n \in 1 .. Len(s) : both[n] = s[n]) /\ (\A n \in 1 .. Len(t) : both[Len(s) + n] = t[n])
  BY <1>2, <1>3
<1> HIDE DEF both
<1>5. \A n \in 1 .. Len(both) : both[n] \in Tokens
  BY <1>4
<1>6. /\ SubSeq(both, 1, Len(s)) \in Seq(Tokens) /\ Len(SubSeq(both, 1, Len(s))) = Len(s)
      /\ \A n \in 1 .. Len(s) : SubSeq(both, 1, Len(s))[n] = s[n]
  BY <1>1, <1>4, <1>5, SubSeqProperties
<1>7. /\ SubSeq(both, Len(s) + 1, Len(both)) \in Seq(Tokens)
      /\ Len(SubSeq(both, Len(s) + 1, Len(both))) = Len(t)
      /\ \A n \in 1 .. Len(t) : SubSeq(both, Len(s) + 1, Len(both))[n] = t[n]
  BY <1>1, <1>4, <1>5, SubSeqProperties
<1>8. SubSeq(both, 1, Len(s)) = s
  BY <1>1, <1>6, SeqEqual
<1>9. SubSeq(both, Len(s) + 1, Len(both)) = t
  BY <1>1, <1>7, SeqEqual
<1>10. QED  BY <1>1, <1>2, <1>3, <1>8, <1>9 DEF both, Key

LEMMA SnapKeyShape ==
  ASSUME NEW i \in Ids, NEW r \in Key
  PROVE  /\ Root \in Key /\ Manifest \in Key /\ SnapshotDir(i) \in Key /\ SnapKey(i, r) \in Key
         /\ Len(Root) = 2 /\ Len(SnapshotDir(i)) = 4 /\ Len(SnapKey(i, r)) = 4 + Len(r)
         /\ Root[1] = ".snapshots" /\ Root[2] = "/"
         /\ SnapshotDir(i)[1] = ".snapshots" /\ SnapshotDir(i)[2] = "/"
         /\ SnapshotDir(i)[3] = i /\ SnapshotDir(i)[4] = "/"
         /\ \A n \in 1 .. 4 : SnapKey(i, r)[n] = SnapshotDir(i)[n]
         /\ \A n \in 1 .. Len(r) : SnapKey(i, r)[4 + n] = r[n]
<1>1. i \in Tokens /\ "/" \in Tokens /\ ".snapshots" \in Tokens /\ "_manifest.json" \in Tokens
  BY NamespaceAssumption
<1>2. Root \in Key /\ Slash \in Key /\ <<i>> \in Key /\ Manifest \in Key
      /\ Len(Root) = 2 /\ Len(Slash) = 1 /\ Len(<<i>>) = 1
  BY <1>1 DEF Root, Slash, Manifest, Key
<1>3. /\ Root[1] = ".snapshots" /\ Root[2] = "/" /\ Slash[1] = "/"
  BY DEF Root, Slash
<1>4. <<i>>[1] = i
  OBVIOUS
<1>5. /\ Root \o <<i>> \in Key /\ Len(Root \o <<i>>) = 3
      /\ (Root \o <<i>>)[1] = Root[1] /\ (Root \o <<i>>)[2] = Root[2] /\ (Root \o <<i>>)[3] = i
  <2>1. /\ Root \o <<i>> \in Key /\ Len(Root \o <<i>>) = Len(Root) + Len(<<i>>)
        /\ \A n \in 1 .. Len(Root) : (Root \o <<i>>)[n] = Root[n]
        /\ \A n \in 1 .. Len(<<i>>) : (Root \o <<i>>)[Len(Root) + n] = <<i>>[n]
    BY <1>2, Joined
  <2> HIDE DEF Key
  <2>2. QED  BY <1>2, <1>4, <2>1
<1>6. /\ SnapshotDir(i) \in Key /\ Len(SnapshotDir(i)) = 4
      /\ SnapshotDir(i)[1] = Root[1] /\ SnapshotDir(i)[2] = Root[2]
      /\ SnapshotDir(i)[3] = i /\ SnapshotDir(i)[4] = "/"
  BY <1>2, <1>3, <1>5, ConcatProperties DEF Key, SnapshotDir
<1>7. /\ SnapKey(i, r) \in Key /\ Len(SnapKey(i, r)) = 4 + Len(r)
      /\ \A n \in 1 .. 4 : SnapKey(i, r)[n] = SnapshotDir(i)[n]
      /\ \A n \in 1 .. Len(r) : SnapKey(i, r)[4 + n] = r[n]
  <2>1. /\ SnapshotDir(i) \o r \in Key /\ Len(SnapshotDir(i) \o r) = Len(SnapshotDir(i)) + Len(r)
        /\ \A n \in 1 .. Len(SnapshotDir(i)) : (SnapshotDir(i) \o r)[n] = SnapshotDir(i)[n]
        /\ \A n \in 1 .. Len(r) : (SnapshotDir(i) \o r)[Len(SnapshotDir(i)) + n] = r[n]
    BY <1>6, Joined
  <2>2. QED  BY <1>6, <2>1 DEF SnapKey
<1>8. QED  BY <1>2, <1>3, <1>6, <1>7

\* A copy's key says of which snapshot it is and of what.
LEMMA SnapKeyInjective ==
  ASSUME NEW i \in Ids, NEW j \in Ids, NEW r \in Key, NEW q \in Key
  PROVE  /\ SnapKey(i, r) = SnapKey(j, q) => i = j /\ r = q
         /\ IsPrefix(SnapshotDir(i), SnapKey(j, q)) <=> i = j
         /\ IsPrefix(Root, SnapKey(i, r))
         /\ SnapKey(i, r) # Manifest
<1>1. /\ SnapKey(i, r) \in Key /\ Len(SnapKey(i, r)) = 4 + Len(r) /\ Len(r) \in Nat
      /\ \A n \in 1 .. 4 : SnapKey(i, r)[n] = SnapshotDir(i)[n]
      /\ \A n \in 1 .. Len(r) : SnapKey(i, r)[4 + n] = r[n]
  BY SnapKeyShape, LenProperties DEF Key
<1>2. /\ SnapKey(j, q) \in Key /\ Len(SnapKey(j, q)) = 4 + Len(q) /\ Len(q) \in Nat
      /\ \A n \in 1 .. 4 : SnapKey(j, q)[n] = SnapshotDir(j)[n]
      /\ \A n \in 1 .. Len(q) : SnapKey(j, q)[4 + n] = q[n]
  BY SnapKeyShape, LenProperties DEF Key
<1>3. /\ SnapshotDir(i) \in Key /\ Len(SnapshotDir(i)) = 4
      /\ SnapshotDir(i)[1] = ".snapshots" /\ SnapshotDir(i)[2] = "/"
      /\ SnapshotDir(i)[3] = i /\ SnapshotDir(i)[4] = "/"
      /\ Root \in Key /\ Len(Root) = 2 /\ Root[1] = ".snapshots" /\ Root[2] = "/"
  BY SnapKeyShape
<1>4. /\ SnapshotDir(j)[1] = ".snapshots" /\ SnapshotDir(j)[2] = "/"
      /\ SnapshotDir(j)[3] = j /\ SnapshotDir(j)[4] = "/"
  BY SnapKeyShape
<1>5. ASSUME SnapKey(i, r) = SnapKey(j, q) PROVE i = j /\ r = q
  <2>1. SnapshotDir(i)[3] = SnapshotDir(j)[3]
    BY <1>1, <1>2, <1>5
  <2>2. Len(r) = Len(q)
    BY <1>1, <1>2, <1>5
  <2>3. \A n \in 1 .. Len(r) : r[n] = q[n]
    BY <1>1, <1>2, <1>5, <2>2
  <2>4. r = q
    BY <2>2, <2>3, SeqEqual DEF Key
  <2>5. QED  BY <1>3, <1>4, <2>1, <2>4
<1>6. IsPrefix(SnapshotDir(i), SnapKey(j, q)) <=> i = j
  <2>1. IsPrefix(SnapshotDir(i), SnapKey(j, q)) <=>
          /\ Len(SnapshotDir(i)) <= Len(SnapKey(j, q))
          /\ \A n \in 1 .. Len(SnapshotDir(i)) : SnapshotDir(i)[n] = SnapKey(j, q)[n]
    BY <1>2, <1>3, PrefixByToken
  <2>2. Len(SnapshotDir(i)) <= Len(SnapKey(j, q))
    BY <1>2, <1>3
  <2>3. (\A n \in 1 .. 4 : SnapshotDir(i)[n] = SnapshotDir(j)[n]) <=> i = j
    BY <1>3, <1>4
  <2>4. QED  BY <1>2, <1>3, <2>1, <2>2, <2>3
<1>7. IsPrefix(Root, SnapKey(i, r))
  <2>1. \A n \in 1 .. 2 : Root[n] = SnapKey(i, r)[n]
    BY <1>1, <1>3
  <2>2. Len(Root) <= Len(SnapKey(i, r))
    BY <1>1, <1>3
  <2>3. QED  BY <1>1, <1>3, <2>1, <2>2, PrefixByToken
<1>8. SnapKey(i, r) # Manifest
  <2>1. Len(Manifest) = 1
    BY DEF Manifest
  <2>2. Len(SnapKey(i, r)) # Len(Manifest)
    BY <1>1, <2>1
  <2>3. QED  BY <2>2
<1>9. QED  BY <1>5, <1>6, <1>7, <1>8

\* What create cuts off a copy's key to find its object.
LEMMA CutSnapKey ==
  ASSUME NEW i \in Ids, NEW r \in Key
  PROVE  SubSeq(SnapKey(i, r), Len(SnapshotDir(i)) + 1, Len(SnapKey(i, r))) = r
<1>1. SnapshotDir(i) \in Key
  BY SnapKeyShape
<1>2. QED  BY <1>1, Joined DEF SnapKey

\* A prefix outside .snapshots/ lists no copy.
LEMMA PrefixOutside ==
  ASSUME NEW prefix \in Key, prefix # <<>>, prefix[1] # ".snapshots", NEW i \in Ids, NEW r \in Key
  PROVE  ~IsPrefix(prefix, SnapKey(i, r))
<1>1. Len(prefix) \in Nat /\ Len(prefix) # 0
  BY EmptySeq DEF Key
<1>2. SnapKey(i, r)[1] = ".snapshots" /\ SnapKey(i, r) \in Key
  BY SnapKeyShape
<1>3. QED  BY <1>1, <1>2, PrefixByToken

-----------------------------------------------------------------------------
(* What a place (the bucket, or what a snapshot of it holds) may contain.   *)

\* A copy or the manifest of one of the snapshots in ms.
Made(ms, k) == \E i \in DOMAIN ms : \E r \in DOMAIN ms[i].objects \cup {Manifest} : k = SnapKey(i, r)

\* Nothing is there but clients' objects and copies; a copy is what its manifest says;
\* and where a manifest is, all its copies are.
Known(site, ms) == \A k \in DOMAIN site : k \in ClientSet \/ Made(ms, k)
CopiesMatch(site, ms) ==
  \A i \in DOMAIN ms : \A r \in DOMAIN ms[i].objects :
    SnapKey(i, r) \in DOMAIN site => site[SnapKey(i, r)] = ms[i].objects[r]
AllThere(site, ms) ==
  \A i \in DOMAIN ms : SnapKey(i, Manifest) \in DOMAIN site =>
    \A r \in DOMAIN ms[i].objects : SnapKey(i, r) \in DOMAIN site
Sound(site, ms) == Known(site, ms) /\ CopiesMatch(site, ms) /\ AllThere(site, ms)

ManifestsTyped(ms) ==
  /\ DOMAIN ms \subseteq Ids
  /\ \A i \in DOMAIN ms : DOMAIN ms[i].objects \subseteq Key \ {Manifest}

LEMMA ClientsAreSound ==
  ASSUME KeysFit, NEW ms, ManifestsTyped(ms), NEW site, DOMAIN site \subseteq ClientSet
  PROVE  Sound(site, ms)
<1>1. ASSUME NEW i \in DOMAIN ms, NEW r \in Key PROVE SnapKey(i, r) \notin DOMAIN site
  <2>1. IsPrefix(Root, SnapKey(i, r))
    BY SnapKeyInjective DEF ManifestsTyped
  <2>2. QED  BY <2>1 DEF KeysFit
<1>2. Manifest \in Key
  BY ManifestIsKey
<1>3. QED  BY <1>1, <1>2 DEF Sound, Known, CopiesMatch, AllThere, ManifestsTyped

LEMMA OverIsSound ==
  ASSUME NEW ms, NEW new, Sound(new, ms), NEW old, Sound(old, ms)
  PROVE  Sound(Over(new, old), ms)
<1>1. /\ DOMAIN Over(new, old) = DOMAIN new \cup DOMAIN old
      /\ \A k \in DOMAIN new : Over(new, old)[k] = new[k]
      /\ \A k \in DOMAIN old \ DOMAIN new : Over(new, old)[k] = old[k]
  BY DEF Over
<1>2. Known(Over(new, old), ms)
  BY <1>1 DEF Sound, Known
<1>3. CopiesMatch(Over(new, old), ms)
  BY <1>1 DEF Sound, CopiesMatch
<1>4. AllThere(Over(new, old), ms)
  BY <1>1 DEF Sound, AllThere
<1>5. QED  BY <1>2, <1>3, <1>4 DEF Sound

\* A place in which there is nothing of i yet stays sound when i gets its manifest.
LEMMA MoreManifests ==
  ASSUME NEW ms, NEW i \in Ids \ DOMAIN ms, ManifestsTyped(ms), NEW m,
         DOMAIN m.objects \subseteq Key \ {Manifest}, KeysFit, NEW site, Sound(site, ms)
  PROVE  Sound(site, Over(Only(i, m), ms))
<1> DEFINE more == Over(Only(i, m), ms)
<1>1. /\ DOMAIN more = DOMAIN ms \cup {i}
      /\ \A j \in DOMAIN ms : more[j] = ms[j]
      /\ more[i] = m
  BY DEF Over, Only
<1> HIDE DEF more
<1>2. Manifest \in Key
  BY ManifestIsKey
<1>3. ASSUME NEW r \in Key PROVE SnapKey(i, r) \notin DOMAIN site
  <2>1. SUFFICES ASSUME SnapKey(i, r) \in DOMAIN site PROVE FALSE
    OBVIOUS
  <2>2. IsPrefix(Root, SnapKey(i, r))
    BY SnapKeyInjective
  <2>3. SnapKey(i, r) \notin ClientSet
    BY <2>2 DEF KeysFit
  <2>4. Made(ms, SnapKey(i, r))
    BY <2>1, <2>3 DEF Sound, Known
  <2>5. PICK j \in DOMAIN ms, q \in Key : SnapKey(i, r) = SnapKey(j, q)
    BY <1>2, <2>4 DEF Made, ManifestsTyped
  <2>6. i = j
    BY <2>5, SnapKeyInjective DEF ManifestsTyped
  <2>7. QED  BY <2>6
<1>4. Known(site, more)
  BY <1>1 DEF Sound, Known, Made
<1>5. CopiesMatch(site, more) /\ AllThere(site, more)
  BY <1>1, <1>2, <1>3 DEF Sound, CopiesMatch, AllThere
<1>6. QED  BY <1>4, <1>5 DEF Sound, more

\* Taking clients' objects away, or all there is below one snapshot's directory.
LEMMA HoldingIsSound ==
  ASSUME NEW ms, ManifestsTyped(ms), NEW site, Sound(site, ms), NEW keys, keys \subseteq DOMAIN site,
         \A i \in DOMAIN ms : SnapKey(i, Manifest) \in keys =>
           \A r \in DOMAIN ms[i].objects : SnapKey(i, r) \in DOMAIN site => SnapKey(i, r) \in keys
  PROVE  Sound([k \in keys |-> site[k]], ms)
<1> DEFINE less == [k \in keys |-> site[k]]
<1>1. DOMAIN less = keys /\ \A k \in keys : less[k] = site[k]
  OBVIOUS
<1> HIDE DEF less
<1>2. Known(less, ms) /\ CopiesMatch(less, ms) /\ AllThere(less, ms)
  BY <1>1 DEF Sound, Known, CopiesMatch, AllThere
<1>3. QED  BY <1>2 DEF Sound, less

-----------------------------------------------------------------------------
(* The invariant.                                                          *)

\* A manifest and what create found: through the prefix there and back, object for
\* object; of the whole bucket, a place as sound as the bucket was.
OfListing(m, found, ms) ==
  LET prefix == m.source_prefix
      Cut(k) == RelativeKey(prefix, k)
  IN /\ prefix \in SourcePrefixes
     /\ \A k \in DOMAIN found : /\ LiveKey(prefix, Cut(k)) = k
                                /\ Cut(k) \in DOMAIN m.objects /\ m.objects[Cut(k)] = found[k]
     /\ \A r \in DOMAIN m.objects : \E k \in DOMAIN found : r = Cut(k)
     /\ DOMAIN found \subseteq Key
     /\ Sound(found, ms)

NamespaceInvariant ==
  /\ ManifestsTyped(manifests) /\ DOMAIN captured = DOMAIN manifests
  /\ DOMAIN bucket \subseteq Key
  /\ Sound(bucket, manifests)
  /\ \A i \in DOMAIN manifests : OfListing(manifests[i], captured[i], manifests)

\* A prefix finds clients' keys only, and cutting it off and putting it back gives the
\* key; the empty one finds everything and cuts nothing.
LEMMA FoundFits ==
  ASSUME KeysFit, NamespaceInvariant, NEW prefix \in SourcePrefixes, NEW k \in Under(prefix)
  PROVE  /\ k \in DOMAIN bucket /\ k \in Key
         /\ LiveKey(prefix, RelativeKey(prefix, k)) = k
         /\ RelativeKey(prefix, k) # Manifest
         /\ prefix # <<>> => k \in ClientSet
<1>1. k \in DOMAIN bucket /\ k \in Key /\ IsPrefix(prefix, k)
  BY DEF Under, NamespaceInvariant
<1>2. k \in ClientSet \/ Made(manifests, k)
  BY <1>1 DEF NamespaceInvariant, Sound, Known
<1>3. CASE k \in ClientSet
  BY <1>1, <1>3 DEF KeysFit
<1>4. CASE Made(manifests, k)
  <2>1. PICK i \in Ids, r \in Key : k = SnapKey(i, r)
    BY <1>4, ManifestIsKey DEF Made, NamespaceInvariant, ManifestsTyped
  <2>2. prefix = <<>>
    BY <1>1, <2>1, PrefixOutside, NamespaceAssumption DEF KeysFit, Key
  <2>3. RelativeKey(prefix, k) = k /\ LiveKey(prefix, k) = k
    BY <2>2 DEF RelativeKey, LiveKey
  <2>4. k # Manifest
    BY <2>1, SnapKeyInjective
  <2>5. QED  BY <1>1, <2>2, <2>3, <2>4
<1>5. QED  BY <1>2, <1>3, <1>4

\* No two of the keys found are copied to one: each is its own source.
LEMMA CopiedFromItself ==
  ASSUME KeysFit, NamespaceInvariant, NEW prefix \in SourcePrefixes, NEW k \in Under(prefix)
  PROVE  CopiedTo(Under(prefix), prefix, RelativeKey(prefix, k)) = k
<1> DEFINE sources == {j \in Under(prefix) : RelativeKey(prefix, j) = RelativeKey(prefix, k)}
<1>1. sources = {k}
  BY FoundFits
<1>2. Cardinality(sources) = 1
  BY <1>1, FS_Singleton
<1>3. (CHOOSE j \in sources : TRUE) = k
  BY <1>1
<1>4. QED  BY <1>2, <1>3 DEF CopiedTo

\* Everything a whole bucket has is found by the empty prefix.
LEMMA EmptyFindsAll ==
  ASSUME NamespaceInvariant
  PROVE  Under(<<>>) = DOMAIN bucket
<1>1. <<>> \in Key /\ Len(<<>>) = 0
  BY EmptySeq DEF Key
<1>2. \A k \in Key : IsPrefix(<<>>, k)
  <2>1. SUFFICES ASSUME NEW k \in Key PROVE IsPrefix(<<>>, k)
    OBVIOUS
  <2>2. Len(k) \in Nat
    BY DEF Key
  <2>3. QED  BY <1>1, <2>2, PrefixByToken
<1>3. QED  BY <1>2 DEF Under, NamespaceInvariant

\* What create finds is a sound place by itself.
LEMMA FoundIsSound ==
  ASSUME KeysFit, NamespaceInvariant, NEW prefix \in SourcePrefixes
  PROVE  Sound(Holding(Under(prefix)), manifests)
<1>1. CASE prefix = <<>>
  <2>1. Under(prefix) = DOMAIN bucket
    BY <1>1, EmptyFindsAll
  <2>2. QED  BY <2>1, HoldingIsSound DEF Holding, NamespaceInvariant
<1>2. CASE prefix # <<>>
  <2>1. DOMAIN Holding(Under(prefix)) \subseteq ClientSet
    BY <1>2, FoundFits DEF Holding
  <2>2. QED  BY <2>1, ClientsAreSound DEF NamespaceInvariant
<1>3. QED  BY <1>1, <1>2

-----------------------------------------------------------------------------
(* The calls.                                                              *)

LEMMA CreateKeeps ==
  ASSUME KeysFit, NamespaceInvariant, NEW i \in Ids, NEW prefix \in SourcePrefixes, Create(i, prefix)
  PROVE  NamespaceInvariant'
<1> DEFINE listed  == Under(prefix)
           objects == [r \in {RelativeKey(prefix, k) : k \in listed} |->
                         bucket[CopiedTo(listed, prefix, r)]]
           copies  == [c \in {SnapKey(i, r) : r \in DOMAIN objects} |->
                         objects[SubSeq(c, Len(SnapshotDir(i)) + 1, Len(c))]]
           m       == [source_prefix |-> prefix, objects |-> objects]
           more    == Over(Only(i, m), manifests)
           found   == Holding(listed)
           own     == Over(Only(SnapKey(i, Manifest), <<"manifest", i>>), copies)
<1>1. /\ i \notin DOMAIN manifests
      /\ bucket' = Over(own, bucket) /\ manifests' = more
      /\ captured' = Over(Only(i, found), captured)
  BY DEF Create
<1>2. /\ DOMAIN more = DOMAIN manifests \cup {i}
      /\ \A j \in DOMAIN manifests : more[j] = manifests[j]
      /\ more[i] = m
  BY <1>1 DEF Over, Only
<1>3. /\ DOMAIN captured' = DOMAIN manifests \cup {i}
      /\ \A j \in DOMAIN manifests : captured'[j] = captured[j]
      /\ captured'[i] = found
  BY <1>1 DEF Over, Only, NamespaceInvariant
<1>4. /\ DOMAIN objects \subseteq Key \ {Manifest}
      /\ \A k \in listed : /\ LiveKey(prefix, RelativeKey(prefix, k)) = k
                           /\ RelativeKey(prefix, k) \in DOMAIN objects
                           /\ objects[RelativeKey(prefix, k)] = bucket[k]
      /\ \A r \in DOMAIN objects : \E k \in listed : r = RelativeKey(prefix, k)
  <2>1. \A k \in listed : /\ LiveKey(prefix, RelativeKey(prefix, k)) = k
                           /\ RelativeKey(prefix, k) \in Key \ {Manifest}
    <3>1. prefix \in Key
      BY NamespaceAssumption DEF Key
    <3>2. \A k \in listed : k \in Key /\ IsPrefix(prefix, k)
      BY FoundFits DEF Under
    <3>3. QED  BY <3>1, <3>2, FoundFits, RelativeIsKey
  <2>2. \A k \in listed : CopiedTo(listed, prefix, RelativeKey(prefix, k)) = k
    BY CopiedFromItself
  <2>3. QED  BY <2>1, <2>2
<1> HIDE DEF objects
<1>5. m.objects = objects /\ m.source_prefix = prefix
  OBVIOUS
<1>6. /\ DOMAIN copies = {SnapKey(i, r) : r \in DOMAIN objects}
      /\ \A r \in DOMAIN objects : copies[SnapKey(i, r)] = objects[r]
  BY <1>4, CutSnapKey
<1> HIDE DEF copies, m
<1>7. /\ DOMAIN own = DOMAIN copies \cup {SnapKey(i, Manifest)}
      /\ \A r \in DOMAIN objects : own[SnapKey(i, r)] = objects[r]
  <2>1. \A r \in DOMAIN objects : SnapKey(i, r) # SnapKey(i, Manifest)
    BY <1>4, SnapKeyInjective, ManifestIsKey
  <2>2. QED  BY <1>6, <2>1 DEF Over, Only
<1> HIDE DEF own, more
<1>8. ManifestsTyped(more)
  BY <1>2, <1>4, <1>5 DEF NamespaceInvariant, ManifestsTyped
<1>9. \A site : Sound(site, manifests) => Sound(site, more)
  BY <1>1, <1>4, <1>5, MoreManifests DEF more, NamespaceInvariant
\* What the call has written: copies and manifest of i, and nothing of another.
<1>10. Sound(own, more)
  <2>1. Known(own, more)
    BY <1>2, <1>5, <1>6, <1>7 DEF Known, Made
  <2>2. ASSUME NEW j \in DOMAIN more, NEW r \in Key, SnapKey(j, r) \in DOMAIN own PROVE j = i
    <3>1. PICK q \in Key : SnapKey(j, r) = SnapKey(i, q)
      BY <1>4, <1>6, <1>7, <2>2, ManifestIsKey
    <3>2. QED  BY <1>8, <3>1, SnapKeyInjective DEF ManifestsTyped
  <2>3. CopiesMatch(own, more)
    BY <1>2, <1>5, <1>7, <1>8, <2>2 DEF CopiesMatch, ManifestsTyped
  <2>4. AllThere(own, more)
    BY <1>2, <1>5, <1>6, <1>7, <2>2, ManifestIsKey DEF AllThere
  <2>5. QED  BY <2>1, <2>3, <2>4 DEF Sound
<1>11. Sound(bucket', manifests')
  BY <1>1, <1>9, <1>10, OverIsSound DEF NamespaceInvariant
<1>12. DOMAIN bucket' \subseteq Key
  <2>1. DOMAIN own \subseteq Key
    BY <1>4, <1>6, <1>7, SnapKeyShape, ManifestIsKey
  <2>2. QED  BY <1>1, <2>1 DEF Over, NamespaceInvariant
<1>13. OfListing(more[i], captured'[i], more)
  <2>1. Sound(found, more)
    BY <1>9, FoundIsSound
  <2>2. DOMAIN found = listed /\ (\A k \in listed : found[k] = bucket[k]) /\ listed \subseteq Key
    BY FoundFits DEF Holding
  <2>3. QED  BY <1>2, <1>3, <1>4, <1>5, <2>1, <2>2 DEF OfListing
<1>14. \A j \in DOMAIN manifests : OfListing(more[j], captured'[j], more)
  BY <1>2, <1>3, <1>9 DEF OfListing, NamespaceInvariant
<1>15. QED
  BY <1>1, <1>2, <1>3, <1>8, <1>11, <1>12, <1>13, <1>14 DEF NamespaceInvariant

\* A call that leaves the manifests, and keeps the bucket sound.
LEMMA OnlyBucketChanges ==
  ASSUME NamespaceInvariant, UNCHANGED <<manifests, captured>>,
         DOMAIN bucket' \subseteq Key, Sound(bucket', manifests)
  PROVE  NamespaceInvariant'
  BY DEF NamespaceInvariant

LEMMA ClientPutKeeps ==
  ASSUME KeysFit, NamespaceInvariant, NEW k \in ClientSet, NEW n, ClientPut(k, n)
  PROVE  NamespaceInvariant'
<1> DEFINE new == Only(k, <<"data", n>>)
<1>1. bucket' = Over(new, bucket) /\ UNCHANGED <<manifests, captured>>
  BY DEF ClientPut
<1>2. DOMAIN new = {k}
  BY DEF Only
<1>3. k \in Key
  BY NamespaceAssumption DEF ClientSet, Key
<1>4. Sound(bucket', manifests)
  BY <1>1, <1>2, ClientsAreSound, OverIsSound DEF NamespaceInvariant
<1>5. DOMAIN bucket' \subseteq Key
  BY <1>1, <1>2, <1>3 DEF Over, NamespaceInvariant
<1>6. QED  BY <1>1, <1>4, <1>5, OnlyBucketChanges

LEMMA ClientDeleteKeeps ==
  ASSUME KeysFit, NamespaceInvariant, NEW k \in ClientSet, ClientDelete(k)
  PROVE  NamespaceInvariant'
<1> DEFINE keys == DOMAIN bucket \ {k}
<1>1. bucket' = [j \in keys |-> bucket[j]] /\ UNCHANGED <<manifests, captured>>
  BY DEF ClientDelete, Holding
<1>2. ASSUME NEW i \in DOMAIN manifests, NEW r \in Key PROVE SnapKey(i, r) # k
  BY SnapKeyInjective DEF KeysFit, NamespaceInvariant, ManifestsTyped
<1>3. Sound(bucket', manifests)
  BY <1>1, <1>2, HoldingIsSound DEF NamespaceInvariant, ManifestsTyped
<1>4. QED  BY <1>1, <1>3, OnlyBucketChanges DEF NamespaceInvariant

LEMMA DeleteKeeps ==
  ASSUME KeysFit, NamespaceInvariant, NEW i \in Ids, Delete(i)
  PROVE  NamespaceInvariant'
<1> DEFINE keys == DOMAIN bucket \ Doomed(i)
<1>1. bucket' = [j \in keys |-> bucket[j]] /\ UNCHANGED <<manifests, captured>>
  BY DEF Delete, Holding
<1>2. ASSUME NEW j \in DOMAIN manifests, NEW r \in Key, SnapKey(j, r) \in DOMAIN bucket
      PROVE  SnapKey(j, r) \in Doomed(i) <=> j = i
  BY <1>2, SnapKeyInjective DEF Doomed, Under, NamespaceInvariant, ManifestsTyped
<1>3. ASSUME NEW j \in DOMAIN manifests, SnapKey(j, Manifest) \in keys,
             NEW r \in DOMAIN manifests[j].objects, SnapKey(j, r) \in DOMAIN bucket
      PROVE  SnapKey(j, r) \in keys
  BY <1>2, <1>3, ManifestIsKey DEF NamespaceInvariant, ManifestsTyped
<1>4. Sound(bucket', manifests)
  <2> HIDE DEF keys
  <2>1. keys \subseteq DOMAIN bucket
    BY DEF keys
  <2>2. QED  BY <1>1, <1>3, <2>1, HoldingIsSound DEF NamespaceInvariant
<1>5. QED  BY <1>1, <1>4, OnlyBucketChanges DEF NamespaceInvariant

\* A snapshot that get() finds is there in full, and is one create has made.
LEMMA GettableIsThere ==
  ASSUME KeysFit, NamespaceInvariant, NEW i \in Ids, Gettable(i)
  PROVE  /\ i \in DOMAIN manifests
         /\ \A r \in DOMAIN manifests[i].objects :
              /\ SnapKey(i, r) \in DOMAIN bucket
              /\ bucket[SnapKey(i, r)] = manifests[i].objects[r]
<1>1. SnapKey(i, Manifest) \in DOMAIN bucket
  BY DEF Gettable
<1>2. SnapKey(i, Manifest) \notin ClientSet
  BY SnapKeyInjective, ManifestIsKey DEF KeysFit
<1>3. PICK j \in Ids \cap DOMAIN manifests, r \in Key : SnapKey(i, Manifest) = SnapKey(j, r)
  BY <1>1, <1>2, ManifestIsKey DEF NamespaceInvariant, Sound, Known, Made, ManifestsTyped
<1>4. i \in DOMAIN manifests
  BY <1>3, SnapKeyInjective, ManifestIsKey
<1>5. QED  BY <1>1, <1>4 DEF NamespaceInvariant, Sound, AllThere, CopiesMatch

\* restore puts back exactly what create found.
LEMMA RestoreGivesFound ==
  ASSUME KeysFit, NamespaceInvariant, NEW i \in Ids, Restore(i)
  PROVE  /\ i \in DOMAIN manifests /\ last'.id = i
         /\ DOMAIN bucket' = DOMAIN captured[i] \cup DOMAIN bucket
         /\ \A k \in DOMAIN captured[i] : bucket'[k] = captured[i][k]
         /\ bucket' = Over([k \in DOMAIN captured[i] |-> captured[i][k]], bucket)
<1> DEFINE m == manifests[i]
           prefix == m.source_prefix
           present == {r \in DOMAIN m.objects : SnapKey(i, r) \in DOMAIN bucket}
           Source(k) == CHOOSE r \in present : LiveKey(prefix, r) = k
           back == [k \in {LiveKey(prefix, r) : r \in present} |-> bucket[SnapKey(i, Source(k))]]
<1>1. bucket' = Over(back, bucket) /\ last'.id = i /\ Gettable(i)
  BY DEF Restore
<1>2. /\ i \in DOMAIN manifests /\ present = DOMAIN m.objects
      /\ \A r \in present : bucket[SnapKey(i, r)] = m.objects[r]
  BY <1>1, GettableIsThere
<1>3. /\ \A k \in DOMAIN captured[i] : /\ LiveKey(prefix, RelativeKey(prefix, k)) = k
                                       /\ RelativeKey(prefix, k) \in present
                                       /\ m.objects[RelativeKey(prefix, k)] = captured[i][k]
      /\ \A r \in present : \E k \in DOMAIN captured[i] : r = RelativeKey(prefix, k)
  BY <1>2 DEF NamespaceInvariant, OfListing
<1> HIDE DEF present, prefix, m
<1>4. {LiveKey(prefix, r) : r \in present} = DOMAIN captured[i]
  BY <1>3
<1>5. ASSUME NEW k \in DOMAIN captured[i] PROVE bucket[SnapKey(i, Source(k))] = captured[i][k]
  <2>1. RelativeKey(prefix, k) \in present /\ LiveKey(prefix, RelativeKey(prefix, k)) = k
    BY <1>3
  <2>2. Source(k) \in present /\ LiveKey(prefix, Source(k)) = k
    BY <2>1
  <2> HIDE DEF Source
  <2>3. Source(k) = RelativeKey(prefix, k)
    BY <1>3, <2>2
  <2>4. QED  BY <1>2, <1>3, <2>1, <2>3
<1>6. back = [k \in DOMAIN captured[i] |-> captured[i][k]]
  BY <1>4, <1>5
<1> HIDE DEF back
<1>7. QED  BY <1>1, <1>2, <1>6 DEF Over

LEMMA RestoreKeeps ==
  ASSUME KeysFit, NamespaceInvariant, NEW i \in Ids, Restore(i)
  PROVE  NamespaceInvariant'
<1> DEFINE found == [k \in DOMAIN captured[i] |-> captured[i][k]]
<1>1. i \in DOMAIN manifests /\ bucket' = Over(found, bucket)
  BY RestoreGivesFound
<1>2. DOMAIN captured[i] \subseteq Key /\ Sound(captured[i], manifests)
  BY <1>1 DEF NamespaceInvariant, OfListing
<1>3. Sound(found, manifests)
  BY <1>2, HoldingIsSound DEF NamespaceInvariant
<1>4. Sound(bucket', manifests)
  BY <1>1, <1>3, OverIsSound DEF NamespaceInvariant
<1>5. DOMAIN bucket' \subseteq Key
  BY <1>1, <1>2, RestoreGivesFound DEF NamespaceInvariant
<1>6. UNCHANGED <<manifests, captured>>
  BY DEF Restore
<1>7. QED  BY <1>4, <1>5, <1>6, OnlyBucketChanges

-----------------------------------------------------------------------------
LEMMA NamespaceBegins == Init => NamespaceInvariant
  BY DEF Init, NoObjects, NamespaceInvariant, ManifestsTyped, Sound, Known, CopiesMatch, AllThere

LEMMA NamespacePreserved ==
  ASSUME KeysFit, NamespaceInvariant, [Next]_vars
  PROVE  NamespaceInvariant'
<1>1. ASSUME NEW n \in DOMAIN ClientKeys, ClientDelete(ClientKeys[n]) PROVE NamespaceInvariant'
  BY <1>1, ClientDeleteKeeps DEF ClientSet
<1>2. ASSUME NEW n \in DOMAIN ClientKeys, NEW b \in 1 .. MaxBody, ClientPut(ClientKeys[n], b)
      PROVE  NamespaceInvariant'
  BY <1>2, ClientPutKeeps DEF ClientSet
<1>3. ASSUME NEW i \in Ids, Restore(i) PROVE NamespaceInvariant'
  BY <1>3, RestoreKeeps
<1>4. ASSUME NEW i \in Ids, Delete(i) PROVE NamespaceInvariant'
  BY <1>4, DeleteKeeps
<1>5. ASSUME NEW i \in Ids, NEW prefix \in SourcePrefixes, Create(i, prefix) PROVE NamespaceInvariant'
  BY <1>5, CreateKeeps
<1>6. CASE UNCHANGED vars
  BY <1>6 DEF vars, NamespaceInvariant
<1>7. QED  BY <1>1, <1>2, <1>3, <1>4, <1>5, <1>6 DEF Next

LEMMA NamespaceHolds ==
  ASSUME KeysFit
  PROVE  Spec => []NamespaceInvariant
<1>1. NamespaceInvariant /\ [Next]_vars => NamespaceInvariant'
  BY KeysFit, NamespacePreserved
<1>2. QED  BY <1>1, NamespaceBegins, PTL DEF Spec

\* Whatever get() finds can be restored in full: also a snapshot inside another, and a
\* deleted one that a restore of the other brought back.
THEOREM GettableIsAlwaysWhole ==
  ASSUME KeysFit
  PROVE  Spec => []GettableIsWhole
<1>1. NamespaceInvariant => GettableIsWhole
  BY GettableIsThere, KeysFit DEF NamespaceInvariant, ManifestsTyped, GettableIsWhole
<1>2. QED  BY <1>1, NamespaceHolds, PTL

\* A restore brings back every object create found, under its own key and with its
\* own content, for any nesting of snapshots and directories.
THEOREM RestoreAlwaysBringsBack ==
  ASSUME KeysFit
  PROVE  Spec => []RestoreBringsBack
<1>1. Init => RestoreBringsBack
  BY DEF Init, NoReport, RestoreBringsBack, Passed
<1>2. ASSUME NamespaceInvariant, RestoreBringsBack, [Next]_vars PROVE RestoreBringsBack'
  <2>1. ASSUME NEW i \in Ids, Restore(i) PROVE RestoreBringsBack'
    <3>1. captured' = captured
      BY <2>1 DEF Restore
    <3>2. QED  BY <2>1, <3>1, KeysFit, <1>2, RestoreGivesFound DEF RestoreBringsBack
  <2>2. CASE \/ \E n \in DOMAIN ClientKeys : \/ ClientDelete(ClientKeys[n])
                                             \/ \E b \in 1 .. MaxBody : ClientPut(ClientKeys[n], b)
             \/ \E i \in Ids : Delete(i) \/ \E prefix \in SourcePrefixes : Create(i, prefix)
    <3>1. last' = NoReport
      BY <2>2 DEF ClientDelete, ClientPut, Delete, Create
    <3>2. QED  BY <3>1 DEF NoReport, RestoreBringsBack, Passed
  <2>3. CASE UNCHANGED vars
    BY <1>2, <2>3 DEF vars, RestoreBringsBack, Passed
  <2>4. QED  BY <1>2, <2>1, <2>2, <2>3 DEF Next
<1>3. QED  BY <1>1, <1>2, NamespaceHolds, PTL DEF Spec

-----------------------------------------------------------------------------
(* Which prefixes fit.                                                     *)

\* Whatever number has the property lstrip stops at is the number it cuts off.
LEMMA StripsLeading ==
  ASSUME NEW s \in Key, NEW n \in 0 .. Len(s), \A m \in 1 .. n : s[m] = "/",
         n < Len(s) => s[n + 1] # "/"
  PROVE  WithoutLeadingSlashes(s) = SubSeq(s, n + 1, Len(s))
<1> DEFINE IsCount(c) == (\A m \in 1 .. c : s[m] = "/") /\ (c < Len(s) => s[c + 1] # "/")
           slashes == CHOOSE c \in 0 .. Len(s) : IsCount(c)
<1>1. Len(s) \in Nat
  BY DEF Key
<1>2. ASSUME NEW c \in 0 .. Len(s), NEW d \in 0 .. Len(s), IsCount(c), IsCount(d) PROVE ~(c < d)
  <2>1. SUFFICES ASSUME c < d PROVE FALSE
    OBVIOUS
  <2>2. c + 1 \in 1 .. d /\ c < Len(s)
    BY <1>1, <2>1
  <2>3. QED  BY <1>2, <2>2
<1>3. IsCount(n)
  OBVIOUS
<1>4. slashes \in 0 .. Len(s) /\ IsCount(slashes)
  <2> HIDE DEF IsCount
  <2> QED  BY <1>3
<1>5. ~(slashes < n) /\ ~(n < slashes)
  BY <1>2, <1>3, <1>4
<1>6. WithoutLeadingSlashes(s) = SubSeq(s, slashes + 1, Len(s))
  BY DEF WithoutLeadingSlashes
<1> HIDE DEF slashes, IsCount
<1>7. slashes = n
  BY <1>1, <1>4, <1>5
<1>8. QED  BY <1>6, <1>7

LEMMA StripsTrailing ==
  ASSUME NEW s \in Key, NEW n \in 0 .. Len(s), \A m \in n + 1 .. Len(s) : s[m] = "/",
         n > 0 => s[n] # "/"
  PROVE  WithoutTrailingSlashes(s) = SubSeq(s, 1, n)
<1> DEFINE IsRest(c) == (\A m \in c + 1 .. Len(s) : s[m] = "/") /\ (c > 0 => s[c] # "/")
           rest == CHOOSE c \in 0 .. Len(s) : IsRest(c)
<1>1. Len(s) \in Nat
  BY DEF Key
<1>2. ASSUME NEW c \in 0 .. Len(s), NEW d \in 0 .. Len(s), IsRest(c), IsRest(d) PROVE ~(c < d)
  <2>1. SUFFICES ASSUME c < d PROVE FALSE
    OBVIOUS
  <2>2. d \in c + 1 .. Len(s) /\ d > 0
    BY <1>1, <2>1
  <2>3. QED  BY <1>2, <2>2
<1>3. IsRest(n)
  OBVIOUS
<1>4. rest \in 0 .. Len(s) /\ IsRest(rest)
  <2> HIDE DEF IsRest
  <2> QED  BY <1>3
<1>5. ~(rest < n) /\ ~(n < rest)
  BY <1>2, <1>3, <1>4
<1>6. WithoutTrailingSlashes(s) = SubSeq(s, 1, rest)
  BY DEF WithoutTrailingSlashes
<1> HIDE DEF rest, IsRest
<1>7. rest = n
  BY <1>1, <1>4, <1>5
<1>8. QED  BY <1>6, <1>7

\* A prefix that names a directory, with its slash or without, gives every key below it
\* back: cut off by create, put back by restore (service.py, 85 and 123).
THEOREM DirectoriesFit ==
  ASSUME NEW dir \in Key, dir # <<>>, dir[Len(dir)] # "/",
         NEW r \in Key, r # <<>> => r[1] # "/",
         NEW prefix \in {dir, dir \o Slash}
  PROVE  /\ RelativeKey(prefix, dir \o Slash \o r) = r
         /\ LiveKey(prefix, r) = dir \o Slash \o r
<1>1. Slash \in Key /\ Len(Slash) = 1 /\ Slash[1] = "/"
  BY NamespaceAssumption DEF Slash, Key
<1>2. Len(dir) \in Nat \ {0} /\ Len(r) \in Nat /\ (r # <<>> <=> Len(r) > 0)
  <2>1. /\ dir \in Seq(Tokens) /\ r \in Seq(Tokens)
    BY DEF Key
  <2>2. Len(r) \in Nat /\ (r = <<>> => Len(r) = 0)
    BY <2>1, EmptySeq
  <2>3. QED  BY <2>1, <2>2, EmptySeq
<1>3. /\ dir \o Slash \in Key /\ Len(dir \o Slash) = Len(dir) + 1
      /\ \A n \in 1 .. Len(dir) : (dir \o Slash)[n] = dir[n]
      /\ (dir \o Slash)[Len(dir) + 1] = "/"
      /\ SubSeq(dir \o Slash, 1, Len(dir)) = dir
  <2>1. /\ dir \o Slash \in Key /\ Len(dir \o Slash) = Len(dir) + Len(Slash)
        /\ \A n \in 1 .. Len(dir) : (dir \o Slash)[n] = dir[n]
        /\ \A n \in 1 .. Len(Slash) : (dir \o Slash)[Len(dir) + n] = Slash[n]
        /\ SubSeq(dir \o Slash, 1, Len(dir)) = dir
    BY <1>1, Joined
  <2>2. 1 \in 1 .. Len(Slash)
    BY <1>1
  <2>3. QED  BY <1>1, <2>1, <2>2
<1>4. prefix \in Key /\ prefix # <<>>
  <2>1. Len(dir) # 0 /\ Len(dir \o Slash) # 0 /\ Len(<<>>) = 0
    BY <1>2, <1>3
  <2>2. QED  BY <1>3, <2>1
<1>5. WithoutTrailingSlashes(prefix) = dir
  <2>1. CASE prefix = dir
    <3>1. WithoutTrailingSlashes(dir) = SubSeq(dir, 1, Len(dir))
      BY <1>2, StripsTrailing
    <3>2. SubSeq(dir, 1, Len(dir)) = dir
      BY DEF Key
    <3>3. QED  BY <2>1, <3>1, <3>2
  <2>2. CASE prefix = dir \o Slash
    <3>1. /\ Len(dir) \in 0 .. Len(prefix) /\ prefix[Len(dir)] # "/"
          /\ \A m \in Len(dir) + 1 .. Len(prefix) : prefix[m] = "/"
      BY <1>2, <1>3, <2>2
    <3>2. WithoutTrailingSlashes(prefix) = SubSeq(prefix, 1, Len(dir))
      BY <1>4, <3>1, StripsTrailing
    <3>3. QED  BY <1>3, <2>2, <3>2
  <2>3. QED  BY <2>1, <2>2
<1>6. (dir \o Slash) \o r = dir \o (Slash \o r)
  BY <1>1, ConcatAssociative DEF Key
<1>7. /\ Slash \o r \in Key /\ Len(Slash \o r) = 1 + Len(r) /\ (Slash \o r)[1] = "/"
      /\ \A n \in 1 .. Len(r) : (Slash \o r)[1 + n] = r[n]
      /\ SubSeq(Slash \o r, 2, Len(Slash \o r)) = r
  <2>1. /\ Slash \o r \in Key /\ Len(Slash \o r) = Len(Slash) + Len(r)
        /\ \A n \in 1 .. Len(Slash) : (Slash \o r)[n] = Slash[n]
        /\ \A n \in 1 .. Len(r) : (Slash \o r)[Len(Slash) + n] = r[n]
        /\ SubSeq(Slash \o r, Len(Slash) + 1, Len(Slash \o r)) = r
    BY <1>1, Joined
  <2>2. 1 \in 1 .. Len(Slash) /\ Len(Slash) + 1 = 2
    BY <1>1
  <2>3. QED  BY <1>1, <2>1, <2>2
<1>8. WithoutLeadingSlashes(r) = r /\ WithoutLeadingSlashes(Slash \o r) = r
  <2>1. WithoutLeadingSlashes(r) = SubSeq(r, 1, Len(r))
    <3>1. 0 \in 0 .. Len(r) /\ (\A m \in 1 .. 0 : r[m] = "/") /\ (0 < Len(r) => r[0 + 1] # "/")
      BY <1>2
    <3>2. WithoutLeadingSlashes(r) = SubSeq(r, 0 + 1, Len(r))
      BY <3>1, StripsLeading
    <3>3. QED  BY <3>2
  <2>2. SubSeq(r, 1, Len(r)) = r
    BY DEF Key
  <2>3. WithoutLeadingSlashes(Slash \o r) = SubSeq(Slash \o r, 2, Len(Slash \o r))
    <3>1. /\ 1 \in 0 .. Len(Slash \o r) /\ \A m \in 1 .. 1 : (Slash \o r)[m] = "/"
          /\ 1 < Len(Slash \o r) => (Slash \o r)[1 + 1] # "/"
      <4>1. 1 < Len(Slash \o r) => 1 \in 1 .. Len(r)
        BY <1>2, <1>7
      <4>2. QED  BY <1>2, <1>7, <4>1
    <3>2. WithoutLeadingSlashes(Slash \o r) = SubSeq(Slash \o r, 1 + 1, Len(Slash \o r))
      BY <1>7, <3>1, StripsLeading
    <3>3. QED  BY <3>2
  <2>4. QED  BY <1>7, <2>1, <2>2, <2>3
<1>9. RelativeKey(prefix, (dir \o Slash) \o r) = r
  <2>1. CASE prefix = dir
    <3>1. SubSeq(dir \o (Slash \o r), Len(dir) + 1, Len(dir \o (Slash \o r))) = Slash \o r
      BY <1>7, Joined
    <3>2. QED  BY <1>4, <1>6, <1>8, <2>1, <3>1 DEF RelativeKey
  <2>2. CASE prefix = dir \o Slash
    <3>1. SubSeq((dir \o Slash) \o r, Len(dir \o Slash) + 1, Len((dir \o Slash) \o r)) = r
      BY <1>3, Joined
    <3>2. QED  BY <1>4, <1>8, <2>2, <3>1 DEF RelativeKey
  <2>3. QED  BY <2>1, <2>2
<1>10. LiveKey(prefix, r) = (dir \o Slash) \o r
  BY <1>4, <1>5 DEF LiveKey
<1>11. QED  BY <1>9, <1>10

=============================================================================
