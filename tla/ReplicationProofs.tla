--------------------------- MODULE ReplicationProofs ---------------------------
(***************************************************************************)
(* Theorems about ReplicationSync and ReplicationLoop, for every set of    *)
(* keys and threads and every bound.  Those of ReplicationSync assume what *)
(* the worker needs and does not enforce: one caller of sync_once at a     *)
(* time, and clients that never restore earlier content.  Of the loop it   *)
(* is proved, without an assumption, that two loops run only if a stop()   *)
(* gave up on one of them; and of the behaviours in which no two calls of  *)
(* sync_once overlap, that what holds with one caller holds of the loop.   *)
(***************************************************************************)
EXTENDS ReplicationLoop, TLAPS

OneCaller == \A s, t \in Syncers : s = t
FreshContent == ~ContentReuse

-----------------------------------------------------------------------------
LEMMA InitInvariant == Init => SyncInvariant
  BY DEF Init, SyncInvariant, TypeOK, InOrder, AllAccounted, RecordedNotAhead, InHandInOrder, InProgress,
         Object, Absent, PCs, InHand, NothingDone

LEMMA TypePreserved ==
  ASSUME TypeOK, [Next]_vars
  PROVE  TypeOK'
<1> USE DEF TypeOK, Object, Absent, PCs, InHand, NothingDone, Goto, Report, Fault
<1>1. ASSUME NEW k \in Keys, ClientPut(k) PROVE TypeOK'
  BY <1>1 DEF ClientPut, Disturbs, local
<1>2. ASSUME NEW k \in Keys, ClientDelete(k) PROVE TypeOK'
  BY <1>2 DEF ClientDelete, Disturbs, local
<1>3. ASSUME NEW s \in Syncers, BeginSync(s) PROVE TypeOK'
  BY <1>3 DEF BeginSync, store, Listed
<1>4. ASSUME NEW s \in Syncers, ListFails(s) PROVE TypeOK'
  BY <1>4 DEF ListFails, store, history
<1>5. ASSUME NEW s \in Syncers, TakeKey(s) PROVE TypeOK'
  BY <1>5 DEF TakeKey, store, history
<1>6. ASSUME NEW s \in Syncers, HeadObject(s) PROVE TypeOK'
  <2>1. CASE hand' = [hand EXCEPT ![s].sha = primary[hand[s].key].sha] /\ Goto(s, "compare")
    <3>1. /\ UNCHANGED <<store, recorded, todo, outcome, faults, latest, clean, settled>>
          /\ mixed' = [mixed EXCEPT ![s] = FALSE]
      BY <1>6 DEF HeadObject
    <3>2. hand'[s] = [hand[s] EXCEPT !.sha = primary[hand[s].key].sha] /\ hand' \in [Syncers -> InHand]
      BY <2>1
    <3>3. pc' \in [Syncers -> PCs]
      BY <2>1
    <3>4. QED  BY <3>1, <3>2, <3>3 DEF store
  <2>2. CASE UNCHANGED hand /\ Goto(s, "raised")
    BY <1>6, <2>2 DEF HeadObject, store, history
  <2>3. QED  BY <1>6, <2>1, <2>2 DEF HeadObject
<1>7. ASSUME NEW s \in Syncers, HeadFails(s) PROVE TypeOK'
  BY <1>7 DEF HeadFails, store, history
<1>8. ASSUME NEW s \in Syncers, Compare(s) PROVE TypeOK'
  BY <1>8 DEF Compare, store, history
<1>9. ASSUME NEW s \in Syncers, Download(s) PROVE TypeOK'
  <2>1. CASE /\ hand' = [hand EXCEPT ![s].body = primary[hand[s].key].body]
             /\ Goto(s, "put")
             /\ UNCHANGED outcome
    <3>1. UNCHANGED <<store, recorded, todo, outcome, faults, history>>
      BY <1>9, <2>1 DEF Download
    <3>2. hand' \in [Syncers -> InHand]
      BY <2>1
    <3>3. pc' \in [Syncers -> PCs]
      BY <2>1
    <3>4. QED  BY <3>1, <3>2, <3>3 DEF store, history
  <2>2. CASE Report(s, "failed") /\ Goto(s, "next") /\ UNCHANGED hand
    BY <1>9, <2>2 DEF Download, store, history
  <2>3. QED  BY <1>9, <2>1, <2>2 DEF Download
<1>10. ASSUME NEW s \in Syncers, DownloadFails(s) PROVE TypeOK'
  BY <1>10 DEF DownloadFails, store, history
<1>11. ASSUME NEW s \in Syncers, Upload(s) PROVE TypeOK'
  BY <1>11 DEF Upload, Unsettles
<1>12. ASSUME NEW s \in Syncers, UploadFails(s) PROVE TypeOK'
  BY <1>12 DEF UploadFails, PutMayLand, Unsettles
<1>13. ASSUME NEW s \in Syncers, Record(s) PROVE TypeOK'
  BY <1>13 DEF Record, SumToRecord, store, history
<1>14. ASSUME NEW s \in Syncers, TransportFails(s) PROVE TypeOK'
  <2>1. /\ secondary' \in [Keys -> Nat] /\ settled' \subseteq Keys
        /\ UNCHANGED <<latest, clean, mixed>>
    BY <1>14 DEF TransportFails, PutMayLand, Unsettles, history
  <2>2. UNCHANGED <<primary, recorded, todo, hand, outcome>> /\ faults' \in Nat
    BY <1>14 DEF TransportFails
  <2>3. pc' \in [Syncers -> PCs]
    BY <1>14 DEF TransportFails
  <2>4. QED  BY <2>1, <2>2, <2>3
<1>15. ASSUME NEW s \in Syncers, FinishSync(s) PROVE TypeOK'
  BY <1>15 DEF FinishSync, store, history
<1>16. ASSUME NEW s \in Syncers, Collect(s) PROVE TypeOK'
  BY <1>16 DEF Collect, store, history
<1>17. ASSUME NEW s \in Syncers, Crash(s) PROVE TypeOK'
  <2>1. secondary' \in [Keys -> Nat]
    BY <1>17 DEF Crash, PutMayLand
  <2>2. recorded' \in [Keys -> Nat] /\ pc' \in [Syncers -> PCs]
    BY <1>17 DEF Crash
  <2>3. /\ UNCHANGED <<primary, todo, hand, outcome, latest, clean, mixed>>
        /\ settled' = {} /\ faults' \in Nat
    BY <1>17 DEF Crash
  <2>4. QED  BY <2>1, <2>2, <2>3
<1>18. CASE UNCHANGED vars
  BY <1>18 DEF vars, store, local, history
<1>19. QED
  BY <1>1, <1>2, <1>3, <1>4, <1>5, <1>6, <1>7, <1>8, <1>9, <1>10, <1>11, <1>12,
     <1>13, <1>14, <1>15, <1>16, <1>17, <1>18 DEF Next, Client, Begin, Inside

\* An unanswered PUT leaves the secondary where it was or moves it forward.
LEMMA PutMovesForward ==
  ASSUME TypeOK, InOrder, NEW s \in Syncers, pc[s] = "put", PutMayLand(s)
  PROVE  \A k \in Keys : /\ secondary'[k] \in Nat
                         /\ secondary[k] <= secondary'[k] /\ secondary'[k] <= latest[k]
<1>1. hand[s].key \in Keys /\ hand[s].body \in Nat
  BY DEF TypeOK, InHand
<1>2. secondary[hand[s].key] <= hand[s].body /\ hand[s].body <= latest[hand[s].key]
  BY DEF InOrder, InHandInOrder
<1>3. QED  BY <1>1, <1>2 DEF TypeOK, InOrder, PutMayLand

LEMMA OrderPreserved ==
  ASSUME OneCall, OneCall', FreshContent, TypeOK, InOrder, [Next]_vars
  PROVE  InOrder'
<1> USE DEF TypeOK, InOrder, RecordedNotAhead, InHandInOrder, Goto
<1>1. ASSUME NEW k \in Keys, ClientPut(k) PROVE InOrder'
  <2>1. PICK tagged \in Tagging, b \in 1 .. MaxBody :
          /\ b = latest[k] + 1
          /\ primary' = [primary EXCEPT ![k] =
                            [body |-> b, sha |-> IF tagged THEN b ELSE 0]]
          /\ latest' = [latest EXCEPT ![k] = IF b > @ THEN b ELSE @]
    BY <1>1, FreshContent DEF ClientPut, FreshContent
  <2>2. UNCHANGED <<secondary, recorded, local>>
    BY <1>1 DEF ClientPut
  <2>3. QED  BY <2>1, <2>2 DEF local, Object, InHand
<1>2. ASSUME NEW k \in Keys, ClientDelete(k) PROVE InOrder'
  BY <1>2 DEF ClientDelete, local, Absent
<1>3. ASSUME NEW s \in Syncers, BeginSync(s) PROVE InOrder'
  BY <1>3 DEF BeginSync, store
<1>4. ASSUME NEW s \in Syncers, ListFails(s) PROVE InOrder'
  BY <1>4 DEF ListFails, store, history
<1>5. ASSUME NEW s \in Syncers, TakeKey(s) PROVE InOrder'
  BY <1>5, OneCall, OneCall' DEF TakeKey, store, history, OneCall
<1>6. ASSUME NEW s \in Syncers, HeadObject(s) PROVE InOrder'
  <2>1. \A t \in Syncers : t # s => pc'[t] = "idle"
    BY <1>6, OneCall' DEF HeadObject, OneCall
  <2>2. \A k \in Keys : primary[k].sha \in Nat /\ primary[k].sha <= latest[k]
    BY DEF Object
  <2>3. hand[s].key \in Keys /\ UNCHANGED <<store, recorded, latest>>
    BY <1>6 DEF HeadObject, history, InHand
  <2>4. CASE hand' = [hand EXCEPT ![s].sha = primary[hand[s].key].sha] /\ Goto(s, "compare")
    <3>1. hand'[s] = [hand[s] EXCEPT !.sha = primary[hand[s].key].sha] /\ pc'[s] = "compare"
      BY <2>4
    <3>2. hand'[s].key = hand[s].key /\ hand'[s].sha = primary[hand[s].key].sha
      BY <3>1 DEF InHand
    <3>3. QED  BY <2>1, <2>2, <2>3, <3>1, <3>2 DEF store
  <2>5. CASE UNCHANGED hand /\ Goto(s, "raised")
    BY <2>1, <2>3, <2>5 DEF store
  <2>6. QED  BY <1>6, <2>4, <2>5 DEF HeadObject
<1>7. ASSUME NEW s \in Syncers, HeadFails(s) PROVE InOrder'
  BY <1>7 DEF HeadFails, store, history
<1>8. ASSUME NEW s \in Syncers, Compare(s) PROVE InOrder'
  BY <1>8 DEF Compare, store, history
<1>9. ASSUME NEW s \in Syncers, Download(s) PROVE InOrder'
  <2>1. \A t \in Syncers : t # s => pc'[t] = "idle"
    BY <1>9, OneCall' DEF Download, OneCall
  <2>2. /\ pc[s] = "get" /\ hand[s].key \in Keys /\ hand[s].sha <= latest[hand[s].key]
        /\ UNCHANGED <<store, recorded, latest>>
    BY <1>9 DEF Download, InHand, history
  <2>3. CASE /\ Exists(hand[s].key) /\ Goto(s, "put")
             /\ hand' = [hand EXCEPT ![s].body = primary[hand[s].key].body]
    <3>1. hand'[s] = [hand[s] EXCEPT !.body = primary[hand[s].key].body] /\ pc'[s] = "put"
      BY <2>3
    <3>2. /\ hand'[s].key = hand[s].key /\ hand'[s].sha = hand[s].sha
          /\ hand'[s].body = latest[hand[s].key]
      BY <2>2, <2>3, <3>1 DEF Exists, InHand
    <3>3. /\ hand'[s].sha <= hand'[s].body /\ hand'[s].body <= latest'[hand'[s].key]
          /\ secondary'[hand'[s].key] <= hand'[s].body
      BY <2>2, <3>2 DEF store
    <3>4. QED  BY <2>1, <2>2, <3>1, <3>3 DEF store
  <2>4. CASE UNCHANGED hand /\ Goto(s, "next")
    BY <2>1, <2>2, <2>4 DEF store
  <2>5. QED  BY <1>9, <2>3, <2>4 DEF Download
<1>10. ASSUME NEW s \in Syncers, DownloadFails(s) PROVE InOrder'
  BY <1>10 DEF DownloadFails, store, history
<1>11. ASSUME NEW s \in Syncers, Upload(s) PROVE InOrder'
  BY <1>11, OneCall, OneCall' DEF Upload, Unsettles, OneCall, InHand
<1>12. ASSUME NEW s \in Syncers, UploadFails(s) PROVE InOrder'
  <2>1. \A k \in Keys : /\ secondary'[k] \in Nat
                       /\ secondary[k] <= secondary'[k] /\ secondary'[k] <= latest[k]
    BY <1>12, PutMovesForward DEF UploadFails
  <2>2. \A t \in Syncers : pc'[t] \in {"next", "idle"}
    BY <1>12, OneCall, OneCall' DEF UploadFails, OneCall
  <2>3. UNCHANGED <<primary, recorded, latest>>
    BY <1>12 DEF UploadFails, Unsettles
  <2>4. QED  BY <2>1, <2>2, <2>3
<1>13. ASSUME NEW s \in Syncers, Record(s) PROVE InOrder'
  BY <1>13, OneCall, OneCall' DEF Record, SumToRecord, store, history, OneCall, InHand
<1>14. ASSUME NEW s \in Syncers, TransportFails(s) PROVE InOrder'
  <2>1. \A k \in Keys : /\ secondary'[k] \in Nat
                       /\ secondary[k] <= secondary'[k] /\ secondary'[k] <= latest[k]
    BY <1>14, PutMovesForward DEF TransportFails
  <2>2. \A t \in Syncers : pc'[t] \in {"raised", "idle"}
    BY <1>14, OneCall, OneCall' DEF TransportFails, OneCall
  <2>3. UNCHANGED <<primary, recorded, latest>>
    BY <1>14 DEF TransportFails, Unsettles, history
  <2>4. QED  BY <2>1, <2>2, <2>3
<1>15. ASSUME NEW s \in Syncers, FinishSync(s) PROVE InOrder'
  BY <1>15 DEF FinishSync, store, history
<1>16. ASSUME NEW s \in Syncers, Collect(s) PROVE InOrder'
  BY <1>16 DEF Collect, store, history
<1>17. ASSUME NEW s \in Syncers, Crash(s) PROVE InOrder'
  <2>1. \A k \in Keys : /\ secondary'[k] \in Nat
                       /\ secondary[k] <= secondary'[k] /\ secondary'[k] <= latest[k]
    BY <1>17, PutMovesForward DEF Crash
  <2>2. /\ recorded' = [k \in Keys |-> 0]
        /\ \A t \in Syncers : pc'[t] = "idle"
        /\ UNCHANGED <<primary, latest>>
    BY <1>17 DEF Crash
  <2>3. QED  BY <2>1, <2>2
<1>18. CASE UNCHANGED vars
  BY <1>18 DEF vars, store, local, history
<1>19. QED
  BY <1>1, <1>2, <1>3, <1>4, <1>5, <1>6, <1>7, <1>8, <1>9, <1>10, <1>11, <1>12,
     <1>13, <1>14, <1>15, <1>16, <1>17, <1>18 DEF Next, Client, Begin, Inside

LEMMA AccountingPreserved ==
  ASSUME OneCall, OneCall', FreshContent, SyncInvariant, [Next]_vars
  PROVE  AllAccounted'
<1> USE DEF SyncInvariant, AllAccounted, Accounted, Holds, InProgress, Goto, Exists
<1>1. ASSUME NEW k \in Keys, ClientPut(k) PROVE AllAccounted'
  BY <1>1 DEF ClientPut, Disturbs, local, TypeOK
<1>2. ASSUME NEW k \in Keys, ClientDelete(k) PROVE AllAccounted'
  BY <1>2 DEF ClientDelete, Disturbs, local, TypeOK
<1>3. ASSUME NEW s \in Syncers, BeginSync(s) PROVE AllAccounted'
  BY <1>3, OneCall, OneCall' DEF BeginSync, store, OneCall, TypeOK, Listed
<1>4. ASSUME NEW s \in Syncers, ListFails(s) PROVE AllAccounted'
  BY <1>4, OneCall, OneCall' DEF ListFails, store, history, OneCall, TypeOK
<1>5. ASSUME NEW s \in Syncers, TakeKey(s) PROVE AllAccounted'
  BY <1>5, OneCall, OneCall' DEF TakeKey, store, history, OneCall, TypeOK
<1>6. ASSUME NEW s \in Syncers, HeadObject(s) PROVE AllAccounted'
  BY <1>6, OneCall, OneCall' DEF HeadObject, store, history, OneCall, TypeOK, InHand
<1>7. ASSUME NEW s \in Syncers, HeadFails(s) PROVE AllAccounted'
  BY <1>7, OneCall, OneCall' DEF HeadFails, store, history, OneCall, TypeOK
<1>8. ASSUME NEW s \in Syncers, Compare(s) PROVE AllAccounted'
  <2>1. pc \in [Syncers -> PCs] /\ \A t \in Syncers : t # s => pc'[t] = "idle"
    BY <1>8, OneCall' DEF Compare, OneCall, TypeOK
  <2>2. pc[s] = "compare" /\ pc' = [pc EXCEPT ![s] = pc'[s]]
        /\ UNCHANGED <<store, recorded, todo, hand, outcome, history>>
    BY <1>8 DEF Compare, TypeOK
  <2>3. /\ UNCHANGED <<primary, secondary, todo, hand, outcome, clean>>
        /\ pc[s] = "compare"
    BY <2>2 DEF store, history
  <2>4. CASE AlreadyReplicated(s)
    <3> DEFINE k == hand[s].key
    <3>1. k \in Keys /\ pc'[s] = "next"
      BY <1>8, <2>4 DEF Compare, TypeOK, InHand
    <3>2. k \in clean[s] => secondary[k] = primary[k].body
      <4>1. HAVE k \in clean[s]
      <4>2. primary[k].sha # 0 /\ recorded[k] = primary[k].sha
        BY <2>2, <2>4, <4>1, <3>1 DEF AlreadyReplicated
      <4>3. recorded[k] = primary[k].body /\ primary[k].body \in Nat
        BY <4>2, <3>1 DEF TypeOK, Object
      <4>4. recorded[k] <= secondary[k] /\ secondary[k] <= primary[k].body
        BY <2>2, <3>1, <4>1, <4>3 DEF InOrder, RecordedNotAhead, TypeOK
      <4>5. secondary[k] \in Nat
        BY <3>1 DEF TypeOK
      <4>6. QED  BY <4>3, <4>4, <4>5
    <3>3. QED  BY <2>1, <2>2, <2>3, <3>1, <3>2
  <2>5. CASE ~AlreadyReplicated(s)
    <3>1. pc'[s] = "get"
      BY <1>8, <2>1, <2>5 DEF Compare
    <3>2. QED  BY <2>1, <2>2, <2>3, <3>1
  <2>6. QED  BY <2>4, <2>5
<1>9. ASSUME NEW s \in Syncers, Download(s) PROVE AllAccounted'
  <2>1. \A t \in Syncers : t # s => pc'[t] = "idle"
    BY <1>9, OneCall' DEF Download, OneCall, TypeOK
  <2>2. pc[s] = "get" /\ hand[s].key \in Keys /\ UNCHANGED <<store, recorded, todo, history>>
    BY <1>9 DEF Download, TypeOK, InHand
  <2>3. CASE pc'[s] = "put"
    <3>1. /\ hand'[s] = [hand[s] EXCEPT !.body = primary[hand[s].key].body]
          /\ UNCHANGED outcome
      BY <1>9, <2>3 DEF Download, TypeOK
    <3>2. QED  BY <2>1, <2>2, <2>3, <3>1 DEF store, history, TypeOK, InHand
  <2>4. CASE pc'[s] = "next"
    <3>1. Report(s, "failed") /\ UNCHANGED hand
      BY <1>9, <2>4 DEF Download, TypeOK
    <3>2. QED  BY <2>1, <2>2, <2>4, <3>1 DEF Report, store, history, TypeOK, InHand
  <2>5. pc'[s] \in {"put", "next"}
    BY <1>9 DEF Download, TypeOK
  <2>6. QED  BY <2>3, <2>4, <2>5
<1>10. ASSUME NEW s \in Syncers, DownloadFails(s) PROVE AllAccounted'
  BY <1>10, OneCall, OneCall' DEF DownloadFails, Report, store, history, OneCall, TypeOK, InHand
<1>11. ASSUME NEW s \in Syncers, Upload(s) PROVE AllAccounted'
  BY <1>11, OneCall, OneCall' DEF Upload, Unsettles, OneCall, TypeOK, InHand
<1>12. ASSUME NEW s \in Syncers, UploadFails(s) PROVE AllAccounted'
  BY <1>12, OneCall, OneCall' DEF UploadFails, PutMayLand, Unsettles, Report, OneCall, TypeOK, InHand
<1>13. ASSUME NEW s \in Syncers, Record(s) PROVE AllAccounted'
  BY <1>13, OneCall, OneCall' DEF Record, Report, store, history, OneCall, TypeOK, InHand
<1>14. ASSUME NEW s \in Syncers, TransportFails(s) PROVE AllAccounted'
  BY <1>14, OneCall, OneCall' DEF TransportFails, OneCall, TypeOK
<1>15. ASSUME NEW s \in Syncers, FinishSync(s) PROVE AllAccounted'
  BY <1>15, OneCall, OneCall' DEF FinishSync, store, history, OneCall, TypeOK
<1>16. ASSUME NEW s \in Syncers, Collect(s) PROVE AllAccounted'
  BY <1>16, OneCall, OneCall' DEF Collect, store, history, OneCall, TypeOK
<1>17. ASSUME NEW s \in Syncers, Crash(s) PROVE AllAccounted'
  BY <1>17 DEF Crash
<1>18. CASE UNCHANGED vars
  BY <1>18 DEF vars, store, local, history
<1>19. QED
  BY <1>1, <1>2, <1>3, <1>4, <1>5, <1>6, <1>7, <1>8, <1>9, <1>10, <1>11, <1>12,
     <1>13, <1>14, <1>15, <1>16, <1>17, <1>18 DEF Next, Client, Begin, Inside

LEMMA SyncInvariantInductive ==
  ASSUME OneCall, OneCall', FreshContent, SyncInvariant, [Next]_vars
  PROVE  SyncInvariant'
  BY TypePreserved, OrderPreserved, AccountingPreserved DEF SyncInvariant

LEMMA InvariantIsHonest ==
  ASSUME SyncInvariant
  PROVE  StatusHonest
<1> SUFFICES ASSUME NEW s \in Syncers, pc[s] = "done", NEW k \in clean[s]
             PROVE  outcome[s][k] = "failed" \/ secondary[k] = primary[k].body
  BY DEF StatusHonest
<1>1. Accounted(s, k)
  BY DEF SyncInvariant, AllAccounted, InProgress
<1>2. k \notin todo[s]
  BY DEF SyncInvariant, AllAccounted
<1>3. QED  BY <1>1, <1>2 DEF Accounted, Holds

-----------------------------------------------------------------------------
\* Type correctness of sync_once and its environment, whoever calls it and
\* whatever clients write.
THEOREM TypeCorrect == Spec => []TypeOK
<1>1. Init => TypeOK
  BY InitInvariant DEF SyncInvariant
<1>2. TypeOK /\ [Next]_vars => TypeOK'
  BY TypePreserved
<1>3. QED  BY <1>1, <1>2, PTL DEF Spec

\* The inductive invariant of sync_once holds of one caller under fresh content.
THEOREM SyncInvariantHolds ==
  ASSUME OneCaller, FreshContent
  PROVE  Spec => []SyncInvariant
<1>1. Init => SyncInvariant
  BY InitInvariant
<1>2. SyncInvariant /\ [Next]_vars => SyncInvariant'
  BY OneCaller, FreshContent, SyncInvariantInductive DEF OneCaller, OneCall
<1>3. QED  BY <1>1, <1>2, PTL DEF Spec

\* The status sync_once returns is honest: whatever requests fail and wherever a
\* client's write falls, a listed key nobody has touched since is reported failed
\* or has its content on the secondary.
THEOREM StatusIsHonest ==
  ASSUME OneCaller, FreshContent
  PROVE  Spec => []StatusHonest
<1>1. SyncInvariant => StatusHonest
  BY InvariantIsHonest
<1>2. QED  BY <1>1, SyncInvariantHolds, PTL

\* The checksum table, and so is_replicated, never claims a content later than
\* what the secondary holds, through failed uploads and restarts of the worker.
THEOREM RecordedIsNotAhead ==
  ASSUME OneCaller, FreshContent
  PROVE  Spec => []RecordedNotAhead
<1>1. SyncInvariant => RecordedNotAhead
  BY DEF SyncInvariant, InOrder
<1>2. QED  BY <1>1, SyncInvariantHolds, PTL

-----------------------------------------------------------------------------
(* Skipping.                                                                *)

\* Of a settled key the table has just what the secondary has.
SettledAgree == \A k \in settled : recorded[k] = secondary[k]

\* What the call takes to the PUT of a settled key is later than what the secondary
\* has: from the moment the comparison under the lock has found the two to differ.
Newer(s) ==
  LET h == hand[s] IN
    /\ pc[s] = "compare" /\ h.sha # 0 => secondary[h.key] <= h.sha
    /\ pc[s] \in {"get", "put"} /\ h.sha # 0 /\ h.key \in settled => secondary[h.key] < h.sha

\* Unless a client came between HEAD and GET, the checksum in hand is the object's,
\* and then the body's.
Unmixed(s) ==
  ~mixed[s] =>
    /\ pc[s] \in {"compare", "get"} => hand[s].sha = primary[hand[s].key].sha
    /\ pc[s] \in {"put", "record"} => hand[s].sha \in {0, hand[s].body}

SkippingInvariant ==
  /\ SyncInvariant
  /\ SettledAgree
  /\ \A s \in Syncers : Newer(s) /\ Unmixed(s)

LEMMA InitSkipping == Init => SkippingInvariant
  BY InitInvariant DEF SkippingInvariant, SettledAgree, Newer, Unmixed, Init

\* Where the call of one thread takes a step, no other call is under way.
LEMMA OthersIdle ==
  ASSUME OneCall', TypeOK, NEW s \in Syncers, Begin(s) \/ Inside(s)
  PROVE  /\ pc[s] \in PCs /\ hand[s] \in InHand
         /\ \A t \in Syncers : t # s => pc'[t] = "idle"
<1>1. pc'[s] # "idle"
  BY DEF TypeOK, Begin, BeginSync, ListFails, Inside, TakeKey, HeadObject, HeadFails, Compare,
     Download, DownloadFails, Upload, UploadFails, Record, TransportFails, FinishSync, Goto
<1>2. QED  BY <1>1 DEF OneCall, TypeOK

LEMMA SettledPreserved ==
  ASSUME SkippingInvariant, [Next]_vars
  PROVE  SettledAgree'
<1> USE DEF SettledAgree
<1>0. /\ SettledAgree /\ settled \subseteq Keys
      /\ recorded \in [Keys -> Nat] /\ secondary \in [Keys -> Nat]
      /\ \A s \in Syncers : hand[s] \in InHand
  BY DEF SkippingInvariant, SyncInvariant, TypeOK
<1>1. CASE Client
  <2>1. UNCHANGED <<secondary, recorded, settled>>
    BY <1>1 DEF Client, ClientPut, ClientDelete, Disturbs
  <2>2. QED  BY <1>0, <2>1
<1>2. ASSUME NEW s \in Syncers,
             \/ Begin(s) \/ TakeKey(s) \/ HeadObject(s) \/ HeadFails(s) \/ Compare(s)
             \/ Download(s) \/ DownloadFails(s) \/ FinishSync(s) \/ Collect(s)
      PROVE  SettledAgree'
  BY <1>0, <1>2 DEF Begin, BeginSync, ListFails, TakeKey, HeadObject, HeadFails, Compare,
     Download, DownloadFails, FinishSync, Collect, store, history
\* A PUT that was sent unsettles its key, whatever became of it.
<1>3. ASSUME NEW s \in Syncers, Upload(s) \/ UploadFails(s) \/ TransportFails(s)
      PROVE  SettledAgree'
  <2>1. /\ UNCHANGED recorded
        /\ \/ UNCHANGED <<secondary, settled>>
           \/ /\ settled' = settled \ {hand[s].key}
              /\ \/ secondary' = [secondary EXCEPT ![hand[s].key] = hand[s].body]
                 \/ UNCHANGED secondary
    BY <1>3 DEF Upload, UploadFails, TransportFails, PutMayLand, Unsettles, history
  <2>2. QED  BY <1>0, <2>1
<1>4. ASSUME NEW s \in Syncers, Record(s) PROVE SettledAgree'
  <2> DEFINE k == hand[s].key
  <2>1. /\ k \in Keys /\ UNCHANGED secondary
        /\ recorded' = [recorded EXCEPT ![k] = SumToRecord(s)]
        /\ settled' = IF mixed[s] THEN settled \ {k} ELSE settled \cup {k}
    BY <1>0, <1>4 DEF Record, InHand, store
  <2>2. CASE ~mixed[s]
    \* The sum recorded is that of the body just stored.
    <3>1. pc[s] = "record" /\ hand[s].sha \in {0, hand[s].body}
      BY <1>4, <2>2 DEF Record, SkippingInvariant, Unmixed
    <3>2. secondary[k] = hand[s].body
      BY <3>1 DEF SkippingInvariant, SyncInvariant, InOrder, InHandInOrder
    <3>3. SumToRecord(s) = secondary[k]
      BY <3>1, <3>2 DEF SumToRecord
    <3>4. QED  BY <1>0, <2>1, <2>2, <3>3
  <2>3. CASE mixed[s]
    BY <1>0, <2>1, <2>3
  <2>4. QED  BY <2>2, <2>3
<1>5. ASSUME NEW s \in Syncers, Crash(s) PROVE SettledAgree'
  BY <1>5 DEF Crash
<1>6. CASE UNCHANGED vars
  BY <1>0, <1>6 DEF vars, store, history
<1>7. QED  BY <1>1, <1>2, <1>3, <1>4, <1>5, <1>6 DEF Next, Inside

LEMMA InHandPreserved ==
  ASSUME OneCall', SkippingInvariant, [Next]_vars
  PROVE  \A s \in Syncers : Newer(s)' /\ Unmixed(s)'
<1> USE DEF Newer, Unmixed
<1>0. /\ pc \in [Syncers -> PCs] /\ hand \in [Syncers -> InHand] /\ mixed \in [Syncers -> BOOLEAN]
      /\ \A s \in Syncers : Newer(s) /\ Unmixed(s)
  BY DEF SkippingInvariant, SyncInvariant, TypeOK
<1>1. CASE Client
  <2>1. PICK k \in Keys : ClientPut(k) \/ ClientDelete(k)
    BY <1>1 DEF Client
  <2>2. UNCHANGED <<pc, hand, secondary, settled>>
    BY <2>1 DEF ClientPut, ClientDelete, Disturbs, local
  <2>3. \A s \in Syncers : /\ mixed[s] => mixed'[s]
                           /\ pc[s] \in {"compare", "get"} /\ hand[s].key = k => mixed'[s]
    BY <1>0, <2>1 DEF ClientPut, ClientDelete, Disturbs
  <2>4. \A j \in Keys : j # k => primary'[j] = primary[j]
    BY <2>1 DEF ClientPut, ClientDelete, SkippingInvariant, SyncInvariant, TypeOK
  <2>5. \A s \in Syncers : hand[s].key \in Keys
    BY <1>0 DEF InHand
  <2>6. QED  BY <1>0, <2>2, <2>3, <2>4, <2>5
<1>2. ASSUME NEW s \in Syncers, Begin(s) \/ Inside(s)
      PROVE  \A t \in Syncers : Newer(t)' /\ Unmixed(t)'
  <2>1. \A t \in Syncers : t # s => pc'[t] = "idle"
    BY <1>2, OthersIdle DEF SkippingInvariant, SyncInvariant
  <2>2. SUFFICES Newer(s)' /\ Unmixed(s)'
    BY <2>1
  <2> DEFINE k == hand[s].key
  <2>3. /\ hand[s] \in InHand /\ k \in Keys /\ hand[s].sha \in Nat /\ hand[s].body \in Nat
        /\ recorded[k] \in Nat /\ secondary[k] \in Nat /\ latest[k] \in Nat
        /\ primary[k].sha \in {0, primary[k].body} /\ primary[k].body \in {0, latest[k]}
        /\ secondary[k] <= latest[k]
        /\ k \in settled => recorded[k] = secondary[k]
    BY <1>0 DEF SkippingInvariant, SyncInvariant, TypeOK, InOrder, InHand, SettledAgree
  <2>4. CASE HeadObject(s) /\ Exists(k)
    <3>1. /\ pc'[s] = "compare" /\ hand'[s] = [hand[s] EXCEPT !.sha = primary[k].sha]
          /\ UNCHANGED <<primary, secondary>>
      BY <1>0, <2>4 DEF HeadObject, Goto, store
    <3>2. hand'[s].key = k /\ hand'[s].sha = primary[k].sha
      BY <2>3, <3>1 DEF InHand
    <3>3. primary[k].sha # 0 => secondary[k] <= primary[k].sha
      BY <2>3
    <3>4. QED  BY <3>1, <3>2, <3>3
  <2>5. CASE Compare(s) /\ AlreadyReplicated(s)
    BY <1>0, <2>5 DEF Compare, Goto
  <2>6. CASE Compare(s) /\ ~AlreadyReplicated(s)
    <3>1. /\ pc[s] = "compare" /\ pc'[s] = "get"
          /\ UNCHANGED <<hand, primary, secondary, recorded, mixed, settled>>
      BY <1>0, <2>6 DEF Compare, Goto, store, history
    <3>2. hand[s].sha # 0 => recorded[k] # hand[s].sha /\ secondary[k] <= hand[s].sha
      BY <1>0, <2>6, <3>1 DEF AlreadyReplicated
    <3>3. QED  BY <1>0, <2>3, <3>1, <3>2
  <2>7. CASE Download(s) /\ Exists(k)
    <3>1. /\ pc[s] = "get" /\ pc'[s] = "put"
          /\ hand'[s] = [hand[s] EXCEPT !.body = primary[k].body]
          /\ UNCHANGED <<primary, secondary, mixed, settled>>
      BY <1>0, <2>7 DEF Download, Goto, store, history
    <3>2. hand'[s].key = k /\ hand'[s].sha = hand[s].sha /\ hand'[s].body = primary[k].body
      BY <2>3, <3>1 DEF InHand
    <3>3. ~mixed[s] => hand[s].sha \in {0, primary[k].body}
      BY <1>0, <2>3, <3>1
    <3>4. QED  BY <1>0, <3>1, <3>2, <3>3
  <2>8. CASE Upload(s)
    <3>1. pc[s] = "put" /\ pc'[s] = "record" /\ UNCHANGED <<hand, mixed>>
      BY <1>0, <2>8 DEF Upload, Unsettles, Goto
    <3>2. QED  BY <1>0, <3>1
  <2>9. CASE \/ Begin(s) \/ TakeKey(s) \/ (HeadObject(s) /\ ~Exists(k)) \/ HeadFails(s)
             \/ (Download(s) /\ ~Exists(k)) \/ DownloadFails(s) \/ UploadFails(s)
             \/ Record(s) \/ TransportFails(s) \/ FinishSync(s)
    <3>1. pc'[s] \notin {"compare", "get", "put", "record"}
      BY <1>0, <2>9 DEF Begin, BeginSync, ListFails, TakeKey, HeadObject, HeadFails, Download,
         DownloadFails, UploadFails, Record, TransportFails, FinishSync, Goto
    <3>2. QED  BY <3>1
  <2>10. QED  BY <1>2, <2>4, <2>5, <2>6, <2>7, <2>8, <2>9 DEF Inside
<1>3. ASSUME NEW s \in Syncers, Collect(s) PROVE \A t \in Syncers : Newer(t)' /\ Unmixed(t)'
  BY <1>0, <1>3 DEF Collect, Goto, store, history
<1>4. ASSUME NEW s \in Syncers, Crash(s) PROVE \A t \in Syncers : Newer(t)' /\ Unmixed(t)'
  BY <1>4 DEF Crash
<1>5. CASE UNCHANGED vars
  BY <1>0, <1>5 DEF vars, local, store, history
<1>6. QED  BY <1>1, <1>2, <1>3, <1>4, <1>5 DEF Next

LEMMA SkippingInductive ==
  ASSUME OneCall, OneCall', FreshContent, SkippingInvariant, [Next]_vars
  PROVE  SkippingInvariant'
<1>1. SyncInvariant'
  BY SyncInvariantInductive DEF SkippingInvariant
<1>2. QED  BY <1>1, SettledPreserved, InHandPreserved DEF SkippingInvariant

LEMMA SkippingMeansNoRecopy ==
  ASSUME SkippingInvariant
  PROVE  NoRecopy
<1> SUFFICES ASSUME NEW s \in Syncers, pc[s] = "put", hand[s].sha # 0, hand[s].key \in settled
             PROVE  hand[s].body # secondary[hand[s].key]
  BY DEF NoRecopy
<1>1. secondary[hand[s].key] < hand[s].sha /\ hand[s].sha <= hand[s].body
  BY DEF SkippingInvariant, SyncInvariant, Newer, InOrder, InHandInOrder
<1>2. hand[s].key \in Keys /\ hand[s].sha \in Nat /\ hand[s].body \in Nat
      /\ secondary[hand[s].key] \in Nat
  BY DEF SkippingInvariant, SyncInvariant, TypeOK, InHand
<1>3. QED  BY <1>1, <1>2

\* "Already-replicated, unchanged objects are skipped", as far as the code goes: no
\* upload repeats what the secondary has of a settled key whose object carries a
\* checksum, through failed uploads, deletes and restarts of the worker, even if the
\* body was read after the checksum it was compared by had been replaced.
THEOREM NeverRecopies ==
  ASSUME OneCaller, FreshContent
  PROVE  Spec => []NoRecopy
<1>1. Init => SkippingInvariant
  BY InitSkipping
<1>2. SkippingInvariant /\ [Next]_vars => SkippingInvariant'
  BY OneCaller, FreshContent, SkippingInductive DEF OneCaller, OneCall
<1>3. SkippingInvariant => NoRecopy
  BY SkippingMeansNoRecopy
<1>4. QED  BY <1>1, <1>2, <1>3, PTL DEF Spec

-----------------------------------------------------------------------------
\* A step that moves the secondary forward on one key, to a content the primary
\* has had, is a step of the abstract replica.
LEMMA ForwardIsCatchUp ==
  ASSUME TypeOK, InOrder, NEW s \in Syncers, pc[s] = "put", UNCHANGED latest,
         secondary' = [secondary EXCEPT ![hand[s].key] = hand[s].body]
  PROVE  Lagging!Next
<1> DEFINE k == hand[s].key
<1>1. k \in Keys /\ hand[s].body \in secondary[k] .. latest[k]
  BY DEF TypeOK, InOrder, InHandInOrder, InHand
<1>2. Lagging!CatchUp(k)
  BY <1>1 DEF Lagging!CatchUp
<1>3. QED  BY <1>1, <1>2 DEF Lagging!Next

LEMMA StepLags ==
  ASSUME FreshContent, TypeOK, InOrder, [Next]_vars
  PROVE  [Lagging!Next]_(Lagging!vars)
<1> USE DEF Lagging!vars
<1>1. ASSUME NEW k \in Keys, ClientPut(k) PROVE Lagging!Next
  <2>1. PICK b \in 1 .. MaxBody :
          /\ b = latest[k] + 1
          /\ latest' = [latest EXCEPT ![k] = IF b > latest[k] THEN b ELSE latest[k]]
    BY <1>1, FreshContent DEF ClientPut, FreshContent
  <2>2. latest[k] \in Nat
    BY DEF TypeOK
  <2>3. latest' = [latest EXCEPT ![k] = latest[k] + 1]
    <3>1. b > latest[k] /\ b = latest[k] + 1
      BY <2>1, <2>2
    <3>2. latest' = [latest EXCEPT ![k] = b]
      BY <2>1, <3>1
    <3>3. QED  BY <3>1, <3>2
  <2>4. UNCHANGED secondary
    BY <1>1 DEF ClientPut
  <2>5. QED  BY <2>3, <2>4 DEF Lagging!Next, Lagging!Write
<1>2. ASSUME NEW k \in Keys, ClientDelete(k) PROVE UNCHANGED <<latest, secondary>>
  BY <1>2 DEF ClientDelete
<1>3. ASSUME NEW s \in Syncers, Begin(s) \/ Collect(s) PROVE UNCHANGED <<latest, secondary>>
  BY <1>3 DEF Begin, BeginSync, ListFails, Collect, store, history
<1>4. ASSUME NEW s \in Syncers, Upload(s) PROVE Lagging!Next
  BY <1>4, ForwardIsCatchUp DEF Upload, Unsettles
<1>5. ASSUME NEW s \in Syncers, UploadFails(s) \/ TransportFails(s) \/ Crash(s)
      PROVE  Lagging!Next \/ UNCHANGED <<latest, secondary>>
  BY <1>5, ForwardIsCatchUp DEF UploadFails, TransportFails, Crash, PutMayLand, Unsettles, history
<1>6. ASSUME NEW s \in Syncers,
             \/ TakeKey(s) \/ HeadObject(s) \/ HeadFails(s) \/ Compare(s) \/ Download(s)
             \/ DownloadFails(s) \/ Record(s) \/ FinishSync(s)
      PROVE  UNCHANGED <<latest, secondary>>
  BY <1>6 DEF TakeKey, HeadObject, HeadFails, Compare, Download, DownloadFails, Record,
     FinishSync, store, history
<1>7. CASE UNCHANGED vars
  BY <1>7 DEF vars, store, history
<1>8. QED
  BY <1>1, <1>2, <1>3, <1>4, <1>5, <1>6, <1>7 DEF Next, Client, Inside

\* sync_once implements the abstract lagging replica: the secondary holds of every
\* key some content the primary has had, and never goes back to an earlier one.
THEOREM SyncImplementsLagging ==
  ASSUME OneCaller, FreshContent
  PROVE  Spec => LaggingSpec
<1>1. Init => Lagging!Init
  BY DEF Init, Lagging!Init
<1>2. SyncInvariant /\ [Next]_vars => [Lagging!Next]_(Lagging!vars)
  BY StepLags DEF SyncInvariant
<1>3. QED
  BY <1>1, <1>2, SyncInvariantHolds, PTL DEF Spec, LaggingSpec, Lagging!Spec

-----------------------------------------------------------------------------
(* The threads.                                                             *)

\* Whoever is alive is the thread the worker has a reference to, or one that stop()
\* gave up on; AtMostOneLoop alone does not say that a start() that finds its thread
\* ended finds no other.  And a worker without a thread has its event set, or never
\* had a thread that lives.
ThreadsKnown ==
  /\ loop \in [Syncers -> {"none", "test", "sync", "wait"}]
  /\ \A t \in Syncers : Alive(t) => thread = t \/ t \in orphans
  /\ thread = NoThread \/ owner = "joining" => stopSet \/ \A t \in Syncers : ~Alive(t)

\* A step inside _loop starts no other thread.
LEMMA LoopStepKeeps ==
  ASSUME ThreadsKnown, NEW t \in Syncers, LoopStep(t)
  PROVE  ThreadsKnown'
<1>1. UNCHANGED <<stopSet, thread, owner, orphans>> /\ Alive(t)
  BY DEF LoopStep, LoopTest, LoopSyncs, LoopReturns, LoopWakes, control, Alive
<1>2. \E where \in {"none", "test", "sync", "wait"} : loop' = [loop EXCEPT ![t] = where]
  <2>1. CASE LoopTest(t) \/ LoopReturns(t) \/ LoopWakes(t)
    BY <2>1 DEF LoopTest, LoopReturns, LoopWakes
  <2>2. CASE LoopSyncs(t)
    <3>1. loop' = loop /\ loop[t] = "sync"
      BY <2>2 DEF LoopSyncs, control
    <3>2. loop' = [loop EXCEPT ![t] = "sync"]
      BY <3>1 DEF ThreadsKnown
    <3>3. QED  BY <3>2
  <2>3. QED  BY <2>1, <2>2 DEF LoopStep
<1>3. QED  BY <1>1, <1>2 DEF ThreadsKnown, Alive

LEMMA ThreadsKnownInductive ==
  ASSUME ThreadsKnown, [LoopNext]_loopVars
  PROVE  ThreadsKnown'
<1>1. CASE Client /\ UNCHANGED control
  BY <1>1 DEF ThreadsKnown, Alive, control
<1>2. CASE Start
  \* The thread the worker knows has ended: whoever is alive was given up on.
  <2>1. \A t \in Syncers : Alive(t) => t \in orphans
    BY <1>2, LoopAssumption DEF Start, ThreadsKnown
  <2>2. PICK t \in Syncers : /\ thread' = t /\ loop' = [loop EXCEPT ![t] = "test"]
                             /\ orphans' = orphans \ {t}
    BY <1>2 DEF Start, StartThread
  <2>3. owner' = "idle" /\ thread' # NoThread
    BY <1>2, <2>2, LoopAssumption DEF Start, StartThread
  <2>4. QED  BY <2>1, <2>2, <2>3 DEF ThreadsKnown, Alive
<1>3. CASE Stop
  BY <1>3 DEF Stop, ThreadsKnown, Alive
<1>4. CASE JoinEnds
  BY <1>4 DEF JoinEnds, ThreadEnded, ThreadsKnown, Alive
<1>5. CASE JoinGivesUp
  BY <1>5 DEF JoinGivesUp, ThreadsKnown, Alive
<1>6. ASSUME NEW t \in Syncers, LoopStep(t) PROVE ThreadsKnown'
  BY <1>6, LoopStepKeeps
<1>7. CASE UNCHANGED loopVars
  BY <1>7 DEF loopVars, control, ThreadsKnown, Alive
<1>8. QED
  BY <1>1, <1>2, <1>3, <1>4, <1>5, <1>6, <1>7 DEF LoopNext, Joined

LEMMA ThreadsKnownHolds == LoopSafety => []ThreadsKnown
<1>1. LoopInit => ThreadsKnown
  BY DEF LoopInit, ThreadsKnown, Alive
<1>2. ThreadsKnown /\ [LoopNext]_loopVars => ThreadsKnown'
  BY ThreadsKnownInductive
<1>3. QED  BY <1>1, <1>2, PTL DEF LoopSafety

\* Without a thread to know of, a loop that goes on has its event set, and if none
\* goes on, no step reaches the secondary.
LEMMA QuietWithoutThread ==
  ASSUME ThreadsKnown, thread = NoThread, [LoopNext]_loopVars
  PROVE  /\ \A t \in Syncers : loop[t] # "sync" => loop'[t] # "sync"
         /\ (\A t \in orphans : ~Alive(t)) => UNCHANGED secondary
<1>1. ASSUME NEW t \in Syncers, LoopStep(t)
      PROVE  /\ \A u \in Syncers : loop[u] # "sync" => loop'[u] # "sync"
             /\ t \in orphans /\ Alive(t)
  <2>1. Alive(t)
    BY <1>1 DEF Alive, LoopStep, LoopTest, LoopSyncs, LoopReturns, LoopWakes
  <2>2. stopSet /\ t \in orphans
    BY <2>1, LoopAssumption DEF ThreadsKnown
  <2>3. QED
    BY <1>1, <2>1, <2>2
    DEF ThreadsKnown, LoopStep, LoopTest, LoopSyncs, LoopReturns, LoopWakes, control
<1>2. CASE Client /\ UNCHANGED control
  BY <1>2 DEF Client, ClientPut, ClientDelete, control
<1>3. CASE Start \/ Stop \/ Joined \/ UNCHANGED loopVars
  BY <1>3 DEF Start, StartThread, Stop, Joined, JoinEnds, JoinGivesUp, ThreadsKnown,
     loopVars, control, vars, store
<1>4. QED  BY <1>1, <1>2, <1>3 DEF LoopNext

-----------------------------------------------------------------------------
\* start() and stop() keep a worker to one loop: however it is started and stopped,
\* whatever ends a thread and whether a join waits long enough or not, of the threads
\* no stop() gave up on no two run sync_once.
THEOREM OneLoop == LoopSafety => []AtMostOneLoop
<1>1. ThreadsKnown => AtMostOneLoop
  BY DEF ThreadsKnown, AtMostOneLoop
<1>2. QED  BY <1>1, ThreadsKnownHolds, PTL

\* stop() silences a worker: between its return and the next start() no sync begins,
\* and no PUT reaches the secondary but from a loop stop() gave up on.
THEOREM StopSilences == LoopSafety => StoppedIsQuiet
<1>1. ThreadsKnown /\ [LoopNext]_loopVars =>
        [thread = NoThread =>
           /\ \A t \in Syncers : loop[t] # "sync" => loop'[t] # "sync"
           /\ (\A t \in orphans : ~Alive(t)) => UNCHANGED secondary]_loopVars
  BY QuietWithoutThread
<1>2. QED  BY <1>1, ThreadsKnownHolds, PTL DEF LoopSafety, StoppedIsQuiet

-----------------------------------------------------------------------------
(* What the steps of the loop are to sync_once.                             *)

\* A thread is in sync_once only where _loop calls it.
IdleOutsideSync == \A t \in Syncers : loop[t] # "sync" => pc[t] = "idle"

LEMMA LoopStepIsNext ==
  ASSUME [LoopNext]_loopVars
  PROVE  [Next]_vars
<1>1. ASSUME NEW t \in Syncers, LoopStep(t) PROVE [Next]_vars
  BY <1>1 DEF LoopStep, LoopTest, LoopSyncs, LoopReturns, LoopWakes, Next
<1>2. CASE Start \/ Stop \/ Joined \/ UNCHANGED loopVars
  BY <1>2 DEF Start, StartThread, Stop, Joined, JoinEnds, JoinGivesUp, loopVars
<1>3. CASE Client
  BY <1>3 DEF Next
<1>4. QED  BY <1>1, <1>2, <1>3 DEF LoopNext

\* What begins or goes on in sync_once is one thread's program counter.
LEMMA InsideMovesOne ==
  ASSUME NEW t \in Syncers, Begin(t) \/ Inside(t) \/ Collect(t)
  PROVE  \E where \in PCs : pc' = [pc EXCEPT ![t] = where]
  BY DEF Begin, BeginSync, ListFails, Inside, TakeKey, HeadObject, HeadFails, Compare, Download,
     DownloadFails, Upload, UploadFails, Record, TransportFails, FinishSync, Collect, Goto, PCs

LEMMA IdlePreserved ==
  ASSUME ThreadsKnown, TypeOK, IdleOutsideSync, [LoopNext]_loopVars
  PROVE  IdleOutsideSync'
<1> USE DEF IdleOutsideSync
<1>0. pc \in [Syncers -> PCs] /\ loop \in [Syncers -> {"none", "test", "sync", "wait"}]
  BY DEF TypeOK, ThreadsKnown
<1>1. CASE Client /\ UNCHANGED control
  BY <1>1 DEF Client, ClientPut, ClientDelete, local, control
<1>2. CASE Start
  BY <1>0, <1>2 DEF Start, StartThread, Alive, vars, local
<1>3. CASE Stop \/ Joined \/ UNCHANGED loopVars
  BY <1>3 DEF Stop, Joined, JoinEnds, JoinGivesUp, loopVars, vars, local, control
<1>4. ASSUME NEW t \in Syncers, LoopTest(t) \/ LoopWakes(t) PROVE IdleOutsideSync'
  BY <1>0, <1>4 DEF LoopTest, LoopWakes, vars, local
<1>5. ASSUME NEW t \in Syncers, LoopSyncs(t) PROVE IdleOutsideSync'
  BY <1>0, <1>5, InsideMovesOne DEF LoopSyncs, control
<1>6. ASSUME NEW t \in Syncers, LoopReturns(t) PROVE IdleOutsideSync'
  BY <1>0, <1>6 DEF LoopReturns, Collect, Goto
<1>7. QED  BY <1>1, <1>2, <1>3, <1>4, <1>5, <1>6 DEF LoopNext, LoopStep

\* Two calls of sync_once overlap only while a thread that some stop() gave up on is
\* still alive: for any number of threads, starts, stops, clients and failures.
THEOREM OverlapNeedsOrphan ==
  LoopSafety => []((\A t \in orphans : ~Alive(t)) => OneCall)
<1>1. LoopInit => TypeOK /\ IdleOutsideSync
  BY InitInvariant DEF LoopInit, SyncInvariant, Init, IdleOutsideSync
<1>2. ThreadsKnown /\ TypeOK /\ IdleOutsideSync /\ [LoopNext]_loopVars
        => TypeOK' /\ IdleOutsideSync'
  BY LoopStepIsNext, TypePreserved, IdlePreserved
<1>3. ThreadsKnown /\ IdleOutsideSync => ((\A t \in orphans : ~Alive(t)) => OneCall)
  BY DEF ThreadsKnown, IdleOutsideSync, OneCall, Alive
<1>4. QED  BY <1>1, <1>2, <1>3, ThreadsKnownHolds, PTL DEF LoopSafety

-----------------------------------------------------------------------------
(* Behaviours of the loop in which no two calls overlap.                    *)

LEMMA LoopSyncInvariant ==
  ASSUME FreshContent
  PROVE  LoopSafety /\ []OneCall => []SyncInvariant
<1>1. LoopInit => SyncInvariant
  BY InitInvariant DEF LoopInit
<1>2. OneCall /\ OneCall' /\ SyncInvariant /\ [LoopNext]_loopVars => SyncInvariant'
  BY FreshContent, LoopStepIsNext, SyncInvariantInductive
<1>3. QED  BY <1>1, <1>2, PTL DEF LoopSafety

\* Every status the loop's syncs build is honest, whatever the owner does meanwhile,
\* in behaviours in which no two syncs overlap: a listed key nobody has touched since
\* is reported failed or is on the secondary.
THEOREM LoopStatusIsHonest ==
  ASSUME FreshContent
  PROVE  LoopSafety /\ []OneCall => []StatusHonest
<1>1. SyncInvariant => StatusHonest
  BY InvariantIsHonest
<1>2. QED  BY <1>1, LoopSyncInvariant, PTL

\* A worker started and stopped at will, no two of whose syncs overlap, implements the
\* abstract lagging replica: no thread, though stop() gave up on it, takes the
\* secondary back to earlier content.
THEOREM LoopImplementsLagging ==
  ASSUME FreshContent
  PROVE  LoopSafety /\ []OneCall => LaggingSpec
<1>1. LoopInit => Lagging!Init
  BY DEF LoopInit, Init, Lagging!Init
<1>2. SyncInvariant /\ [LoopNext]_loopVars => [Lagging!Next]_(Lagging!vars)
  BY FreshContent, LoopStepIsNext, StepLags DEF SyncInvariant
<1>3. QED
  BY <1>1, <1>2, LoopSyncInvariant, PTL DEF LoopSafety, LaggingSpec, Lagging!Spec

\* The loop, cycle after cycle and across starts and stops, never uploads what the
\* secondary has of a settled key whose object carries a checksum, in behaviours in
\* which no two syncs overlap.
THEOREM LoopNeverRecopies ==
  ASSUME FreshContent
  PROVE  LoopSafety /\ []OneCall => []NoRecopy
<1>1. LoopInit => SkippingInvariant
  BY InitSkipping DEF LoopInit
<1>2. OneCall /\ OneCall' /\ SkippingInvariant /\ [LoopNext]_loopVars => SkippingInvariant'
  BY FreshContent, LoopStepIsNext, SkippingInductive
<1>3. SkippingInvariant => NoRecopy
  BY SkippingMeansNoRecopy
<1>4. QED  BY <1>1, <1>2, <1>3, PTL DEF LoopSafety

=============================================================================
