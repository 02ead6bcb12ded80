---------------------------- MODULE SnapshotProofs ----------------------------
(***************************************************************************)
(* The commit point of a snapshot, for every number of keys, ids, threads  *)
(* and failures: a snapshot whose manifest can be read is complete, and    *)
(* stays what it is until it is deleted (the service implements            *)
(* SnapshotLedger).                                                        *)
(***************************************************************************)
EXTENDS Snapshot, TLAPS

\* A create that has not written its manifest.
Creating(w) == op[w] = "create" /\ pc[w] \in {"next", "head"}

\* No two creates work on one id.
IdsApart == \A w, v \in Workers : Creating(w) /\ Creating(v) /\ id[w] = id[v] => w = v

Copied(i, k) == snap[i][k].body # 0 /\ snap[i][k].sha = sums[i][k]

\* Where a create stands: nobody can know its id yet, the keys in the manifest so
\* far are copied and are not to be copied again, and the key whose checksum is
\* being read is copied too.
CopiesBehind(w) ==
  /\ id[w] \in used \ (stored \cup doomed)
  /\ \A k \in Captured(id[w]) : k \notin todo[w] /\ Copied(id[w], k)
  /\ pc[w] = "head" => key[w] \notin todo[w] /\ snap[id[w]][key[w]].body # 0

\* A deletion only touches what is doomed.
DeletesDoomed(w) == Doing(w, "delete", "next") => id[w] \in doomed

\* The inductive invariant: ListedIsComplete alone says nothing of the creates that
\* are about to write their manifest.
Commitment ==
  /\ stored \subseteq used /\ doomed \subseteq used
  /\ \A i \in Ids \ used : Captured(i) = {}
  /\ \A w \in Workers : Creating(w) => CopiesBehind(w)
  /\ \A w \in Workers : DeletesDoomed(w)
  /\ IdsApart
  /\ ListedIsComplete
CommitInvariant == TypeOK /\ Commitment

-----------------------------------------------------------------------------
LEMMA SomeIdAndKey ==
  (CHOOSE i \in Ids : TRUE) \in Ids /\ (CHOOSE k \in Keys : TRUE) \in Keys
  BY SnapshotAssumption

LEMMA InitInvariant == Init => CommitInvariant
  BY SomeIdAndKey, SnapshotAssumption
     DEF Init, CommitInvariant, Commitment, TypeOK, JobOK, LiveOK, IdsApart, CopiesBehind,
         DeletesDoomed, ListedIsComplete, Creating, Doing, Captured, Object, Absent, NotReported

\* What the moves of a call do to the types of its variables.
LEMMA JobMoves ==
  ASSUME JobOK, NEW w \in Workers
  PROVE  /\ \A k \in todo[w], where \in {"head", "raised"} :
              Take(w, k, where) /\ k \in Keys => JobOK'
         /\ \A k \in Keys : TakeFailed(w, k) => JobOK'
         /\ \A x \in todo[w] : Strike(w, x) => JobOK'
         /\ \A where \in {"idle", "next", "done", "raised"} : Goto(w, where) => JobOK'
         /\ \A result \in {"restored", "failed"} : Report(w, result) => JobOK'
         /\ \A i \in Ids, method \in {"restore", "delete"} : StartRaised(w, method, i) => JobOK'
<1>1. \A k \in todo[w], where \in {"head", "raised"} : Take(w, k, where) /\ k \in Keys => JobOK'
  BY DEF JobOK, Take
<1>2. \A k \in Keys : TakeFailed(w, k) => JobOK'
  BY DEF JobOK, TakeFailed
<1>3. \A x \in todo[w] : Strike(w, x) => JobOK'
  BY DEF JobOK, Strike
<1>4. \A where \in {"idle", "next", "done", "raised"} : Goto(w, where) => JobOK'
  BY DEF JobOK, Goto
<1>5. \A result \in {"restored", "failed"} : Report(w, result) => JobOK'
  BY DEF JobOK, Report
<1>6. \A i \in Ids, method \in {"restore", "delete"} : StartRaised(w, method, i) => JobOK'
  BY DEF JobOK, StartRaised
<1>7. QED  BY <1>1, <1>2, <1>3, <1>4, <1>5, <1>6

LEMMA JobStarts ==
  ASSUME JobOK, NEW w \in Workers, NEW i \in Ids, NEW listing \in SUBSET (Keys \cup {ManifestKey}),
         NEW method \in {"create", "restore", "delete"}, method # "delete" => listing \subseteq Keys,
         StartJob(w, method, i, listing)
  PROVE  JobOK'
  BY DEF JobOK, StartJob

LEMMA SetLiveTyped ==
  ASSUME LiveOK, NEW k \in Keys, NEW object \in Object, NEW by, SetLive(k, object, by)
  PROVE  LiveOK'
<1>1. live' \in [Keys -> Object]
  BY DEF LiveOK, SetLive
<1>2. Bodies(live)' \in [Keys -> Nat]
  BY <1>1 DEF Bodies, Object
<1>3. Bodies(live') = Bodies(live)'
  BY DEF Bodies
<1>4. moments' \in [Workers -> SUBSET [Keys -> Nat]]
  BY <1>2, <1>3 DEF LiveOK, SetLive
<1>5. touched' \in [Workers -> SUBSET Keys]
  BY DEF LiveOK, SetLive
<1>6. QED  BY <1>1, <1>4, <1>5 DEF LiveOK

LEMMA SnapTyped ==
  ASSUME snap \in [Ids -> [Keys -> Object]], NEW i \in Ids, NEW k \in Keys, NEW object \in Object,
         snap' = [snap EXCEPT ![i][k] = object]
  PROVE  snap' \in [Ids -> [Keys -> Object]]
  OBVIOUS

\* A deletion that is carried out, whatever its answer.
Deletes(w) ==
  /\ Doing(w, "delete", "next")
  /\ \E x \in todo[w] : Drop(id[w], x) /\ (Strike(w, x) \/ Goto(w, "raised"))
  /\ UNCHANGED <<live, sums, history>>

\* A delete's request has that effect or none.
LEMMA MadeOrNot ==
  ASSUME NEW w \in Workers, DeleteOne(w) \/ DeleteOneFails(w) \/ Aborts(w)
  PROVE  Deletes(w) \/ UNCHANGED <<snap, stored>>
<1>1. CASE DeleteOne(w)
  BY <1>1 DEF DeleteOne, Deletes
<1>2. CASE DeleteOneFails(w)
  BY <1>2 DEF DeleteOneFails, Deletes
<1>3. CASE Aborts(w)
  BY <1>3 DEF Aborts, Deletes, bucket, history
<1>4. QED  BY <1>1, <1>2, <1>3

LEMMA DropEffect ==
  ASSUME JobOK, NEW w \in Workers, Deletes(w)
  PROVE  /\ UNCHANGED stored \/ stored' = stored \ {id[w]}
         /\ UNCHANGED snap \/ \E k \in todo[w] \cap Keys : snap' = [snap EXCEPT ![id[w]][k] = Absent]
  BY DEF Deletes, Drop, JobOK

LEMMA DeletesTyped ==
  ASSUME TypeOK, NEW w \in Workers, Deletes(w), faults' \in Nat
  PROVE  TypeOK'
<1>1. id[w] \in Ids /\ Absent \in Object /\ JobOK /\ snap \in [Ids -> [Keys -> Object]]
  BY DEF TypeOK, JobOK, Absent, Object
<1>2. snap' \in [Ids -> [Keys -> Object]]
  BY <1>1, SnapTyped, DropEffect
<1>3. stored' \subseteq Ids
  BY <1>1, DropEffect DEF TypeOK
<1>4. JobOK'
  BY <1>1, JobMoves DEF Deletes
<1>5. QED  BY <1>2, <1>3, <1>4 DEF TypeOK, Deletes, LiveOK, history

LEMMA TypePreserved ==
  ASSUME TypeOK, [Next]_vars
  PROVE  TypeOK'
<1> USE DEF TypeOK
<1>1. ASSUME NEW k \in Keys, ClientPut(k) PROVE TypeOK'
  <2>1. SetLive(k, Stored(k, latest'[k]), NoWorker)
    BY <1>1 DEF ClientPut
  <2>2. latest' \in [Keys -> Nat]
    BY <1>1 DEF ClientPut
  <2>3. Stored(k, latest'[k]) \in Object
    BY <2>2 DEF Object, Stored
  <2>4. LiveOK'
    BY <2>1, <2>3, SetLiveTyped
  <2>5. QED  BY <1>1, <2>2, <2>4 DEF ClientPut, JobOK, job
<1>2. ASSUME NEW k \in Keys, ClientDelete(k) PROVE TypeOK'
  <2>1. LiveOK'
    BY <1>2, SetLiveTyped DEF ClientDelete, Absent, Object
  <2>2. QED  BY <1>2, <2>1 DEF ClientDelete, JobOK, job
<1>3. ASSUME NEW w \in Workers, BeginCreate(w) PROVE TypeOK'
  <2>1. PICK i \in Ids : used' = used \cup {i} /\ StartJob(w, "create", i, Listed)
    BY <1>3 DEF BeginCreate
  <2>2. JobOK'
    BY <2>1, JobStarts DEF Listed
  <2>3. LiveOK'
    BY <1>3 DEF BeginCreate, LiveOK, Object, Bodies, bucket
  <2>4. QED  BY <1>3, <2>1, <2>2, <2>3 DEF BeginCreate, bucket
<1>4. ASSUME NEW w \in Workers, CreateCopy(w) PROVE TypeOK'
  <2>1. PICK k \in todo[w] : \/ Take(w, k, "head") /\ snap' = [snap EXCEPT ![id[w]][k] = live[k]]
                             \/ Take(w, k, "raised") /\ UNCHANGED snap
    BY <1>4 DEF CreateCopy
  <2>2. k \in Keys /\ id[w] \in Ids
    BY <1>4 DEF CreateCopy, Doing, JobOK
  <2>3. live[k] \in Object
    BY <2>2 DEF LiveOK
  <2>4. snap' \in [Ids -> [Keys -> Object]]
    BY <2>1, <2>2, <2>3, SnapTyped
  <2>5. JobOK'
    BY <2>1, <2>2, JobMoves
  <2>6. QED  BY <1>4, <2>4, <2>5 DEF CreateCopy, LiveOK, history
<1>5. ASSUME NEW w \in Workers, CreateHead(w) PROVE TypeOK'
  <2>1. sums' \in [Ids -> [Keys -> Nat \cup {NotCaptured}]]
    BY <1>5 DEF CreateHead, JobOK, Object
  <2>2. JobOK'
    BY <1>5, JobMoves DEF CreateHead
  <2>3. QED  BY <1>5, <2>1, <2>2 DEF CreateHead, LiveOK, history, bucket
<1>6. ASSUME NEW w \in Workers, CreateFails(w) PROVE TypeOK'
  <2>1. CASE Doing(w, "create", "head") /\ Goto(w, "raised") /\ UNCHANGED snap
    <3>1. JobOK' /\ faults' \in Nat
      BY <1>6, <2>1, JobMoves DEF CreateFails, Fault
    <3>2. QED  BY <1>6, <2>1, <3>1 DEF CreateFails, LiveOK, history
  <2>2. CASE Doing(w, "create", "next")
    <3>1. PICK k \in todo[w] : /\ Take(w, k, "raised")
                               /\ \/ UNCHANGED snap
                                  \/ snap' = [snap EXCEPT ![id[w]][k] = live[k]]
      BY <1>6, <2>2 DEF CreateFails, Doing
    <3>2. k \in Keys /\ id[w] \in Ids
      BY <2>2 DEF Doing, JobOK
    <3>3. live[k] \in Object
      BY <3>2 DEF LiveOK
    <3>4. snap' \in [Ids -> [Keys -> Object]]
      BY <3>1, <3>2, <3>3, SnapTyped
    <3>5. JobOK' /\ faults' \in Nat
      BY <1>6, <3>1, <3>2, JobMoves DEF CreateFails, Fault
    <3>6. QED  BY <1>6, <3>4, <3>5 DEF CreateFails, LiveOK, history
  <2>3. QED  BY <1>6, <2>1, <2>2 DEF CreateFails
<1>7. ASSUME NEW w \in Workers, CreateCommit(w) PROVE TypeOK'
  <2>1. JobOK' /\ id[w] \in Ids
    BY <1>7, JobMoves DEF CreateCommit, JobOK
  <2>2. QED  BY <1>7, <2>1 DEF CreateCommit, LiveOK, history
<1>8. ASSUME NEW w \in Workers, CommitFails(w) PROVE TypeOK'
  <2>1. JobOK' /\ id[w] \in Ids /\ faults' \in Nat
    BY <1>8, JobMoves DEF CommitFails, JobOK, Fault
  <2>2. QED  BY <1>8, <2>1 DEF CommitFails, LiveOK, history
<1>9. ASSUME NEW w \in Workers, BeginRestore(w) PROVE TypeOK'
  <2>1. PICK i \in Ids : StartJob(w, "restore", i, Captured(i)) \/ StartRaised(w, "restore", i)
    BY <1>9 DEF BeginRestore, Known
  <2>2. JobOK'
    BY <2>1, JobStarts, JobMoves DEF Captured
  <2>3. LiveOK'
    BY <1>9 DEF BeginRestore, LiveOK, bucket
  <2>4. QED  BY <1>9, <2>2, <2>3 DEF BeginRestore, bucket
<1>10. ASSUME NEW w \in Workers, GetFails(w) PROVE TypeOK'
  <2>1. JobOK' /\ faults' \in Nat
    BY <1>10, JobMoves DEF GetFails, Known, Fault
  <2>2. QED  BY <1>10, <2>1 DEF GetFails, LiveOK, history, bucket
<1>11. ASSUME NEW w \in Workers, RestoreCopy(w) PROVE TypeOK'
  <2>1. PICK k \in todo[w] :
          \/ SetLive(k, snap[id[w]][k], w) /\ Take(w, k, "head")
          \/ TakeFailed(w, k) /\ UNCHANGED <<live, moments, touched>>
    BY <1>11 DEF RestoreCopy
  <2>2. k \in Keys /\ id[w] \in Ids
    BY <1>11 DEF RestoreCopy, Doing, JobOK
  <2>3. snap[id[w]][k] \in Object
    BY <2>2
  <2>4. LiveOK'
    BY <2>1, <2>2, <2>3, SetLiveTyped DEF LiveOK
  <2>5. JobOK'
    BY <2>1, <2>2, JobMoves
  <2>6. QED  BY <1>11, <2>4, <2>5 DEF RestoreCopy
<1>12. ASSUME NEW w \in Workers, RestoreHead(w) PROVE TypeOK'
  <2>1. JobOK'
    BY <1>12, JobMoves DEF RestoreHead
  <2>2. QED  BY <1>12, <2>1 DEF RestoreHead, LiveOK, history, bucket
<1>13. ASSUME NEW w \in Workers, RestoreFails(w) PROVE TypeOK'
  <2>1. CASE Doing(w, "restore", "head") /\ Report(w, "failed") /\ UNCHANGED <<live, moments, touched>>
    <3>1. JobOK' /\ faults' \in Nat
      BY <1>13, <2>1, JobMoves DEF RestoreFails, Fault
    <3>2. QED  BY <1>13, <2>1, <3>1 DEF RestoreFails, LiveOK
  <2>2. CASE Doing(w, "restore", "next")
    <3>1. PICK k \in todo[w] : /\ TakeFailed(w, k)
                               /\ \/ UNCHANGED <<live, moments, touched>>
                                  \/ SetLive(k, snap[id[w]][k], w)
      BY <1>13, <2>2 DEF RestoreFails, Doing
    <3>2. k \in Keys /\ id[w] \in Ids
      BY <2>2 DEF Doing, JobOK
    <3>3. snap[id[w]][k] \in Object
      BY <3>2
    <3>4. LiveOK'
      BY <3>1, <3>2, <3>3, SetLiveTyped DEF LiveOK
    <3>5. JobOK' /\ faults' \in Nat
      BY <1>13, <3>1, <3>2, JobMoves DEF RestoreFails, Fault
    <3>6. QED  BY <1>13, <3>4, <3>5 DEF RestoreFails
  <2>3. QED  BY <1>13, <2>1, <2>2 DEF RestoreFails
<1>14. ASSUME NEW w \in Workers, BeginDelete(w) PROVE TypeOK'
  <2>1. PICK i \in Ids : StartJob(w, "delete", i, UnderPrefix(i)) /\ doomed' = doomed \cup {i}
    BY <1>14 DEF BeginDelete, Known
  <2>2. JobOK'
    BY <2>1, JobStarts DEF UnderPrefix
  <2>3. LiveOK'
    BY <1>14 DEF BeginDelete, LiveOK, bucket
  <2>4. QED  BY <1>14, <2>1, <2>2, <2>3 DEF BeginDelete, bucket
<1>15. ASSUME NEW w \in Workers, DeleteOne(w) PROVE TypeOK'
  <2>1. Deletes(w)
    BY <1>15 DEF DeleteOne, Deletes
  <2>2. QED  BY <1>15, <2>1, DeletesTyped DEF DeleteOne
<1>16. ASSUME NEW w \in Workers, DeleteOneFails(w) PROVE TypeOK'
  <2>1. faults' \in Nat
    BY <1>16 DEF DeleteOneFails, Fault
  <2>2. CASE Deletes(w)
    BY <2>1, <2>2, DeletesTyped
  <2>3. CASE ~Deletes(w)
    <3>1. UNCHANGED <<snap, stored>>
      BY <1>16, <2>3, MadeOrNot
    <3>2. JobOK'
      BY <1>16, JobMoves DEF DeleteOneFails
    <3>3. QED  BY <1>16, <2>1, <3>1, <3>2 DEF DeleteOneFails, LiveOK, history
  <2>4. QED  BY <2>2, <2>3
<1>17. ASSUME NEW w \in Workers, Aborts(w) PROVE TypeOK'
  <2>1. faults' \in Nat /\ JobOK' /\ UNCHANGED <<sums, latest, used, doomed>>
    BY <1>17, JobMoves DEF Aborts, Fault
  <2>2. CASE Deletes(w)
    BY <2>1, <2>2, DeletesTyped
  <2>3. CASE ~Deletes(w)
    <3>1. UNCHANGED <<snap, stored>>
      BY <1>17, <2>3, MadeOrNot
    <3>2. LiveOK'
      BY <1>17, SetLiveTyped DEF Aborts, bucket, LiveOK, JobOK, Doing
    <3>3. QED  BY <2>1, <3>1, <3>2
  <2>4. QED  BY <2>2, <2>3
<1>18. ASSUME NEW w \in Workers, Finish(w) PROVE TypeOK'
  <2>1. JobOK'
    BY <1>18, JobMoves DEF Finish
  <2>2. QED  BY <1>18, <2>1 DEF Finish, LiveOK, history, bucket
<1>19. ASSUME NEW w \in Workers, Collect(w) PROVE TypeOK'
  <2>1. JobOK'
    BY <1>19, SomeIdAndKey DEF Collect, JobOK, NotReported
  <2>2. LiveOK'
    BY <1>19 DEF Collect, LiveOK, bucket
  <2>3. QED  BY <1>19, <2>1, <2>2 DEF Collect, bucket
<1>20. CASE UNCHANGED vars
  BY <1>20 DEF vars, bucket, job, history, JobOK, LiveOK
<1>21. QED
  BY <1>1, <1>2, <1>3, <1>4, <1>5, <1>6, <1>7, <1>8, <1>9, <1>10, <1>11, <1>12, <1>13,
     <1>14, <1>15, <1>16, <1>17, <1>18, <1>19, <1>20 DEF Next, Client, Create, Restore, Delete

-----------------------------------------------------------------------------
\* A step of w leaves the calls of all other threads where they are.
Others(w) == \A v \in Workers \ {w} :
  /\ op'[v] = op[v] /\ pc'[v] = pc[v] /\ id'[v] = id[v]
  /\ todo'[v] = todo[v] /\ key'[v] = key[v] /\ report'[v] = report[v]

LEMMA OthersStay ==
  ASSUME JobOK, NEW w \in Workers
  PROVE  /\ \A k, where : Take(w, k, where) => Others(w)
         /\ \A k : TakeFailed(w, k) => Others(w)
         /\ \A x : Strike(w, x) => Others(w)
         /\ \A where : Goto(w, where) => Others(w)
         /\ \A result : Report(w, result) => Others(w)
         /\ \A method, i : StartRaised(w, method, i) => Others(w)
         /\ \A method, i, listing : StartJob(w, method, i, listing) => Others(w)
  BY DEF JobOK, Others, Take, TakeFailed, Strike, Goto, Report, StartRaised, StartJob

Settled == <<snap, stored, sums, used, doomed>>

\* The bucket's snapshots and all calls are left alone: nothing to show.
LEMMA NothingMoves ==
  ASSUME Commitment, UNCHANGED <<Settled, job>>
  PROVE  Commitment'
  BY DEF Commitment, Settled, job, Captured, Creating, CopiesBehind, DeletesDoomed, IdsApart,
         ListedIsComplete, Copied, Doing

\* A call moves that is not a create about to go on, and touches no snapshot.
LEMMA QuietMove ==
  ASSUME Commitment, NEW w \in Workers, Others(w), UNCHANGED Settled,
         ~Creating(w)', DeletesDoomed(w)'
  PROVE  Commitment'
<1> USE DEF Settled, Others
<1>1. stored' \subseteq used' /\ doomed' \subseteq used' /\ \A i \in Ids \ used' : Captured(i)' = {}
  BY DEF Commitment, Captured
<1>2. \A v \in Workers : Creating(v)' => v # w /\ Creating(v) /\ CopiesBehind(v)'
  BY DEF Commitment, Creating, CopiesBehind, Captured, Copied
<1>3. \A v \in Workers : DeletesDoomed(v)'
  BY DEF Commitment, DeletesDoomed, Doing
<1>4. IdsApart'
  BY <1>2 DEF Commitment, IdsApart
<1>5. ListedIsComplete'
  BY DEF Commitment, ListedIsComplete, Captured
<1>6. QED  BY <1>1, <1>2, <1>3, <1>4, <1>5 DEF Commitment

\* A create moves on, having touched only its own snapshot and only keys that are
\* not in its manifest.
LEMMA CreateMove ==
  ASSUME TypeOK, Commitment, NEW w \in Workers, Others(w), Creating(w),
         UNCHANGED <<stored, used, doomed, op, id>>,
         \A i \in Ids, k \in Keys : i # id[w] \/ k \in Captured(i)
            => snap'[i][k] = snap[i][k] /\ sums'[i][k] = sums[i][k],
         Creating(w)' => CopiesBehind(w)'
  PROVE  Commitment'
<1> USE DEF Others
<1>1. id[w] \in used \ (stored \cup doomed) /\ \A v \in Workers : id[v] \in Ids
  BY DEF Commitment, CopiesBehind, TypeOK, JobOK
<1>2. \A i \in Ids : i # id[w] => Captured(i)' = Captured(i) /\ \A k \in Captured(i) : Copied(i, k) = Copied(i, k)'
  BY DEF Captured, Copied
<1>3. stored' \subseteq used' /\ doomed' \subseteq used' /\ \A i \in Ids \ used' : Captured(i)' = {}
  BY <1>1, <1>2 DEF Commitment
<1>4. \A v \in Workers \ {w} : Creating(v)' => CopiesBehind(v)'
  <2>1. SUFFICES ASSUME NEW v \in Workers \ {w}, Creating(v)' PROVE CopiesBehind(v)'
    OBVIOUS
  <2>2. Creating(v) /\ id[v] # id[w] /\ CopiesBehind(v) /\ id'[v] = id[v]
    BY <2>1 DEF Creating, Commitment, IdsApart
  <2>3. Captured(id[v])' = Captured(id[v]) /\ \A k \in Keys : snap'[id[v]][k] = snap[id[v]][k] /\ sums'[id[v]][k] = sums[id[v]][k]
    BY <1>1, <1>2, <2>2
  <2>4. key[v] \in Keys
    BY DEF TypeOK, JobOK
  <2>5. QED  BY <2>2, <2>3, <2>4 DEF CopiesBehind, Captured, Copied
<1>5. \A v \in Workers : DeletesDoomed(v)'
  BY DEF Commitment, DeletesDoomed, Doing, Creating
<1>6. IdsApart'
  BY DEF Commitment, IdsApart, Creating
<1>7. ListedIsComplete'
  <2>1. \A i \in stored \ doomed : i \in Ids /\ i # id[w]
    BY <1>1 DEF TypeOK
  <2>2. QED  BY <1>2, <2>1 DEF Commitment, ListedIsComplete, Captured
<1>8. QED  BY <1>3, <1>4, <1>5, <1>6, <1>7 DEF Commitment

LEMMA CommitPreserved ==
  ASSUME TypeOK, Commitment, [Next]_vars
  PROVE  Commitment'
<1> USE OthersStay, TypeOK, Commitment DEF Doing, Creating
<1>1. ASSUME NEW k \in Keys, ClientPut(k) \/ ClientDelete(k) PROVE Commitment'
  BY <1>1, NothingMoves DEF ClientPut, ClientDelete, Settled
<1>2. ASSUME NEW w \in Workers, CreateCopy(w) PROVE Commitment'
  <2>1. PICK k \in todo[w] :
          \/ Take(w, k, "head") /\ live[k].body # 0 /\ snap' = [snap EXCEPT ![id[w]][k] = live[k]]
          \/ Take(w, k, "raised") /\ UNCHANGED snap
    BY <1>2 DEF CreateCopy
  <2>2. /\ UNCHANGED <<stored, sums, used, doomed, op, id>> /\ Others(w) /\ Creating(w)
        /\ CopiesBehind(w) /\ k \in Keys /\ id[w] \in Ids /\ w \in Workers
    BY <1>2, <2>1 DEF CreateCopy, Take, history, TypeOK, JobOK, Commitment
  <2>3. \A i \in Ids, x \in Keys : i # id[w] \/ x \in Captured(i)
            => snap'[i][x] = snap[i][x] /\ sums'[i][x] = sums[i][x]
    BY <2>1, <2>2 DEF CopiesBehind, TypeOK
  <2>4. Creating(w)' => CopiesBehind(w)'
    <3>1. HAVE Creating(w)'
    <3>2. pc'[w] = "head" /\ key'[w] = k /\ todo'[w] = todo[w] \ {k}
      BY <2>1, <2>2, <3>1 DEF Take, TypeOK, JobOK
    <3>3. Take(w, k, "head")
      BY <2>1, <2>2, <3>2 DEF Take, TypeOK, JobOK
    <3>4. snap'[id[w]][k].body # 0 \/ pc'[w] # "head"
      BY <2>1, <2>2, <3>2 DEF Take, TypeOK, JobOK
    <3>5. Captured(id[w])' = Captured(id[w])
      BY <2>2 DEF Captured
    <3>6. QED  BY <2>2, <2>3, <3>2, <3>4, <3>5 DEF CopiesBehind, Copied, Captured
  <2>5. QED  BY <2>2, <2>3, <2>4, CreateMove
<1>3. ASSUME NEW w \in Workers, CreateHead(w) PROVE Commitment'
  <2>1. /\ UNCHANGED <<snap, stored, used, doomed, op, id, todo, key>> /\ Others(w) /\ Creating(w)
        /\ CopiesBehind(w) /\ id[w] \in Ids /\ key[w] \in Keys /\ pc'[w] = "next"
        /\ pc[w] = "head"
    BY <1>3 DEF CreateHead, Goto, history, bucket, TypeOK, JobOK, Commitment
  <2>2. sums' = [sums EXCEPT ![id[w]][key[w]] = snap[id[w]][key[w]].sha]
    BY <1>3 DEF CreateHead
  <2>3. /\ \A i \in Ids, k \in Keys : i # id[w] \/ k # key[w] => sums'[i][k] = sums[i][k]
        /\ sums'[id[w]][key[w]] = snap[id[w]][key[w]].sha
    BY <2>1, <2>2 DEF TypeOK
  <2>4. \A k \in Captured(id[w])' : k = key[w] \/ k \in Captured(id[w])
    BY <2>1, <2>3 DEF Captured
  <2>5. \A i \in Ids, k \in Keys : i # id[w] \/ k \in Captured(i)
            => snap'[i][k] = snap[i][k] /\ sums'[i][k] = sums[i][k]
    BY <2>1, <2>3 DEF CopiesBehind, Copied
  <2>6. CopiesBehind(w)'
    BY <2>1, <2>3, <2>4, <2>5 DEF CopiesBehind, Copied, Captured
  <2>7. QED  BY <2>1, <2>5, <2>6, CreateMove
<1>4. ASSUME NEW w \in Workers, CreateFails(w) PROVE Commitment'
  <2>1. /\ UNCHANGED <<stored, sums, used, doomed, op, id>> /\ Others(w) /\ Creating(w)
        /\ CopiesBehind(w) /\ id[w] \in Ids /\ pc'[w] = "raised"
    BY <1>4 DEF CreateFails, Take, Goto, history, TypeOK, JobOK, Commitment
  <2>2. \/ UNCHANGED snap
        \/ \E k \in todo[w] : snap' = [snap EXCEPT ![id[w]][k] = live[k]]
    BY <1>4 DEF CreateFails
  <2>3. \A i \in Ids, x \in Keys : i # id[w] \/ x \in Captured(i) => snap'[i][x] = snap[i][x]
    <3>1. CASE UNCHANGED snap
      BY <3>1
    <3>2. ASSUME NEW k \in todo[w], snap' = [snap EXCEPT ![id[w]][k] = live[k]]
          PROVE  \A i \in Ids, x \in Keys : i # id[w] \/ x \in Captured(i) => snap'[i][x] = snap[i][x]
      BY <2>1, <3>2 DEF CopiesBehind, TypeOK
    <3>3. QED  BY <2>2, <3>1, <3>2
  <2>4. QED  BY <2>1, <2>3, CreateMove
<1>5. ASSUME NEW w \in Workers, CreateCommit(w) \/ CommitFails(w) PROVE Commitment'
  <2>1. /\ UNCHANGED <<snap, sums, used, doomed, op, id>> /\ Others(w) /\ Creating(w)
        /\ CopiesBehind(w) /\ id[w] \in Ids /\ todo[w] = {} /\ pc'[w] \in {"done", "raised"}
        /\ stored \subseteq stored' /\ stored' \subseteq stored \cup {id[w]}
    BY <1>5 DEF CreateCommit, CommitFails, ReadyToCommit, Goto, history, TypeOK, JobOK, Commitment
  <2>2. \A i \in Ids : Captured(i)' = Captured(i)
    BY <2>1 DEF Captured
  <2>3. stored' \subseteq used' /\ doomed' \subseteq used' /\ \A i \in Ids \ used' : Captured(i)' = {}
    BY <2>1, <2>2 DEF Commitment, CopiesBehind
  <2>4. \A v \in Workers : Creating(v)' => Creating(v) /\ v # w /\ id[v] # id[w] /\ CopiesBehind(v)
    BY <2>1 DEF Others, Commitment, IdsApart
  <2>5. \A v \in Workers : Creating(v)' => CopiesBehind(v)'
    BY <2>1, <2>4 DEF Others, CopiesBehind, Captured, Copied
  <2>6. (\A v \in Workers : DeletesDoomed(v)') /\ IdsApart'
    BY <2>1, <2>4 DEF Others, Commitment, DeletesDoomed, IdsApart
  <2>7. ListedIsComplete'
    BY <2>1, <2>2 DEF Commitment, ListedIsComplete, CopiesBehind, Copied, Captured
  <2>8. QED  BY <2>3, <2>5, <2>6, <2>7 DEF Commitment
<1>6. ASSUME NEW w \in Workers, BeginCreate(w) PROVE Commitment'
  <2>1. PICK i \in Ids \ used : used' = used \cup {i} /\ StartJob(w, "create", i, Listed)
    BY <1>6 DEF BeginCreate
  <2>2. /\ UNCHANGED <<snap, stored, sums, doomed>> /\ Others(w) /\ i \notin stored \cup doomed
        /\ op'[w] = "create" /\ pc'[w] = "next" /\ id'[w] = i
    BY <1>6, <2>1 DEF BeginCreate, StartJob, bucket, TypeOK, JobOK, Commitment
  <2>3. \A j \in Ids : Captured(j)' = Captured(j)
    BY <2>2 DEF Captured
  <2>4. stored' \subseteq used' /\ doomed' \subseteq used' /\ \A j \in Ids \ used' : Captured(j)' = {}
    BY <2>1, <2>2, <2>3 DEF Commitment
  <2>5. CopiesBehind(w)'
    BY <2>1, <2>2, <2>3 DEF CopiesBehind, Commitment
  <2>6. \A v \in Workers \ {w} : Creating(v)' => Creating(v) /\ id'[v] = id[v] /\ id[v] \in used /\ CopiesBehind(v)
    BY <2>2 DEF Others, Commitment, CopiesBehind
  <2>7. \A v \in Workers \ {w} : Creating(v)' => CopiesBehind(v)'
    BY <2>1, <2>2, <2>6 DEF Others, CopiesBehind, Captured, Copied
  <2>8. IdsApart'
    BY <2>1, <2>2, <2>6 DEF Commitment, IdsApart
  <2>9. \A v \in Workers : DeletesDoomed(v)'
    BY <2>2 DEF Others, Commitment, DeletesDoomed
  <2>10. ListedIsComplete'
    BY <2>2, <2>3 DEF Commitment, ListedIsComplete, Captured
  <2>11. QED  BY <2>4, <2>5, <2>7, <2>8, <2>9, <2>10 DEF Commitment
<1>7. ASSUME NEW w \in Workers, BeginDelete(w) PROVE Commitment'
  <2>1. PICK i \in Known : StartJob(w, "delete", i, UnderPrefix(i)) /\ doomed' = doomed \cup {i}
    BY <1>7 DEF BeginDelete
  <2>2. /\ UNCHANGED <<snap, stored, sums, used>> /\ Others(w) /\ i \in stored \cup doomed
        /\ op'[w] = "delete" /\ id'[w] = i
    BY <1>7, <2>1 DEF BeginDelete, StartJob, bucket, Known, TypeOK, JobOK
  <2>3. stored' \subseteq used' /\ doomed' \subseteq used' /\ \A j \in Ids \ used' : Captured(j)' = {}
    BY <2>1, <2>2 DEF Commitment, Captured
  <2>4. \A v \in Workers : Creating(v)' => v # w /\ Creating(v) /\ id[v] # i /\ CopiesBehind(v)
    BY <2>2 DEF Others, Commitment, CopiesBehind
  <2>5. \A v \in Workers : Creating(v)' => CopiesBehind(v)'
    BY <2>1, <2>2, <2>4 DEF Others, CopiesBehind, Captured, Copied
  <2>6. (\A v \in Workers : DeletesDoomed(v)') /\ IdsApart'
    BY <2>1, <2>2, <2>4 DEF Others, Commitment, DeletesDoomed, IdsApart
  <2>7. ListedIsComplete'
    BY <2>1, <2>2 DEF Commitment, ListedIsComplete, Captured
  <2>8. QED  BY <2>3, <2>5, <2>6, <2>7 DEF Commitment
<1>8. ASSUME NEW w \in Workers, Deletes(w) PROVE Commitment'
  <2>1. /\ UNCHANGED <<sums, used, doomed, op, id>> /\ Others(w) /\ id[w] \in Ids
        /\ id[w] \in doomed /\ op[w] = "delete"
    BY <1>8, OthersStay DEF Deletes, Strike, Goto, history, TypeOK, JobOK, Commitment, DeletesDoomed
  <2>10. /\ stored' \subseteq stored /\ \A i \in stored \ doomed : i \in stored'
         /\ UNCHANGED snap \/ \E k \in todo[w] \cap Keys : snap' = [snap EXCEPT ![id[w]][k] = Absent]
    BY <1>8, <2>1, DropEffect DEF TypeOK
  <2>2. \A i \in Ids \ doomed, k \in Keys : snap'[i][k] = snap[i][k]
    BY <2>1, <2>10 DEF TypeOK
  <2>3. \A i \in Ids : Captured(i)' = Captured(i)
    BY <2>1 DEF Captured
  <2>4. stored' \subseteq used' /\ doomed' \subseteq used' /\ \A i \in Ids \ used' : Captured(i)' = {}
    BY <2>1, <2>3, <2>10 DEF Commitment
  <2>5. \A v \in Workers : Creating(v)' => /\ v # w /\ Creating(v) /\ CopiesBehind(v)
                                          /\ id[v] \in Ids \ doomed /\ key[v] \in Keys
    BY <2>1 DEF Others, Commitment, CopiesBehind, TypeOK, JobOK
  <2>6. \A v \in Workers : Creating(v)' => CopiesBehind(v)'
    BY <2>1, <2>2, <2>5, <2>10 DEF Others, CopiesBehind, Captured, Copied
  <2>7. (\A v \in Workers : DeletesDoomed(v)') /\ IdsApart'
    BY <2>1, <2>5 DEF Others, Commitment, DeletesDoomed, IdsApart
  <2>8. ListedIsComplete'
    BY <2>1, <2>2, <2>10 DEF Commitment, ListedIsComplete, Captured, TypeOK
  <2>9. QED  BY <2>4, <2>6, <2>7, <2>8 DEF Commitment
<1>9. ASSUME NEW w \in Workers,
             \/ BeginRestore(w) \/ GetFails(w) \/ RestoreCopy(w) \/ RestoreHead(w) \/ RestoreFails(w)
             \/ DeleteOne(w) \/ DeleteOneFails(w) \/ Aborts(w) \/ Finish(w) \/ Collect(w),
             ~Deletes(w)
      PROVE  Commitment'
  <2>1. UNCHANGED Settled
    <3>1. CASE DeleteOne(w) \/ DeleteOneFails(w) \/ Aborts(w)
      BY <1>9, <3>1, MadeOrNot DEF DeleteOne, DeleteOneFails, Aborts, Settled, bucket, history
    <3>2. CASE ~(DeleteOne(w) \/ DeleteOneFails(w) \/ Aborts(w))
      BY <1>9, <3>2 DEF BeginRestore, GetFails, RestoreCopy, RestoreHead, RestoreFails,
         Finish, Collect, Settled, bucket, history
    <3>3. QED  BY <3>1, <3>2
  <2>2. Others(w)
    <3>1. CASE Collect(w)
      BY <3>1 DEF Collect, Others, TypeOK, JobOK
    <3>2. CASE ~Collect(w)
      BY <1>9, <3>2, OthersStay DEF BeginRestore, GetFails, RestoreCopy, RestoreHead, RestoreFails,
         DeleteOne, DeleteOneFails, Aborts, Finish, TypeOK
    <3>3. QED  BY <3>1, <3>2
  <2>3. ~Creating(w)'
    BY <1>9 DEF BeginRestore, GetFails, RestoreCopy, RestoreHead, RestoreFails, DeleteOne, DeleteOneFails,
       Aborts, Finish, Collect, StartJob, StartRaised, Take, TakeFailed, Report, Strike, Goto, Doing,
       Creating, TypeOK, JobOK
  <2>4. DeletesDoomed(w)'
    BY <1>9, <2>1 DEF BeginRestore, GetFails, RestoreCopy, RestoreHead, RestoreFails, DeleteOne, DeleteOneFails,
       Aborts, Finish, Collect, StartJob, StartRaised, Take, TakeFailed, Report, Strike, Goto, Doing,
       TypeOK, JobOK, DeletesDoomed, Settled, Commitment
  <2>5. QED  BY <2>1, <2>2, <2>3, <2>4, QuietMove
<1>10. CASE UNCHANGED vars
  BY <1>10, NothingMoves DEF vars, bucket, history, Settled
<1>11. QED
  BY <1>1, <1>2, <1>3, <1>4, <1>5, <1>6, <1>7, <1>8, <1>9, <1>10
     DEF Next, Client, Create, Restore, Delete

-----------------------------------------------------------------------------
\* Type correctness of the snapshot service.
THEOREM TypeCorrect == Spec => []TypeOK
<1>1. Init => TypeOK
  BY InitInvariant DEF CommitInvariant
<1>2. TypeOK /\ [Next]_vars => TypeOK'
  BY TypePreserved
<1>3. QED  BY <1>1, <1>2, PTL DEF Spec

\* The manifest is a commit point: whatever fails and whoever else creates, restores
\* and deletes, a listed snapshot nobody has begun to delete is complete.
THEOREM ListedIsAlwaysComplete == Spec => []ListedIsComplete
<1>1. Init => CommitInvariant
  BY InitInvariant
<1>2. CommitInvariant /\ [Next]_vars => CommitInvariant'
  BY TypePreserved, CommitPreserved DEF CommitInvariant
<1>3. CommitInvariant => ListedIsComplete
  BY DEF CommitInvariant, Commitment
<1>4. QED  BY <1>1, <1>2, <1>3, PTL DEF Spec

-----------------------------------------------------------------------------
\* The ledger moves at one id at most.
Elsewhere(i) == \A j \in Ids \ {i} : StateOf(j)' = StateOf(j) /\ ContentOf(j)' = ContentOf(j)

\* A step that touches no snapshot a reader could be reading.
LEMMA NoSnapshotMoves ==
  ASSUME UNCHANGED <<stored, doomed>>,
         \A i \in Ids : i \in stored \ doomed => snap'[i] = snap[i] /\ sums'[i] = sums[i]
  PROVE  UNCHANGED Ledger!vars
<1>1. \A i \in Ids : StateOf(i)' = StateOf(i)
  BY DEF StateOf
<1>2. \A i \in Ids : ContentOf(i)' = ContentOf(i)
  <2>1. SUFFICES ASSUME NEW i \in Ids PROVE ContentOf(i)' = ContentOf(i)
    OBVIOUS
  <2>2. CASE StateOf(i) = "published"
    <3>1. snap'[i] = snap[i] /\ sums'[i] = sums[i]
      BY <2>2 DEF StateOf
    <3>2. Captured(i)' = Captured(i)
      BY <3>1 DEF Captured
    <3>3. Promised(i)' = Promised(i)
      BY <3>1, <3>2 DEF Promised
    <3>4. QED  BY <1>1, <2>2, <3>3 DEF ContentOf
  <2>3. CASE StateOf(i) # "published"
    BY <1>1, <2>3 DEF ContentOf
  <2>4. QED  BY <2>2, <2>3
<1>3. QED  BY <1>1, <1>2 DEF Ledger!vars

\* One id moves from one state to another.
LEMMA OneIdMoves ==
  ASSUME NEW i \in Ids, NEW from, NEW to, Elsewhere(i),
         StateOf(i) = from, StateOf(i)' = to
  PROVE  Ledger!Moves(i, from, to)
  BY DEF Elsewhere, Ledger!Moves

\* Writing the manifest publishes, at the first time and with every copy there.
LEMMA CommitPublishes ==
  ASSUME CommitInvariant, NEW w \in Workers, Creating(w), NEW i \in Ids, id[w] = i,
         stored' \in {stored, stored \cup {i}}, UNCHANGED <<snap, sums, doomed>>
  PROVE  [Ledger!Next]_(Ledger!vars)
<1>1. i \in Ids /\ i \notin stored \cup doomed /\ \A k \in Captured(i) : Copied(i, k)
  BY DEF CommitInvariant, Commitment, CopiesBehind, TypeOK, JobOK
<1>2. CASE stored' = stored
  BY <1>2, NoSnapshotMoves
<1>3. CASE stored' = stored \cup {i}
  <2>1. Elsewhere(i)
    BY <1>3 DEF Elsewhere, StateOf, ContentOf, Promised, Captured
  <2>2. StateOf(i) = "unseen" /\ StateOf(i)' = "published"
    BY <1>1, <1>3 DEF StateOf
  <2>3. Ledger!Moves(i, "unseen", "published")
    BY <1>1, <2>1, <2>2, OneIdMoves DEF StateOf
  <2>4. Captured(i)' = Captured(i)
    BY DEF Captured
  <2>5. ContentOf(i)' = [k \in Captured(i) |-> snap[i][k].body]
    BY <2>2, <2>4 DEF ContentOf, Promised
  <2>6. \A k \in DOMAIN ContentOf(i)' : ContentOf(i)'[k] # 0
    BY <1>1, <2>5 DEF Copied
  <2>7. Ledger!Publish(i)
    BY <1>1, <2>3, <2>6 DEF Ledger!Publish
  <2>8. QED  BY <1>1, <2>7 DEF Ledger!Next
<1>4. QED  BY <1>2, <1>3

\* Beginning to delete gives up, at the first time.
LEMMA DeleteGivesUp ==
  ASSUME NEW i \in Ids, i \in stored \cup doomed,
         doomed' = doomed \cup {i}, UNCHANGED <<snap, stored, sums>>
  PROVE  [Ledger!Next]_(Ledger!vars)
<1>1. CASE i \in doomed
  <2>1. doomed' = doomed
    BY <1>1
  <2>2. QED  BY <2>1, NoSnapshotMoves
<1>2. CASE i \notin doomed
  <2>1. Elsewhere(i)
    BY DEF Elsewhere, StateOf, ContentOf, Promised, Captured
  <2>2. StateOf(i) = "published" /\ StateOf(i)' = "given up"
    BY <1>2 DEF StateOf
  <2>3. Ledger!Moves(i, "published", "given up")
    BY <2>1, <2>2, OneIdMoves DEF StateOf
  <2>4. ContentOf(i)' = [k \in {} |-> 0]
    BY <2>2 DEF ContentOf
  <2>5. Ledger!GiveUp(i)
    BY <2>3, <2>4 DEF Ledger!GiveUp, Ledger!Nothing
  <2>6. QED  BY <2>5 DEF Ledger!Next
<1>3. QED  BY <1>1, <1>2

LEMMA StepKeepsLedger ==
  ASSUME CommitInvariant, [Next]_vars
  PROVE  [Ledger!Next]_(Ledger!vars)
<1> USE DEF CommitInvariant
<1>1. ASSUME NEW w \in Workers, CreateCopy(w) \/ CreateFails(w) PROVE UNCHANGED Ledger!vars
  <2>1. /\ UNCHANGED <<stored, doomed, sums>> /\ id[w] \in Ids /\ id[w] \notin stored
        /\ \/ UNCHANGED snap
           \/ \E k \in todo[w] : snap' = [snap EXCEPT ![id[w]][k] = live[k]]
    BY <1>1 DEF CreateCopy, CreateFails, history, Doing, Creating, Commitment, CopiesBehind, TypeOK, JobOK
  <2>2. \A i \in Ids : i \in stored => snap'[i] = snap[i]
    BY <2>1 DEF TypeOK
  <2>3. QED  BY <2>1, <2>2, NoSnapshotMoves
<1>2. ASSUME NEW w \in Workers, CreateHead(w) PROVE UNCHANGED Ledger!vars
  <2>1. /\ UNCHANGED <<snap, stored, doomed>> /\ id[w] \in Ids /\ id[w] \notin stored
        /\ sums' = [sums EXCEPT ![id[w]][key[w]] = snap[id[w]][key[w]].sha]
    BY <1>2 DEF CreateHead, bucket, history, Doing, Creating, Commitment, CopiesBehind, TypeOK, JobOK
  <2>2. \A i \in Ids : i \in stored => sums'[i] = sums[i]
    BY <2>1 DEF TypeOK
  <2>3. QED  BY <2>1, <2>2, NoSnapshotMoves
<1>3. ASSUME NEW w \in Workers, CreateCommit(w) \/ CommitFails(w) PROVE [Ledger!Next]_(Ledger!vars)
  <2>1. PICK i \in Ids : id[w] = i
    BY DEF TypeOK, JobOK
  <2>2. /\ Creating(w) /\ UNCHANGED <<snap, sums, doomed>>
        /\ stored' \in {stored, stored \cup {i}}
    BY <1>3, <2>1 DEF CreateCommit, CommitFails, ReadyToCommit, Creating, Doing, history
  <2>3. QED  BY <2>1, <2>2, CommitPublishes
<1>4. ASSUME NEW w \in Workers, BeginDelete(w) PROVE [Ledger!Next]_(Ledger!vars)
  <2>1. PICK i \in Known : doomed' = doomed \cup {i}
    BY <1>4 DEF BeginDelete
  <2>2. i \in Ids /\ i \in stored \cup doomed /\ UNCHANGED <<snap, stored, sums>>
    BY <1>4, <2>1 DEF BeginDelete, Known, bucket, TypeOK
  <2>3. QED  BY <2>1, <2>2, DeleteGivesUp
<1>5. ASSUME NEW w \in Workers, Deletes(w) PROVE UNCHANGED Ledger!vars
  <2>1. id[w] \in doomed /\ id[w] \in Ids /\ UNCHANGED <<sums, doomed>> /\ JobOK
    BY <1>5 DEF Deletes, history, Commitment, DeletesDoomed, TypeOK, JobOK
  <2>4. /\ UNCHANGED stored \/ stored' = stored \ {id[w]}
        /\ UNCHANGED snap \/ \E k \in todo[w] \cap Keys : snap' = [snap EXCEPT ![id[w]][k] = Absent]
    BY <1>5, <2>1, DropEffect
  <2>2. \A i \in Ids : i \notin doomed => snap'[i] = snap[i] /\ (i \in stored' <=> i \in stored)
    BY <2>1, <2>4 DEF TypeOK
  <2>3. \A i \in Ids : StateOf(i)' = StateOf(i) /\ ContentOf(i)' = ContentOf(i)
    <3>1. SUFFICES ASSUME NEW i \in Ids PROVE StateOf(i)' = StateOf(i) /\ ContentOf(i)' = ContentOf(i)
      OBVIOUS
    <3>2. CASE i \in doomed
      BY <2>1, <3>2 DEF StateOf, ContentOf
    <3>3. CASE i \notin doomed
      <4>1. StateOf(i)' = StateOf(i)
        BY <2>1, <2>2, <3>3 DEF StateOf
      <4>2. Captured(i)' = Captured(i)
        BY <2>1 DEF Captured
      <4>3. Promised(i)' = Promised(i)
        BY <2>2, <3>3, <4>2 DEF Promised
      <4>4. QED  BY <4>1, <4>3 DEF ContentOf
    <3>4. QED  BY <3>2, <3>3
  <2>5. QED  BY <2>3 DEF Ledger!vars
<1>6. ASSUME UNCHANGED <<snap, stored, sums, doomed>> PROVE UNCHANGED Ledger!vars
  BY <1>6, NoSnapshotMoves
<1>7. ASSUME NEW k \in Keys, ClientPut(k) \/ ClientDelete(k) PROVE UNCHANGED Ledger!vars
  BY <1>6, <1>7 DEF ClientPut, ClientDelete
<1>8. ASSUME NEW w \in Workers,
             \/ BeginCreate(w) \/ BeginRestore(w) \/ GetFails(w) \/ RestoreCopy(w) \/ RestoreHead(w)
             \/ RestoreFails(w) \/ DeleteOne(w) \/ DeleteOneFails(w) \/ Aborts(w) \/ Finish(w) \/ Collect(w),
             ~Deletes(w)
      PROVE  UNCHANGED Ledger!vars
  <2>1. CASE DeleteOne(w) \/ DeleteOneFails(w) \/ Aborts(w)
    BY <1>6, <1>8, <2>1, MadeOrNot DEF DeleteOne, DeleteOneFails, Aborts, history
  <2>2. CASE ~(DeleteOne(w) \/ DeleteOneFails(w) \/ Aborts(w))
    BY <1>6, <1>8, <2>2 DEF BeginCreate, BeginRestore, GetFails, RestoreCopy, RestoreHead, RestoreFails,
       Finish, Collect, bucket, history
  <2>3. QED  BY <2>1, <2>2
<1>9. CASE UNCHANGED vars
  BY <1>6, <1>9 DEF vars, bucket, history
<1>10. QED
  BY <1>1, <1>2, <1>3, <1>4, <1>5, <1>7, <1>8, <1>9 DEF Next, Client, Create, Restore, Delete

\* The snapshot service implements SnapshotLedger: with any failures, and any threads
\* creating, restoring and deleting, what a listed snapshot holds never changes, and
\* a deleted one is never listed whole again.
THEOREM SnapshotImplementsLedger == Spec => LedgerSpec
<1>1. Init => CommitInvariant
  BY InitInvariant
<1>2. Init => Ledger!Init
  BY DEF Init, Ledger!Init, Ledger!Nothing, StateOf, ContentOf
<1>3. CommitInvariant /\ [Next]_vars => CommitInvariant'
  BY TypePreserved, CommitPreserved DEF CommitInvariant
<1>4. CommitInvariant /\ [Next]_vars => [Ledger!Next]_(Ledger!vars)
  BY StepKeepsLedger
<1>5. QED  BY <1>1, <1>2, <1>3, <1>4, PTL DEF Spec, LedgerSpec, Ledger!Spec

=============================================================================
