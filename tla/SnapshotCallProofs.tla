-------------------------- MODULE SnapshotCallProofs --------------------------
(***************************************************************************)
(* What a create, a restore and a delete have done when they return, for   *)
(* any number of threads that create, restore and delete meanwhile.        *)
(***************************************************************************)
EXTENDS SnapshotProofs

\* An object that is not there has no metadata either.
Proper(object) == object = Absent \/ object.body # 0
AllProper == /\ \A k \in Keys : Proper(live[k])
             /\ \A i \in Ids, k \in Keys : Proper(snap[i][k])

\* A delete that has raised nothing.
Clearing(w) == op[w] = "delete" /\ pc[w] \in {"next", "done"}

\* All that is left of the snapshot is still to be deleted: nobody adds to it.
LeftToDo(w) == /\ id[w] \in doomed
               /\ UnderPrefix(id[w]) \subseteq todo[w]
               /\ pc[w] = "done" => todo[w] = {}

Deletion == faults = 0 => \A w \in Workers : Clearing(w) => LeftToDo(w)

DeletionInvariant == CommitInvariant /\ AllProper /\ Deletion

\* A create that has raised nothing.
Capturing(w) == op[w] = "create" /\ pc[w] \in {"next", "head", "done"}

Seen(w, k) == {m[k] : m \in moments[w]}

\* What is behind it was so at some moment of it.
TakenInWindow(w) ==
  /\ Bodies(live) \in moments[w]
  /\ pc[w] = "done" => todo[w] = {} /\ id[w] \in stored
  /\ \A k \in Keys \ todo[w] :
       IF k \in Captured(id[w]) \/ (pc[w] = "head" /\ k = key[w])
         THEN snap[id[w]][k].body \in Seen(w, k) \ {0}
         ELSE 0 \in Seen(w, k)

Window == \A w \in Workers : Capturing(w) /\ id[w] \notin doomed => TakenInWindow(w)

WindowInvariant == CommitInvariant /\ Window

\* A restore that has raised nothing.
Restoring(w) == op[w] = "restore" /\ pc[w] \in {"next", "head", "done"}

Matches(i, k) == live[k].sha # 0 /\ live[k].sha = sums[i][k]

\* What is behind it is in hand, failed, or as in the manifest unless touched since.
PutBack(w) ==
  /\ id[w] \in stored \cup doomed
  /\ todo[w] \subseteq Captured(id[w])
  /\ pc[w] = "head" => key[w] \in Captured(id[w]) \ todo[w]
  /\ pc[w] = "done" => todo[w] = {}
  /\ \A k \in Captured(id[w]) \ todo[w] :
       \/ pc[w] = "head" /\ k = key[w]
       \/ report[w][k] = "failed"
       \/ k \in touched[w]
       \/ Matches(id[w], k)

\* As long as nothing disturbs it, its report is exact as far as it has got, and the
\* key in hand is the copy's.
Undisturbed(w) == faults = 0 /\ touched[w] = {} /\ id[w] \notin doomed
Reported(w) == Captured(id[w]) \ (todo[w] \cup (IF pc[w] = "head" THEN {key[w]} ELSE {}))
AllWell(w) ==
  /\ \A k \in Keys : report[w][k] = IF k \notin Reported(w) THEN "none"
                                  ELSE IF sums[id[w]][k] = 0 THEN "failed" ELSE "restored"
  /\ pc[w] = "head" => live[key[w]] = snap[id[w]][key[w]]

Restoration == \A w \in Workers :
  /\ pc[w] = "idle" \/ op[w] \in {"create", "delete"} => report[w] = NotReported
  /\ Restoring(w) => PutBack(w)
  /\ Restoring(w) /\ Undisturbed(w) => AllWell(w)

RestoreInvariant == CommitInvariant /\ Restoration

-----------------------------------------------------------------------------
LEMMA OneObjectChanges ==
  ASSUME TypeOK, NEW j \in Ids, NEW x \in Keys, NEW object,
         snap' = [snap EXCEPT ![j][x] = object]
  PROVE  \A i \in Ids, k \in Keys : snap'[i][k] = snap[i][k] \/ snap'[i][k] = object
<1>1. snap' = [i \in Ids |-> IF i = j THEN [snap[j] EXCEPT ![x] = object] ELSE snap[i]]
  BY DEF TypeOK
<1>2. [snap[j] EXCEPT ![x] = object] = [k \in Keys |-> IF k = x THEN object ELSE snap[j][k]]
  BY DEF TypeOK
<1>3. TAKE i \in Ids, k \in Keys
<1>4. CASE i = j
  <2>1. snap'[i] = [y \in Keys |-> IF y = x THEN object ELSE snap[j][y]]
    BY <1>1, <1>2, <1>4
  <2>2. QED  BY <1>4, <2>1
<1>5. CASE i # j
  <2>1. snap'[i] = snap[i]
    BY <1>1, <1>5
  <2>2. QED  BY <2>1
<1>6. QED  BY <1>4, <1>5

\* What a restore, or the request it is cut off in, does to the live objects.
LEMMA WritesBack ==
  ASSUME NEW w \in Workers, RestoreCopy(w) \/ RestoreFails(w) \/ Aborts(w)
  PROVE  \/ UNCHANGED <<live, moments, touched>>
         \/ /\ op[w] = "restore" /\ UNCHANGED snap
            /\ \E k \in todo[w] : SetLive(k, snap[id[w]][k], w)
  BY DEF RestoreCopy, RestoreFails, Aborts, Doing, bucket

LEMMA ProperPreserved ==
  ASSUME TypeOK, AllProper, [Next]_vars
  PROVE  AllProper'
<1>1. ASSUME NEW k \in Keys, NEW object, NEW by, Proper(object), SetLive(k, object, by),
             UNCHANGED snap
      PROVE  AllProper'
  BY <1>1 DEF SetLive, AllProper, TypeOK, LiveOK
<1>2. ASSUME NEW k \in Keys, ClientPut(k) PROVE AllProper'
  <2>1. latest'[k] # 0
    BY <1>2 DEF ClientPut, TypeOK
  <2>2. Proper(Stored(k, latest'[k]))
    BY <2>1 DEF Proper, Stored
  <2>3. QED  BY <1>1, <1>2, <2>2 DEF ClientPut
<1>3. ASSUME NEW k \in Keys, ClientDelete(k) PROVE AllProper'
  BY <1>1, <1>3 DEF ClientDelete, Proper
<1>4. ASSUME NEW w \in Workers, CreateCopy(w) \/ CreateFails(w) PROVE AllProper'
  <2>1. UNCHANGED live /\ id[w] \in Ids /\ (op[w] # "delete" => todo[w] \subseteq Keys) /\ op[w] = "create"
        /\ \/ UNCHANGED snap
           \/ \E k \in todo[w] : snap' = [snap EXCEPT ![id[w]][k] = live[k]]
    BY <1>4 DEF CreateCopy, CreateFails, Doing, TypeOK, JobOK
  <2>2. \A i \in Ids, k \in Keys : snap'[i][k] = snap[i][k] \/ snap'[i][k] = live[k]
    <3>1. CASE UNCHANGED snap
      BY <3>1
    <3>2. ASSUME NEW x \in todo[w], snap' = [snap EXCEPT ![id[w]][x] = live[x]]
          PROVE  \A i \in Ids, k \in Keys : snap'[i][k] = snap[i][k] \/ snap'[i][k] = live[k]
      BY <2>1, <3>2, OneObjectChanges
    <3>3. QED  BY <2>1, <3>1, <3>2
  <2>3. QED  BY <2>1, <2>2 DEF AllProper
<1>5. ASSUME NEW w \in Workers, RestoreCopy(w) \/ RestoreFails(w) \/ Aborts(w), UNCHANGED snap
      PROVE  AllProper'
  <2>1. CASE UNCHANGED <<live, moments, touched>>
    BY <1>5, <2>1 DEF AllProper
  <2>2. CASE /\ op[w] = "restore" /\ UNCHANGED snap
             /\ \E k \in todo[w] : SetLive(k, snap[id[w]][k], w)
    <3>1. id[w] \in Ids /\ todo[w] \subseteq Keys
      BY <2>2 DEF TypeOK, JobOK
    <3>2. QED  BY <1>1, <2>2, <3>1 DEF AllProper
  <2>3. QED  BY <1>5, <2>1, <2>2, WritesBack
<1>6. ASSUME NEW w \in Workers, Deletes(w) PROVE AllProper'
  <2>1. UNCHANGED live /\ id[w] \in Ids
        /\ \/ UNCHANGED snap
           \/ \E k \in Keys : snap' = [snap EXCEPT ![id[w]][k] = Absent]
    BY <1>6, DropEffect DEF Deletes, TypeOK, JobOK
  <2>2. \A i \in Ids, k \in Keys : snap'[i][k] = snap[i][k] \/ snap'[i][k] = Absent
    <3>1. CASE UNCHANGED snap
      BY <3>1
    <3>2. ASSUME NEW x \in Keys, snap' = [snap EXCEPT ![id[w]][x] = Absent]
          PROVE  \A i \in Ids, k \in Keys : snap'[i][k] = snap[i][k] \/ snap'[i][k] = Absent
      BY <2>1, <3>2, OneObjectChanges
    <3>3. QED  BY <2>1, <3>1, <3>2
  <2>3. QED  BY <2>1, <2>2 DEF AllProper, Proper
<1>7. ASSUME UNCHANGED <<live, snap>> PROVE AllProper'
  BY <1>7 DEF AllProper
<1>8. ASSUME NEW w \in Workers,
             \/ BeginCreate(w) \/ CreateHead(w) \/ CreateCommit(w) \/ CommitFails(w)
             \/ BeginRestore(w) \/ GetFails(w) \/ RestoreHead(w)
             \/ BeginDelete(w) \/ Finish(w) \/ Collect(w)
      PROVE  AllProper'
  BY <1>7, <1>8 DEF BeginCreate, CreateHead, CreateCommit, CommitFails, BeginRestore, GetFails,
     RestoreHead, BeginDelete, Finish, Collect, bucket
<1>9. CASE UNCHANGED vars
  BY <1>7, <1>9 DEF vars, bucket
<1>10. ASSUME NEW w \in Workers, DeleteOne(w) \/ DeleteOneFails(w) \/ Aborts(w) PROVE AllProper'
  <2>1. CASE Deletes(w)
    BY <1>6, <2>1
  <2>2. CASE ~Deletes(w)
    <3>1. UNCHANGED snap
      BY <1>10, <2>2, MadeOrNot
    <3>2. CASE Aborts(w)
      BY <1>5, <3>1, <3>2
    <3>3. CASE ~Aborts(w)
      BY <1>7, <1>10, <3>1, <3>3 DEF DeleteOne, DeleteOneFails
    <3>4. QED  BY <3>2, <3>3
  <2>3. QED  BY <2>1, <2>2
<1>11. ASSUME NEW w \in Workers, RestoreCopy(w) \/ RestoreFails(w) PROVE AllProper'
  BY <1>5, <1>11 DEF RestoreCopy, RestoreFails
<1>12. QED
  BY <1>2, <1>3, <1>4, <1>8, <1>9, <1>10, <1>11 DEF Next, Client, Create, Restore, Delete

-----------------------------------------------------------------------------
StepOf(w) == Create(w) \/ Restore(w) \/ Delete(w) \/ Aborts(w) \/ Finish(w) \/ Collect(w)

\* A step of one thread leaves the calls of the others where they are.
LEMMA OneThreadMoves ==
  ASSUME TypeOK, NEW w \in Workers, StepOf(w)
  PROVE  Others(w)
<1>1. CASE Collect(w)
  BY <1>1 DEF Collect, Others, TypeOK, JobOK
<1>2. CASE Create(w)
  BY <1>2, OthersStay DEF Create, BeginCreate, CreateCopy, CreateHead, CreateFails, CreateCommit,
     CommitFails, TypeOK
<1>3. CASE Restore(w)
  BY <1>3, OthersStay DEF Restore, BeginRestore, GetFails, RestoreCopy, RestoreHead, RestoreFails, TypeOK
<1>4. CASE Delete(w) \/ Aborts(w) \/ Finish(w)
  BY <1>4, OthersStay DEF Delete, BeginDelete, DeleteOne, DeleteOneFails, Aborts, Finish, TypeOK
<1>5. QED  BY <1>1, <1>2, <1>3, <1>4 DEF StepOf

\* A thread that creates works on an id no other thread touches.
LEMMA CreatesAlone ==
  ASSUME CommitInvariant, NEW w \in Workers, StepOf(w), NEW v \in Workers \ {w}, Creating(v)
  PROVE  snap'[id[v]] = snap[id[v]] /\ sums'[id[v]] = sums[id[v]]
<1> USE DEF CommitInvariant
<1>1. id[v] \in Ids /\ id[v] \notin doomed /\ id[w] \in Ids /\ (Creating(w) => id[w] # id[v])
  BY DEF Commitment, CopiesBehind, IdsApart, TypeOK, JobOK
<1>2. CASE CreateCopy(w) \/ CreateFails(w) \/ CreateHead(w)
  <2>1. id[w] # id[v]
    BY <1>1, <1>2 DEF CreateCopy, CreateFails, CreateHead, Creating, Doing
  <2>2. UNCHANGED snap \/ \E k \in todo[w] : snap' = [snap EXCEPT ![id[w]][k] = live[k]]
    BY <1>2 DEF CreateCopy, CreateFails, CreateHead, bucket
  <2>3. UNCHANGED sums \/ \E n : sums' = [sums EXCEPT ![id[w]][key[w]] = n]
    BY <1>2 DEF CreateCopy, CreateFails, CreateHead
  <2>4. snap'[id[v]] = snap[id[v]]
    BY <1>1, <2>1, <2>2 DEF TypeOK
  <2>5. sums'[id[v]] = sums[id[v]]
    BY <1>1, <2>1, <2>3 DEF TypeOK
  <2>6. QED  BY <2>4, <2>5
<1>3. CASE Deletes(w)
  <2>1. id[w] # id[v] /\ UNCHANGED sums /\ JobOK
    BY <1>1, <1>3 DEF Deletes, Commitment, DeletesDoomed, TypeOK
  <2>2. UNCHANGED snap \/ \E k \in todo[w] : snap' = [snap EXCEPT ![id[w]][k] = Absent]
    BY <1>3, <2>1, DropEffect
  <2>3. snap'[id[v]] = snap[id[v]]
    BY <1>1, <2>1, <2>2 DEF TypeOK
  <2>4. QED  BY <2>1, <2>3
<1>4. CASE ~(CreateCopy(w) \/ CreateFails(w) \/ CreateHead(w) \/ Deletes(w))
  <2>1. CASE DeleteOne(w) \/ DeleteOneFails(w) \/ Aborts(w)
    BY <1>4, <2>1, MadeOrNot DEF DeleteOne, DeleteOneFails, Aborts
  <2>2. CASE ~(DeleteOne(w) \/ DeleteOneFails(w) \/ Aborts(w))
    BY <1>4, <2>2 DEF StepOf, Create, Restore, Delete, BeginCreate, CreateCommit, CommitFails, BeginRestore,
       GetFails, RestoreCopy, RestoreHead, RestoreFails, BeginDelete, Finish, Collect, bucket
  <2>3. QED  BY <2>1, <2>2
<1>5. QED  BY <1>2, <1>3, <1>4

\* What was ever listed keeps its manifest's checksums; what is listed, and not being
\* deleted, stays listed as it is.
LEMMA SnapshotsStand ==
  ASSUME CommitInvariant, [Next]_vars
  PROVE  /\ doomed \subseteq doomed' /\ stored \cup doomed \subseteq stored' \cup doomed'
         /\ \A i \in stored \cup doomed : sums'[i] = sums[i]
         /\ \A i \in stored \ doomed : i \in stored' /\ snap'[i] = snap[i]
<1> USE DEF CommitInvariant
<1>1. stored \subseteq Ids /\ doomed \subseteq Ids
  BY DEF TypeOK
<1> DEFINE Stand == /\ doomed \subseteq doomed' /\ stored \cup doomed \subseteq stored' \cup doomed'
                    /\ \A i \in stored \cup doomed : sums'[i] = sums[i]
                    /\ \A i \in stored \ doomed : i \in stored' /\ snap'[i] = snap[i]
<1>2. ASSUME NEW w \in Workers,
             CreateCopy(w) \/ CreateFails(w) \/ CreateHead(w) \/ CreateCommit(w) \/ CommitFails(w)
      PROVE  Stand
  <2>1. UNCHANGED doomed /\ stored \subseteq stored' /\ Creating(w)
    BY <1>2 DEF CreateCopy, CreateFails, CreateHead, CreateCommit, CommitFails, ReadyToCommit,
       Creating, Doing, history, bucket
  <2>2. id[w] \in Ids \ (stored \cup doomed)
    BY <2>1 DEF Commitment, CopiesBehind, TypeOK, JobOK
  <2>3. UNCHANGED snap \/ \E k \in todo[w] : snap' = [snap EXCEPT ![id[w]][k] = live[k]]
    BY <1>2 DEF CreateCopy, CreateFails, CreateHead, CreateCommit, CommitFails, bucket
  <2>4. UNCHANGED sums \/ \E n : sums' = [sums EXCEPT ![id[w]][key[w]] = n]
    BY <1>2 DEF CreateCopy, CreateFails, CreateHead, CreateCommit, CommitFails
  <2>5. \A i \in stored : snap'[i] = snap[i]
    BY <1>1, <2>2, <2>3 DEF TypeOK
  <2>6. \A i \in stored \cup doomed : sums'[i] = sums[i]
    BY <1>1, <2>2, <2>4 DEF TypeOK
  <2>7. QED  BY <2>1, <2>5, <2>6
<1>3. ASSUME NEW w \in Workers, Deletes(w) PROVE Stand
  <2>1. id[w] \in doomed /\ UNCHANGED <<sums, doomed>> /\ JobOK
    BY <1>3 DEF Deletes, Commitment, DeletesDoomed, history, TypeOK
  <2>2. /\ UNCHANGED stored \/ stored' = stored \ {id[w]}
        /\ UNCHANGED snap \/ \E k \in todo[w] : snap' = [snap EXCEPT ![id[w]][k] = Absent]
    BY <1>3, <2>1, DropEffect
  <2>3. \A i \in stored \ doomed : snap'[i] = snap[i]
    BY <1>1, <2>1, <2>2 DEF TypeOK
  <2>4. QED  BY <2>1, <2>2, <2>3
<1>4. ASSUME UNCHANGED <<snap, stored, sums>>, doomed \subseteq doomed' PROVE Stand
  BY <1>4
<1>5. ASSUME NEW k \in Keys, ClientPut(k) \/ ClientDelete(k) PROVE Stand
  BY <1>4, <1>5 DEF ClientPut, ClientDelete
<1>6. ASSUME NEW w \in Workers,
             \/ BeginCreate(w) \/ BeginRestore(w) \/ GetFails(w)
             \/ RestoreCopy(w) \/ RestoreHead(w) \/ RestoreFails(w) \/ BeginDelete(w)
             \/ DeleteOne(w) \/ DeleteOneFails(w) \/ Aborts(w) \/ Finish(w) \/ Collect(w),
             ~Deletes(w)
      PROVE  UNCHANGED <<snap, stored, sums>> /\ doomed \subseteq doomed'
  <2>1. CASE DeleteOne(w) \/ DeleteOneFails(w) \/ Aborts(w)
    BY <1>6, <2>1, MadeOrNot DEF DeleteOne, DeleteOneFails, Aborts, history
  <2>2. CASE ~(DeleteOne(w) \/ DeleteOneFails(w) \/ Aborts(w))
    BY <1>6, <2>2 DEF BeginCreate, BeginRestore, GetFails, RestoreCopy, RestoreHead, RestoreFails,
       BeginDelete, Finish, Collect, bucket, history
  <2>3. QED  BY <2>1, <2>2
<1>7. CASE UNCHANGED vars
  BY <1>4, <1>7 DEF vars, bucket, history
<1>8. QED
  BY <1>2, <1>3, <1>4, <1>5, <1>6, <1>7 DEF Next, Client, Create, Restore, Delete

-----------------------------------------------------------------------------
\* What is doomed only becomes less: creates work on other ids.
LEMMA DoomedShrinks ==
  ASSUME CommitInvariant, [Next]_vars
  PROVE  /\ doomed \subseteq doomed'
         /\ \A i \in doomed : UnderPrefix(i)' \subseteq UnderPrefix(i)
<1> USE DEF CommitInvariant
<1>1. doomed \subseteq Ids
  BY DEF TypeOK
<1>2. ASSUME NEW w \in Workers,
             CreateCopy(w) \/ CreateFails(w) \/ CreateCommit(w) \/ CommitFails(w)
      PROVE  /\ UNCHANGED doomed
             /\ \A i \in doomed : UnderPrefix(i)' \subseteq UnderPrefix(i)
  <2>1. UNCHANGED doomed /\ Creating(w)
    BY <1>2 DEF CreateCopy, CreateFails, CreateCommit, CommitFails, ReadyToCommit, Creating,
       Doing, history
  <2>2. id[w] \in Ids \ doomed
    BY <2>1 DEF Commitment, CopiesBehind, TypeOK, JobOK
  <2>3. stored' \subseteq stored \cup {id[w]}
    BY <1>2 DEF CreateCopy, CreateFails, CreateCommit, CommitFails
  <2>4. UNCHANGED snap \/ \E k \in todo[w] : snap' = [snap EXCEPT ![id[w]][k] = live[k]]
    BY <1>2 DEF CreateCopy, CreateFails, CreateCommit, CommitFails
  <2>5. \A i \in doomed : snap'[i] = snap[i]
    BY <1>1, <2>2, <2>4 DEF TypeOK
  <2>6. QED  BY <2>1, <2>2, <2>3, <2>5 DEF UnderPrefix
<1>3. ASSUME NEW w \in Workers, Deletes(w)
      PROVE  /\ UNCHANGED doomed
             /\ \A i \in doomed : UnderPrefix(i)' \subseteq UnderPrefix(i)
  <2>1. UNCHANGED doomed /\ stored' \subseteq stored
        /\ \/ UNCHANGED snap
           \/ \E k \in Keys : snap' = [snap EXCEPT ![id[w]][k] = Absent]
    BY <1>3, DropEffect DEF Deletes, history, TypeOK
  <2>2. id[w] \in Ids
    BY DEF TypeOK, JobOK
  <2>3. \A i \in doomed, k \in Keys : snap'[i][k] = snap[i][k] \/ snap'[i][k] = Absent
    <3>1. CASE UNCHANGED snap
      BY <3>1
    <3>2. ASSUME NEW x \in Keys, snap' = [snap EXCEPT ![id[w]][x] = Absent]
          PROVE  \A i \in doomed, k \in Keys : snap'[i][k] = snap[i][k] \/ snap'[i][k] = Absent
      BY <1>1, <2>1, <2>2, <3>2, OneObjectChanges
    <3>3. QED  BY <2>1, <3>1, <3>2
  <2>4. QED  BY <2>1, <2>3 DEF UnderPrefix, Absent
<1>4. ASSUME UNCHANGED <<snap, stored>>, doomed \subseteq doomed'
      PROVE  \A i \in doomed : UnderPrefix(i)' \subseteq UnderPrefix(i)
  BY <1>4 DEF UnderPrefix
<1>5. ASSUME NEW k \in Keys, ClientPut(k) \/ ClientDelete(k)
      PROVE  UNCHANGED <<snap, stored>> /\ doomed \subseteq doomed'
  BY <1>5 DEF ClientPut, ClientDelete
<1>6. ASSUME NEW w \in Workers,
             \/ BeginCreate(w) \/ CreateHead(w) \/ BeginRestore(w) \/ GetFails(w)
             \/ RestoreCopy(w) \/ RestoreHead(w) \/ RestoreFails(w) \/ BeginDelete(w)
             \/ DeleteOne(w) \/ DeleteOneFails(w) \/ Aborts(w) \/ Finish(w) \/ Collect(w),
             ~Deletes(w)
      PROVE  UNCHANGED <<snap, stored>> /\ doomed \subseteq doomed'
  <2>1. CASE DeleteOne(w) \/ DeleteOneFails(w) \/ Aborts(w)
    BY <1>6, <2>1, MadeOrNot DEF DeleteOne, DeleteOneFails, Aborts, history
  <2>2. CASE ~(DeleteOne(w) \/ DeleteOneFails(w) \/ Aborts(w))
    BY <1>6, <2>2 DEF BeginCreate, CreateHead, BeginRestore, GetFails, RestoreCopy, RestoreHead,
       RestoreFails, BeginDelete, Finish, Collect, bucket, history
  <2>3. QED  BY <2>1, <2>2
<1>7. CASE UNCHANGED vars
  BY <1>4, <1>7 DEF vars, bucket, history
<1>8. QED
  BY <1>2, <1>3, <1>4, <1>5, <1>6, <1>7 DEF Next, Client, Create, Restore, Delete

-----------------------------------------------------------------------------
\* A thread whose call is where it was has no more to do than before.
LEMMA LeftBehind ==
  ASSUME DeletionInvariant, [Next]_vars, faults = 0, NEW w \in Workers, Clearing(w)',
         UNCHANGED <<op[w], pc[w], id[w], todo[w]>>
  PROVE  LeftToDo(w)'
<1>1. Clearing(w) /\ LeftToDo(w)
  BY DEF DeletionInvariant, Deletion, Clearing
<1>2. doomed \subseteq doomed' /\ UnderPrefix(id[w])' \subseteq UnderPrefix(id[w])
  <2>1. \A i \in doomed : UnderPrefix(i)' \subseteq UnderPrefix(i)
    BY DoomedShrinks DEF DeletionInvariant
  <2>2. id[w] \in doomed /\ doomed \subseteq doomed'
    BY <1>1, DoomedShrinks DEF LeftToDo, DeletionInvariant
  <2>3. QED  BY <2>1, <2>2 DEF UnderPrefix
<1>3. QED  BY <1>1, <1>2 DEF LeftToDo, UnderPrefix

\* One object of the listing is gone, and not to be deleted any more.
LEMMA OneGone ==
  ASSUME DeletionInvariant, faults = 0, NEW w \in Workers, DeleteOne(w)
  PROVE  LeftToDo(w)'
<1>1. Clearing(w) /\ LeftToDo(w) /\ id[w] \in Ids
  BY DEF DeletionInvariant, Deletion, Clearing, DeleteOne, Doing, CommitInvariant, TypeOK, JobOK
<1>2. PICK x \in todo[w] :
        /\ Strike(w, x)
        /\ IF x = ManifestKey
             THEN stored' = stored \ {id[w]} /\ UNCHANGED snap
             ELSE snap' = [snap EXCEPT ![id[w]][x] = Absent] /\ UNCHANGED stored
  BY DEF DeleteOne, Drop
<1>3. /\ todo'[w] = todo[w] \ {x} /\ id'[w] = id[w] /\ pc'[w] = "next" /\ UNCHANGED doomed
  BY <1>2 DEF DeleteOne, Strike, Doing, history, DeletionInvariant, CommitInvariant, TypeOK, JobOK
<1>4. \A k \in Keys : snap'[id[w]][k].body # 0 => snap[id[w]][k].body # 0 /\ k # x
  BY <1>1, <1>2, SnapshotAssumption DEF Absent, DeletionInvariant, CommitInvariant, TypeOK
<1>5. id[w] \in stored' => id[w] \in stored /\ x # ManifestKey
  BY <1>2
<1>6. QED  BY <1>1, <1>3, <1>4, <1>5 DEF LeftToDo, UnderPrefix

LEMMA DeletionPreserved ==
  ASSUME DeletionInvariant, [Next]_vars
  PROVE  Deletion'
<1> SUFFICES ASSUME faults' = 0, NEW v \in Workers, Clearing(v)' PROVE LeftToDo(v)'
  BY DEF Deletion
<1> DEFINE Stays == UNCHANGED <<op[v], pc[v], id[v], todo[v]>>
<1> USE DEF DeletionInvariant, CommitInvariant
<1>1. faults \in Nat
  BY DEF TypeOK
<1>2. ASSUME faults = 0, Stays PROVE LeftToDo(v)'
  BY <1>2, LeftBehind
<1>3. ASSUME NEW k \in Keys, ClientPut(k) \/ ClientDelete(k) PROVE LeftToDo(v)'
  BY <1>2, <1>3 DEF ClientPut, ClientDelete, job
<1>4. ASSUME NEW w \in Workers, CreateFails(w) \/ CommitFails(w) \/ GetFails(w) \/ RestoreFails(w)
                                \/ DeleteOneFails(w) \/ Aborts(w)
      PROVE  FALSE
  BY <1>1, <1>4 DEF CreateFails, CommitFails, GetFails, RestoreFails, DeleteOneFails, Aborts, Fault
<1>5. ASSUME NEW w \in Workers, BeginDelete(w) PROVE LeftToDo(v)'
  <2>1. faults = 0 /\ Others(w)
    BY <1>5, OthersStay DEF BeginDelete, TypeOK
  <2>2. CASE v # w
    BY <1>2, <2>1, <2>2 DEF Others
  <2>3. CASE v = w
    <3>1. PICK i \in Known : StartJob(w, "delete", i, UnderPrefix(i)) /\ doomed' = doomed \cup {i}
      BY <1>5 DEF BeginDelete
    <3>2. id'[w] = i /\ todo'[w] = UnderPrefix(i) /\ pc'[w] = "next" /\ UNCHANGED <<snap, stored>>
      BY <1>5, <3>1 DEF BeginDelete, StartJob, bucket, TypeOK, JobOK
    <3>3. QED  BY <2>3, <3>1, <3>2 DEF LeftToDo, UnderPrefix
  <2>4. QED  BY <2>2, <2>3
<1>6. ASSUME NEW w \in Workers, DeleteOne(w) PROVE LeftToDo(v)'
  <2>1. faults = 0 /\ Others(w)
    BY <1>6, OthersStay DEF DeleteOne, TypeOK
  <2>2. CASE v # w
    BY <1>2, <2>1, <2>2 DEF Others
  <2>3. CASE v = w
    BY <1>6, <2>1, <2>3, OneGone
  <2>4. QED  BY <2>2, <2>3
<1>7. ASSUME NEW w \in Workers, Finish(w) PROVE LeftToDo(v)'
  <2>1. faults = 0 /\ Others(w)
    BY <1>7, OthersStay DEF Finish, TypeOK
  <2>2. CASE v # w
    BY <1>2, <2>1, <2>2 DEF Others
  <2>3. CASE v = w
    <3>1. /\ UNCHANGED <<op, id, todo, snap, stored, doomed>>
          /\ pc[w] = "next" /\ todo[w] = {}
      BY <1>7 DEF Finish, Goto, bucket, history
    <3>2. LeftToDo(w)
      BY <2>1, <2>3, <3>1 DEF Deletion, Clearing
    <3>3. QED  BY <2>3, <3>1, <3>2 DEF LeftToDo, UnderPrefix
  <2>4. QED  BY <2>2, <2>3
<1>8. ASSUME NEW w \in Workers,
             \/ BeginCreate(w) \/ CreateCopy(w) \/ CreateHead(w) \/ CreateCommit(w)
             \/ BeginRestore(w) \/ RestoreCopy(w) \/ RestoreHead(w) \/ Collect(w)
      PROVE  LeftToDo(v)'
  <2>1. faults = 0
    BY <1>8 DEF BeginCreate, CreateCopy, CreateHead, CreateCommit, BeginRestore, RestoreCopy,
       RestoreHead, Collect
  <2>2. Others(w)
    <3>1. CASE Collect(w)
      BY <3>1 DEF Collect, Others, TypeOK, JobOK
    <3>2. CASE ~Collect(w)
      BY <1>8, <3>2, OthersStay DEF BeginCreate, CreateCopy, CreateHead, CreateCommit, ReadyToCommit,
         BeginRestore, RestoreCopy, RestoreHead, TypeOK
    <3>3. QED  BY <3>1, <3>2
  <2>3. op'[w] # "delete"
    BY <1>8 DEF BeginCreate, CreateCopy, CreateHead, CreateCommit, ReadyToCommit, BeginRestore,
       RestoreCopy, RestoreHead, Collect, StartJob, StartRaised, Take, TakeFailed, Report, Goto,
       Doing, TypeOK, JobOK
  <2>4. v # w
    BY <2>3 DEF Clearing
  <2>5. QED  BY <1>2, <2>1, <2>2, <2>4 DEF Others
<1>9. CASE UNCHANGED vars
  BY <1>2, <1>9 DEF vars, job
<1>10. QED
  BY <1>3, <1>4, <1>5, <1>6, <1>7, <1>8, <1>9 DEF Next, Client, Create, Restore, Delete

-----------------------------------------------------------------------------
\* A delete whose requests succeed leaves nothing of the snapshot, whoever creates,
\* restores and deletes meanwhile.
THEOREM DeletedIsGone == Spec => []DeleteRemoves
<1>1. Init => DeletionInvariant
  BY InitInvariant DEF Init, DeletionInvariant, AllProper, Proper, Deletion, Clearing
<1>2. DeletionInvariant /\ [Next]_vars => DeletionInvariant'
  BY TypePreserved, CommitPreserved, ProperPreserved, DeletionPreserved
     DEF DeletionInvariant, CommitInvariant
<1>3. DeletionInvariant => DeleteRemoves
  <2>1. SUFFICES ASSUME DeletionInvariant, faults = 0, NEW w \in Workers, Doing(w, "delete", "done")
                 PROVE  id[w] \notin stored /\ \A k \in Keys : snap[id[w]][k] = Absent
    BY DEF DeleteRemoves
  <2>2. UnderPrefix(id[w]) = {} /\ id[w] \in Ids
    BY <2>1 DEF DeletionInvariant, Deletion, Clearing, LeftToDo, Doing, CommitInvariant, TypeOK, JobOK
  <2>3. QED  BY <2>1, <2>2 DEF UnderPrefix, DeletionInvariant, AllProper, Proper
<1>4. QED  BY <1>1, <1>2, <1>3, PTL DEF Spec

-----------------------------------------------------------------------------
\* What the window of v's create is compared with has not moved, or has only grown.
Kept(v) == /\ snap'[id[v]] = snap[id[v]] /\ sums'[id[v]] = sums[id[v]]
           /\ id[v] \in stored => id[v] \in stored'
Recorded(v) == moments[v] \subseteq moments'[v] /\ Bodies(live)' \in moments'[v]

LEMMA StillInWindow ==
  ASSUME NEW v \in Workers, TakenInWindow(v), Kept(v), Recorded(v),
         UNCHANGED <<op[v], pc[v], id[v], todo[v], key[v]>>
  PROVE  TakenInWindow(v)'
<1>1. Captured(id[v])' = Captured(id[v])
  BY DEF Kept, Captured
<1>2. \A k \in Keys : Seen(v, k) \subseteq Seen(v, k)'
  BY DEF Recorded, Seen
<1>3. Bodies(live)' \in moments'[v] /\ (pc'[v] = "done" => todo'[v] = {} /\ id'[v] \in stored')
  BY DEF Kept, Recorded, TakenInWindow
<1>4. ASSUME NEW k \in Keys \ todo[v]
      PROVE  IF k \in Captured(id[v])' \/ (pc'[v] = "head" /\ k = key'[v])
               THEN snap'[id[v]][k].body \in Seen(v, k)' \ {0}
               ELSE 0 \in Seen(v, k)'
  BY <1>1, <1>2, <1>4 DEF Kept, TakenInWindow
<1>5. QED  BY <1>3, <1>4 DEF TakenInWindow

\* Every change of a live object is a moment of the creates that run.
LEMMA ChangeIsRecorded ==
  ASSUME NEW v \in Workers, Bodies(live) \in moments[v],
         NEW k, NEW object, NEW by, SetLive(k, object, by) \/ UNCHANGED <<live, moments>>
  PROVE  Recorded(v)
<1>1. Bodies(live)' = Bodies(live')
  BY DEF Bodies
<1>2. CASE SetLive(k, object, by)
  BY <1>1, <1>2 DEF SetLive, Recorded
<1>3. CASE UNCHANGED <<live, moments>>
  BY <1>3 DEF Recorded, Bodies
<1>4. QED  BY <1>2, <1>3

\* One thread's step leaves the other creates in their windows.
LEMMA OthersInWindow ==
  ASSUME WindowInvariant, NEW w \in Workers, StepOf(w), NEW v \in Workers \ {w},
         Capturing(v), id[v] \notin doomed'
  PROVE  TakenInWindow(v)'
<1> USE DEF WindowInvariant, CommitInvariant
<1>1. [Next]_vars
  BY DEF StepOf, Next
<1>2. id[v] \notin doomed /\ TakenInWindow(v)
  BY <1>1, SnapshotsStand DEF Window
<1>3. Kept(v)
  <2>1. CASE Creating(v)
    <3>1. id[v] \notin stored
      BY <2>1 DEF Commitment, CopiesBehind
    <3>2. QED  BY <2>1, <3>1, CreatesAlone DEF Kept
  <2>2. CASE pc[v] = "done"
    BY <1>1, <1>2, <2>2, SnapshotsStand DEF Kept, TakenInWindow
  <2>3. QED  BY <2>1, <2>2 DEF Capturing, Creating
<1>4. Recorded(v)
  <2>1. CASE RestoreCopy(w) \/ RestoreFails(w) \/ Aborts(w)
    <3>1. \/ UNCHANGED <<live, moments>>
          \/ \E k \in todo[w] : SetLive(k, snap[id[w]][k], w)
      BY <2>1, WritesBack
    <3>2. QED  BY <1>2, <3>1, ChangeIsRecorded DEF TakenInWindow
  <2>2. CASE ~(RestoreCopy(w) \/ RestoreFails(w) \/ Aborts(w))
    <3>1. UNCHANGED live
      BY <2>2 DEF StepOf, Create, Restore, Delete, BeginCreate, CreateCopy, CreateHead, CreateFails,
         CreateCommit, CommitFails, BeginRestore, GetFails, RestoreHead, BeginDelete, DeleteOne,
         DeleteOneFails, Finish, Collect, bucket
    <3>2. UNCHANGED moments \/ \E m : moments' = [moments EXCEPT ![w] = m]
      BY <2>2 DEF StepOf, Create, Restore, Delete, BeginCreate, CreateCopy, CreateHead, CreateFails,
         CreateCommit, CommitFails, BeginRestore, GetFails, RestoreHead, BeginDelete, DeleteOne,
         DeleteOneFails, Finish, Collect, history
    <3>3. moments'[v] = moments[v]
      BY <3>2 DEF TypeOK, LiveOK
    <3>4. QED  BY <1>2, <3>1, <3>3 DEF Recorded, TakenInWindow, Bodies
  <2>3. QED  BY <2>1, <2>2
<1>5. Others(w)
  BY OneThreadMoves
<1>6. QED  BY <1>2, <1>3, <1>4, <1>5, StillInWindow DEF Others

\* The steps of a create itself.
LEMMA BeginsInWindow ==
  ASSUME WindowInvariant, NEW w \in Workers, BeginCreate(w)
  PROVE  TakenInWindow(w)'
<1> USE DEF WindowInvariant, CommitInvariant
<1>1. PICK i \in Ids \ used : StartJob(w, "create", i, Listed)
  BY DEF BeginCreate
<1>2. /\ pc'[w] = "next" /\ id'[w] = i /\ todo'[w] = Listed /\ moments'[w] = {Bodies(live)}
      /\ UNCHANGED <<live, sums>>
  BY <1>1 DEF BeginCreate, StartJob, bucket, TypeOK, JobOK, LiveOK
<1>3. Captured(i)' = {}
  BY <1>1, <1>2 DEF Captured, Commitment
<1>4. \A k \in Keys \ Listed : 0 \in Seen(w, k)'
  BY <1>2 DEF Seen, Listed, Bodies
<1>5. QED  BY <1>2, <1>3, <1>4 DEF TakenInWindow, Bodies

LEMMA CopiesInWindow ==
  ASSUME WindowInvariant, NEW w \in Workers, id[w] \notin doomed, CreateCopy(w), pc'[w] # "raised"
  PROVE  TakenInWindow(w)'
<1> USE DEF WindowInvariant, CommitInvariant
<1>1. PICK k \in todo[w] : /\ live[k].body # 0 /\ Take(w, k, "head")
                           /\ snap' = [snap EXCEPT ![id[w]][k] = live[k]]
  BY DEF CreateCopy, Take, TypeOK, JobOK
<1>2. /\ op[w] = "create" /\ pc[w] = "next" /\ pc'[w] = "head" /\ id'[w] = id[w] /\ key'[w] = k
      /\ todo'[w] = todo[w] \ {k} /\ UNCHANGED <<live, sums, moments>>
  BY <1>1 DEF CreateCopy, Take, Doing, history, TypeOK, JobOK
<1>3. TakenInWindow(w) /\ k \in Keys /\ id[w] \in Ids
  BY <1>2 DEF Window, Capturing, TypeOK, JobOK
<1>4. snap'[id[w]] = [snap[id[w]] EXCEPT ![k] = live[k]]
  BY <1>1, <1>3 DEF TypeOK
<1>5. snap'[id[w]][k] = live[k] /\ \A x \in Keys \ {k} : snap'[id[w]][x] = snap[id[w]][x]
  BY <1>3, <1>4 DEF TypeOK
<1>6. Captured(id[w])' = Captured(id[w]) /\ Bodies(live)' = Bodies(live)
      /\ \A x \in Keys : Seen(w, x)' = Seen(w, x)
  BY <1>2 DEF Captured, Bodies, Seen
<1>7. live[k].body \in Seen(w, k) \ {0}
  BY <1>1, <1>3 DEF TakenInWindow, Seen, Bodies
<1>8. \A x \in Keys \ todo[w] :
        IF x \in Captured(id[w]) THEN snap'[id[w]][x].body \in Seen(w, x) \ {0} ELSE 0 \in Seen(w, x)
  BY <1>1, <1>2, <1>3, <1>5 DEF TakenInWindow
<1>9. QED  BY <1>2, <1>3, <1>5, <1>6, <1>7, <1>8 DEF TakenInWindow

LEMMA HeadsInWindow ==
  ASSUME WindowInvariant, NEW w \in Workers, id[w] \notin doomed, CreateHead(w)
  PROVE  TakenInWindow(w)'
<1> USE DEF WindowInvariant, CommitInvariant
<1>1. /\ op[w] = "create" /\ pc[w] = "head" /\ pc'[w] = "next"
      /\ UNCHANGED <<live, snap, stored, moments, id, todo, key>>
      /\ sums' = [sums EXCEPT ![id[w]][key[w]] = snap[id[w]][key[w]].sha]
  BY DEF CreateHead, Goto, Doing, history, bucket, TypeOK, JobOK
<1>2. TakenInWindow(w) /\ key[w] \in Keys \ todo[w] /\ id[w] \in Ids
  BY <1>1 DEF Window, Capturing, Commitment, Creating, CopiesBehind, TypeOK, JobOK
<1>3. sums'[id[w]] = [sums[id[w]] EXCEPT ![key[w]] = snap[id[w]][key[w]].sha]
  BY <1>1, <1>2 DEF TypeOK
<1>4. snap[id[w]][key[w]].sha # NotCaptured
  BY <1>2, SnapshotAssumption DEF TypeOK, Object
<1>5. Captured(id[w])' = Captured(id[w]) \cup {key[w]}
  BY <1>1, <1>2, <1>3, <1>4 DEF Captured, TypeOK
<1>6. Bodies(live)' = Bodies(live) /\ \A x \in Keys : Seen(w, x)' = Seen(w, x)
  BY <1>1 DEF Bodies, Seen
<1>7. QED  BY <1>1, <1>2, <1>5, <1>6 DEF TakenInWindow

LEMMA CommitsInWindow ==
  ASSUME WindowInvariant, NEW w \in Workers, id[w] \notin doomed, CreateCommit(w)
  PROVE  TakenInWindow(w)'
<1> USE DEF WindowInvariant, CommitInvariant
<1>1. /\ op[w] = "create" /\ pc[w] = "next" /\ pc'[w] = "done" /\ todo[w] = {}
      /\ UNCHANGED <<live, snap, sums, moments, id, todo, key>> /\ id[w] \in stored'
  BY DEF CreateCommit, ReadyToCommit, Goto, Doing, history, TypeOK, JobOK
<1>2. TakenInWindow(w)
  BY <1>1 DEF Window, Capturing
<1>3. /\ Captured(id[w])' = Captured(id[w]) /\ Bodies(live)' = Bodies(live)
      /\ \A x \in Keys : Seen(w, x)' = Seen(w, x)
  BY <1>1 DEF Captured, Bodies, Seen
<1>4. QED  BY <1>1, <1>2, <1>3 DEF TakenInWindow

LEMMA WindowPreserved ==
  ASSUME WindowInvariant, [Next]_vars
  PROVE  Window'
<1> SUFFICES ASSUME NEW v \in Workers, Capturing(v)', id'[v] \notin doomed'
             PROVE  TakenInWindow(v)'
  BY DEF Window
<1> USE DEF WindowInvariant, CommitInvariant
<1>1. id[v] = id'[v] => id[v] \notin doomed
  BY SnapshotsStand
<1>2. ASSUME NEW k \in Keys, ClientPut(k) \/ ClientDelete(k) PROVE TakenInWindow(v)'
  <2>1. UNCHANGED <<op, pc, id, todo, key, snap, sums, stored>> /\ \E object : SetLive(k, object, NoWorker)
    BY <1>2 DEF ClientPut, ClientDelete, job
  <2>2. TakenInWindow(v)
    BY <1>1, <2>1 DEF Window, Capturing
  <2>3. Recorded(v)
    BY <2>1, <2>2, ChangeIsRecorded DEF TakenInWindow
  <2>4. QED  BY <2>1, <2>2, <2>3, StillInWindow DEF Kept
<1>3. ASSUME NEW w \in Workers, StepOf(w) PROVE TakenInWindow(v)'
  <2>1. CASE v # w
    <3>1. id'[v] = id[v] /\ Capturing(v)
      BY <1>3, <2>1, OneThreadMoves DEF Others, Capturing
    <3>2. QED  BY <1>3, <2>1, <3>1, OthersInWindow
  <2>2. CASE v = w
    <3>1. CASE BeginCreate(w)
      BY <2>2, <3>1, BeginsInWindow
    <3>2. CASE CreateCopy(w)
      <4>1. id'[w] = id[w]
        BY <3>2 DEF CreateCopy, Take
      <4>2. QED  BY <1>1, <2>2, <3>2, <4>1, CopiesInWindow DEF Capturing
    <3>3. CASE CreateHead(w) \/ CreateCommit(w)
      <4>1. id'[w] = id[w]
        BY <3>3 DEF CreateHead, CreateCommit, Goto
      <4>2. QED  BY <1>1, <2>2, <3>3, <4>1, HeadsInWindow, CommitsInWindow
    <3>4. CASE ~(BeginCreate(w) \/ CreateCopy(w) \/ CreateHead(w) \/ CreateCommit(w))
      <4>1. op'[w] # "create" \/ pc'[w] = "raised"
        BY <1>3, <3>4 DEF StepOf, Create, Restore, Delete, CreateFails, CommitFails, BeginRestore,
           GetFails, RestoreCopy, RestoreHead, RestoreFails, BeginDelete, DeleteOne, DeleteOneFails,
           Aborts, Finish, Collect, StartJob, StartRaised, Take, TakeFailed, Report, Strike, Goto, Doing,
           TypeOK, JobOK
      <4>2. QED  BY <2>2, <4>1 DEF Capturing
    <3>5. QED  BY <3>1, <3>2, <3>3, <3>4
  <2>3. QED  BY <2>1, <2>2
<1>4. CASE UNCHANGED vars
  <2>1. UNCHANGED <<op, pc, id, todo, key, live, moments, snap, sums, stored>>
    BY <1>4 DEF vars, job, bucket, history
  <2>2. TakenInWindow(v)
    BY <1>1, <2>1 DEF Window, Capturing
  <2>3. QED  BY <2>1, <2>2, StillInWindow DEF Kept, Recorded, Bodies, TakenInWindow
<1>5. QED  BY <1>2, <1>3, <1>4 DEF Next, Client, StepOf

\* What create returns is, key by key, of the time of the call: for any number of
\* threads and clients that write, restore and delete while it copies.
THEOREM SnapshotIsOfItsTime == Spec => []CapturedInWindow
<1>1. Init => WindowInvariant
  BY InitInvariant DEF Init, WindowInvariant, Window, Capturing
<1>2. WindowInvariant /\ [Next]_vars => WindowInvariant'
  BY TypePreserved, CommitPreserved, WindowPreserved DEF WindowInvariant, CommitInvariant
<1>3. WindowInvariant => CapturedInWindow
  BY DEF WindowInvariant, Window, Capturing, TakenInWindow, Seen, CapturedInWindow, Created, Doing
<1>4. QED  BY <1>1, <1>2, <1>3, PTL DEF Spec

-----------------------------------------------------------------------------
\* What others do to the live objects a restore has been through is in touched.
Noticed(v) == /\ touched[v] \subseteq touched'[v]
              /\ \A k \in Keys : live'[k] = live[k] \/ k \in touched'[v]

\* What a restore that is not moved itself sees of the others' steps.
Bystander(v) == /\ UNCHANGED <<op[v], pc[v], id[v], todo[v], key[v], report[v]>>
                /\ Restoring(v) => Noticed(v)

LEMMA ChangeIsNoticed ==
  ASSUME LiveOK, NEW v \in Workers, op[v] = "restore", NEW k \in Keys, NEW object, NEW by, by # v,
         SetLive(k, object, by)
  PROVE  Noticed(v)
  BY DEF Noticed, SetLive, LiveOK

LEMMA FaultsGrow ==
  ASSUME TypeOK, [Next]_vars
  PROVE  faults' # 0 \/ faults = 0
<1>1. faults' = faults \/ faults' = faults + 1
  BY DEF Next, Client, ClientPut, ClientDelete, Create, Restore, Delete, BeginCreate, CreateCopy,
     CreateHead, CreateFails, CreateCommit, CommitFails, BeginRestore, GetFails, RestoreCopy,
     RestoreHead, RestoreFails, BeginDelete, DeleteOne, DeleteOneFails, Aborts, Finish, Collect,
     Fault, vars
<1>2. QED  BY <1>1 DEF TypeOK

\* A restore somebody else's step passes by.
LEMMA BystanderIsFine ==
  ASSUME RestoreInvariant, [Next]_vars, NEW v \in Workers, Bystander(v), Restoring(v)
  PROVE  /\ PutBack(v)'
         /\ Undisturbed(v)' => AllWell(v)'
<1> USE DEF RestoreInvariant, CommitInvariant
<1>1. PutBack(v) /\ Noticed(v) /\ sums'[id[v]] = sums[id[v]] /\ id[v] \in stored' \cup doomed'
  BY SnapshotsStand DEF Restoration, PutBack, Bystander
<1>2. Captured(id[v])' = Captured(id[v])
  BY <1>1 DEF Captured, Bystander
<1>3. \A k \in Keys \ touched'[v] : Matches(id[v], k) => Matches(id[v], k)'
  BY <1>1 DEF Noticed, Matches, Bystander
<1>4. PutBack(v)'
  <2>1. ASSUME NEW k \in Captured(id[v]) \ todo[v]
        PROVE  \/ pc'[v] = "head" /\ k = key'[v]
               \/ report'[v][k] = "failed"
               \/ k \in touched'[v]
               \/ Matches(id[v], k)'
    BY <1>1, <1>3, <2>1 DEF PutBack, Bystander, Noticed, Captured
  <2>2. QED  BY <1>1, <1>2, <2>1 DEF PutBack, Bystander
<1>5. ASSUME Undisturbed(v)' PROVE AllWell(v)'
  <2>1. Undisturbed(v) /\ live' = live
    <3>1. faults = 0 /\ touched[v] = {} /\ id[v] \notin doomed
      BY <1>1, <1>5, SnapshotsStand, FaultsGrow DEF Undisturbed, Noticed, Bystander
    <3>2. \A k \in Keys : live'[k] = live[k]
      BY <1>1, <1>5 DEF Undisturbed, Noticed
    <3>3. live' \in [Keys -> Object]
      BY TypePreserved DEF TypeOK, LiveOK
    <3>4. QED  BY <3>1, <3>2, <3>3 DEF Undisturbed, TypeOK, LiveOK
  <2>2. AllWell(v) /\ snap'[id[v]] = snap[id[v]]
    BY <1>1, <1>5, <2>1, SnapshotsStand DEF Restoration, Undisturbed, PutBack
  <2>3. QED  BY <1>1, <1>2, <2>1, <2>2 DEF AllWell, Reported, Bystander
<1>6. QED  BY <1>4, <1>5

\* A copy of a complete snapshot carries the checksum the manifest has.
LEMMA CopiesMatch ==
  ASSUME RestoreInvariant, NEW i \in stored \ doomed, NEW k \in Captured(i)
  PROVE  snap[i][k].body # 0 /\ snap[i][k].sha = sums[i][k]
  BY DEF RestoreInvariant, CommitInvariant, Commitment, ListedIsComplete

Fine(w) == PutBack(w) /\ (Undisturbed(w) => AllWell(w))

LEMMA BeginsFine ==
  ASSUME RestoreInvariant, NEW w \in Workers, BeginRestore(w), Restoring(w)'
  PROVE  Fine(w)'
<1> USE DEF RestoreInvariant, CommitInvariant
<1>1. PICK i \in stored : StartJob(w, "restore", i, Captured(i))
  BY DEF BeginRestore, StartRaised, Restoring, TypeOK, JobOK
<1>2. /\ pc[w] = "idle" /\ pc'[w] = "next" /\ id'[w] = i /\ todo'[w] = Captured(i)
      /\ UNCHANGED <<sums, stored, report>>
  BY <1>1 DEF BeginRestore, StartJob, bucket, TypeOK, JobOK
<1>3. Captured(i)' = Captured(i)
  BY <1>2 DEF Captured
<1>4. report'[w] = NotReported
  BY <1>2 DEF Restoration
<1>5. QED  BY <1>2, <1>3, <1>4 DEF Fine, PutBack, AllWell, Reported, NotReported

LEMMA CopiesFine ==
  ASSUME RestoreInvariant, NEW w \in Workers, RestoreCopy(w)
  PROVE  Fine(w)'
<1> USE DEF RestoreInvariant, CommitInvariant
<1>1. op[w] = "restore" /\ pc[w] = "next" /\ PutBack(w) /\ UNCHANGED <<snap, stored, sums, doomed, faults>>
  BY DEF RestoreCopy, Doing, Restoration, Restoring
<1>2. Captured(id[w])' = Captured(id[w]) /\ id[w] \in Ids
  BY <1>1 DEF Captured, TypeOK, JobOK, RestoreCopy, Take, TakeFailed
<1>3. PICK k \in todo[w] :
         \/ /\ SetLive(k, snap[id[w]][k], w) /\ Take(w, k, "head")
         \/ /\ snap[id[w]][k].body = 0 /\ TakeFailed(w, k) /\ UNCHANGED <<live, moments, touched>>
  BY DEF RestoreCopy
<1>4. k \in Captured(id[w]) /\ k \in Keys /\ id'[w] = id[w] /\ todo'[w] = todo[w] \ {k}
  BY <1>1, <1>3 DEF PutBack, Captured, Take, TakeFailed, TypeOK, JobOK
<1>5. CASE SetLive(k, snap[id[w]][k], w) /\ Take(w, k, "head")
  <2>1. /\ pc'[w] = "head" /\ key'[w] = k /\ report'[w] = report[w] /\ touched'[w] = touched[w]
        /\ live'[k] = snap[id[w]][k] /\ \A x \in Keys \ {k} : live'[x] = live[x]
    BY <1>4, <1>5 DEF SetLive, Take, TypeOK, JobOK, LiveOK
  <2>2. \A x \in Captured(id[w]) \ (todo[w] \cup {k}) :
           report[w][x] = "failed" \/ x \in touched[w] \/ Matches(id[w], x)'
    BY <1>1, <1>4, <2>1 DEF PutBack, Matches, Captured
  <2>3. PutBack(w)'
    BY <1>1, <1>2, <1>4, <2>1, <2>2 DEF PutBack
  <2>4. ASSUME Undisturbed(w)' PROVE AllWell(w)'
    <3>1. AllWell(w) /\ Reported(w)' = Reported(w)
      BY <1>1, <1>2, <1>4, <2>1, <2>4 DEF Undisturbed, Restoration, Restoring, Reported
    <3>2. QED  BY <1>1, <1>4, <2>1, <3>1 DEF AllWell
  <2>5. QED  BY <2>3, <2>4 DEF Fine
<1>6. CASE snap[id[w]][k].body = 0 /\ TakeFailed(w, k) /\ UNCHANGED <<live, moments, touched>>
  <2>1. /\ pc'[w] = "next" /\ report'[w][k] = "failed" /\ \A x \in Keys \ {k} : report'[w][x] = report[w][x]
    BY <1>1, <1>4, <1>6 DEF TakeFailed, TypeOK, JobOK
  <2>2. \A x \in Captured(id[w]) \ (todo[w] \cup {k}) :
           report'[w][x] = "failed" \/ x \in touched[w] \/ Matches(id[w], x)'
    BY <1>1, <1>4, <1>6, <2>1 DEF PutBack, Matches, Captured
  <2>3. PutBack(w)'
    BY <1>1, <1>2, <1>4, <1>6, <2>1, <2>2 DEF PutBack
  <2>4. ASSUME Undisturbed(w)' PROVE FALSE
    <3>1. id[w] \in stored \ doomed
      BY <1>1, <1>4, <2>4 DEF Undisturbed, PutBack
    <3>2. QED  BY <1>4, <1>6, <2>4, <3>1, CopiesMatch
  <2>5. QED  BY <2>3, <2>4 DEF Fine
<1>7. QED  BY <1>3, <1>5, <1>6

LEMMA HeadsFine ==
  ASSUME RestoreInvariant, NEW w \in Workers, RestoreHead(w)
  PROVE  Fine(w)'
<1> USE DEF RestoreInvariant, CommitInvariant
<1>1. /\ op[w] = "restore" /\ pc[w] = "head" /\ PutBack(w)
      /\ UNCHANGED <<live, snap, stored, sums, doomed, faults, touched, id, todo>>
      /\ pc'[w] = "next"
  BY DEF RestoreHead, Doing, Restoration, Restoring, Report, bucket, history, TypeOK, JobOK
<1>2. Captured(id[w])' = Captured(id[w]) /\ id[w] \in Ids /\ key[w] \in Keys
  BY <1>1 DEF Captured, TypeOK, JobOK
<1>3. Verified(w) <=> Matches(id[w], key[w])
  BY DEF Verified, Matches
<1>4. /\ report'[w][key[w]] = IF Verified(w) THEN "restored" ELSE "failed"
      /\ \A x \in Keys \ {key[w]} : report'[w][x] = report[w][x]
  BY <1>2 DEF RestoreHead, Report, TypeOK, JobOK
<1>5. \A x \in Captured(id[w]) \ todo[w] :
         report'[w][x] = "failed" \/ x \in touched[w] \/ Matches(id[w], x)'
  BY <1>1, <1>3, <1>4 DEF PutBack, Matches, Captured
<1>6. PutBack(w)'
  BY <1>1, <1>2, <1>5 DEF PutBack
<1>7. ASSUME Undisturbed(w)' PROVE AllWell(w)'
  <2>1. Undisturbed(w) /\ id[w] \in stored \ doomed /\ key[w] \in Captured(id[w]) \ todo[w] /\ AllWell(w)
    BY <1>1, <1>7 DEF Undisturbed, PutBack, Restoration, Restoring
  <2>2. Verified(w) <=> sums[id[w]][key[w]] # 0
    BY <1>1, <1>3, <2>1, CopiesMatch DEF Matches, AllWell
  <2>3. Reported(w)' = Reported(w) \cup {key[w]}
    BY <1>1, <1>2, <2>1 DEF Reported
  <2>4. QED  BY <1>1, <1>2, <1>4, <2>1, <2>2, <2>3 DEF AllWell
<1>8. QED  BY <1>6, <1>7 DEF Fine

LEMMA FailsFine ==
  ASSUME RestoreInvariant, NEW w \in Workers, RestoreFails(w)
  PROVE  Fine(w)'
<1> USE DEF RestoreInvariant, CommitInvariant
<1>1. /\ op[w] = "restore" /\ PutBack(w) /\ UNCHANGED <<snap, stored, sums, doomed>>
      /\ id'[w] = id[w] /\ pc'[w] = "next"
  BY DEF RestoreFails, Doing, Restoration, Restoring, TakeFailed, Report, TypeOK, JobOK
<1>2. Captured(id[w])' = Captured(id[w]) /\ id[w] \in Ids
  BY <1>1 DEF Captured, TypeOK, JobOK
<1>3. PICK k \in Captured(id[w]) :
         /\ pc[w] = "head" => k = key[w]
         /\ todo'[w] = todo[w] \ {k} /\ report'[w] = [report[w] EXCEPT ![k] = "failed"]
         /\ UNCHANGED <<live, moments, touched>> \/ SetLive(k, snap[id[w]][k], w)
  <2>1. CASE Doing(w, "restore", "head")
    <3>1. todo' = todo /\ report' = [report EXCEPT ![w][key[w]] = "failed"]
          /\ UNCHANGED <<live, moments, touched>>
      BY <2>1 DEF RestoreFails, Report, Doing
    <3>2. key[w] \in Captured(id[w]) \ todo[w]
      BY <1>1, <2>1 DEF PutBack, Doing
    <3>3. QED  BY <3>1, <3>2 DEF TypeOK, JobOK
  <2>2. CASE Doing(w, "restore", "next")
    <3>1. PICK k \in todo[w] : /\ TakeFailed(w, k)
                               /\ UNCHANGED <<live, moments, touched>> \/ SetLive(k, snap[id[w]][k], w)
      BY <2>2 DEF RestoreFails, Doing
    <3>2. k \in Captured(id[w]) /\ pc[w] = "next"
      BY <1>1, <2>2 DEF PutBack, Doing
    <3>3. todo'[w] = todo[w] \ {k} /\ report'[w] = [report[w] EXCEPT ![k] = "failed"]
      BY <3>1 DEF TakeFailed, TypeOK, JobOK
    <3>4. QED  BY <3>1, <3>2, <3>3
  <2>3. QED  BY <2>1, <2>2 DEF RestoreFails
<1>4. /\ report'[w][k] = "failed" /\ \A x \in Keys \ {k} : report'[w][x] = report[w][x]
      /\ touched'[w] = touched[w] /\ \A x \in Keys \ {k} : live'[x] = live[x]
  BY <1>3 DEF SetLive, TypeOK, JobOK, LiveOK, Captured
<1>5. \A x \in Captured(id[w]) \ (todo[w] \ {k}) :
         report'[w][x] = "failed" \/ x \in touched[w] \/ Matches(id[w], x)'
  BY <1>1, <1>3, <1>4 DEF PutBack, Matches, Captured
<1>6. PutBack(w)'
  BY <1>1, <1>2, <1>3, <1>4, <1>5 DEF PutBack
<1>7. faults' # 0
  BY DEF RestoreFails, Fault, TypeOK
<1>8. QED  BY <1>6, <1>7 DEF Fine, Undisturbed

LEMMA FinishesFine ==
  ASSUME RestoreInvariant, NEW w \in Workers, Finish(w), Restoring(w)'
  PROVE  Fine(w)'
<1> USE DEF RestoreInvariant, CommitInvariant
<1>1. /\ Restoring(w) /\ pc[w] = "next" /\ pc'[w] = "done" /\ todo[w] = {}
      /\ UNCHANGED <<live, snap, stored, sums, doomed, faults, touched, id, todo, report>>
  BY DEF Finish, Goto, Restoring, bucket, history, TypeOK, JobOK
<1>2. Fine(w) /\ Captured(id[w])' = Captured(id[w])
  BY <1>1 DEF Restoration, Fine, Captured
<1>3. QED  BY <1>1, <1>2 DEF Fine, PutBack, Undisturbed, AllWell, Reported, Matches

\* A report is only written by a restore, and forgotten when it is collected.
LEMMA ReportsAreRestores ==
  ASSUME RestoreInvariant, NEW w \in Workers, StepOf(w), pc'[w] = "idle" \/ op'[w] \in {"create", "delete"}
  PROVE  report'[w] = NotReported
<1> USE DEF RestoreInvariant, CommitInvariant
<1>1. CASE Collect(w)
  BY <1>1 DEF Collect, TypeOK, JobOK
<1>2. CASE Create(w) \/ Delete(w) \/ Aborts(w) \/ Finish(w)
  <2>1. UNCHANGED report /\ (pc[w] = "idle" \/ op[w] = op'[w]) /\ pc'[w] # "idle"
    BY <1>2 DEF Create, Delete, BeginCreate, CreateCopy, CreateHead, CreateFails, CreateCommit,
       CommitFails, ReadyToCommit, BeginDelete, DeleteOne, DeleteOneFails, Aborts, Finish, StartJob,
       Take, Strike, Goto, Doing, TypeOK, JobOK
  <2>2. QED  BY <2>1 DEF Restoration
<1>3. CASE Restore(w)
  <2>1. CASE GetFails(w)
    <3>1. UNCHANGED report /\ pc[w] = "idle"
      BY <2>1 DEF GetFails, StartRaised
    <3>2. QED  BY <3>1 DEF Restoration
  <2>2. CASE ~GetFails(w)
    BY <1>3, <2>2 DEF Restore, BeginRestore, RestoreCopy, RestoreHead, RestoreFails, StartJob,
       StartRaised, Take, TakeFailed, Report, Doing, TypeOK, JobOK
  <2>3. QED  BY <2>1, <2>2
<1>4. QED  BY <1>1, <1>2, <1>3 DEF StepOf

LEMMA RestorationPreserved ==
  ASSUME RestoreInvariant, [Next]_vars
  PROVE  Restoration'
<1> SUFFICES ASSUME NEW v \in Workers
             PROVE  /\ pc'[v] = "idle" \/ op'[v] \in {"create", "delete"} => report'[v] = NotReported
                    /\ Restoring(v)' => Fine(v)'
  BY DEF Restoration, Fine
<1> USE DEF RestoreInvariant, CommitInvariant
<1>1. ASSUME Bystander(v)
      PROVE  /\ pc'[v] = "idle" \/ op'[v] \in {"create", "delete"} => report'[v] = NotReported
             /\ Restoring(v)' => Fine(v)'
  <2>1. pc'[v] = "idle" \/ op'[v] \in {"create", "delete"} => report'[v] = NotReported
    BY <1>1 DEF Bystander, Restoration
  <2>2. Restoring(v)' => Restoring(v)
    BY <1>1 DEF Bystander, Restoring
  <2>3. QED  BY <1>1, <2>1, <2>2, BystanderIsFine DEF Fine
<1>2. ASSUME NEW k \in Keys, ClientPut(k) \/ ClientDelete(k) PROVE Bystander(v)
  <2>1. UNCHANGED job /\ \E object : SetLive(k, object, NoWorker)
    BY <1>2 DEF ClientPut, ClientDelete
  <2>2. NoWorker # v
    BY SnapshotAssumption
  <2>3. Restoring(v) => Noticed(v)
    BY <2>1, <2>2, ChangeIsNoticed DEF Restoring, TypeOK
  <2>4. QED  BY <2>1, <2>3 DEF Bystander, job
<1>3. ASSUME NEW w \in Workers \ {v}, StepOf(w) PROVE Bystander(v)
  <2>1. Others(w)
    BY <1>3, OneThreadMoves
  <2>2. CASE RestoreCopy(w) \/ RestoreFails(w) \/ Aborts(w)
    <3>1. \/ UNCHANGED <<live, touched>>
          \/ op[w] = "restore" /\ \E k \in todo[w] : SetLive(k, snap[id[w]][k], w)
      BY <2>2, WritesBack
    <3>2. op[w] = "restore" => todo[w] \subseteq Keys
      BY DEF TypeOK, JobOK
    <3>3. Restoring(v) => Noticed(v)
      BY <3>1, <3>2, ChangeIsNoticed DEF Restoring, Noticed, TypeOK
    <3>4. QED  BY <2>1, <3>3 DEF Bystander, Others
  <2>3. CASE ~(RestoreCopy(w) \/ RestoreFails(w) \/ Aborts(w))
    <3>1. UNCHANGED live
      BY <1>3, <2>3 DEF StepOf, Create, Restore, Delete, BeginCreate, CreateCopy, CreateHead, CreateFails,
         CreateCommit, CommitFails, BeginRestore, GetFails, RestoreHead, BeginDelete, DeleteOne,
         DeleteOneFails, Finish, Collect, bucket
    <3>2. UNCHANGED touched \/ \E t : touched' = [touched EXCEPT ![w] = t]
      BY <1>3, <2>3 DEF StepOf, Create, Restore, Delete, BeginCreate, CreateCopy, CreateHead, CreateFails,
         CreateCommit, CommitFails, BeginRestore, GetFails, RestoreHead, BeginDelete, DeleteOne,
         DeleteOneFails, Finish, Collect, history
    <3>3. touched'[v] = touched[v]
      BY <3>2 DEF TypeOK, LiveOK
    <3>4. QED  BY <2>1, <3>1, <3>3 DEF Bystander, Others, Noticed
  <2>4. QED  BY <2>2, <2>3
<1>4. ASSUME StepOf(v) PROVE Restoring(v)' => Fine(v)'
  <2>1. CASE RestoreCopy(v) \/ RestoreHead(v) \/ RestoreFails(v)
    BY <2>1, CopiesFine, HeadsFine, FailsFine
  <2>2. CASE BeginRestore(v) \/ Finish(v)
    BY <2>2, BeginsFine, FinishesFine
  <2>3. CASE Create(v) \/ GetFails(v) \/ Delete(v) \/ Aborts(v) \/ Collect(v)
    BY <2>3 DEF Create, Delete, BeginCreate, CreateCopy, CreateHead, CreateFails, CreateCommit,
       CommitFails, ReadyToCommit, GetFails, BeginDelete, DeleteOne, DeleteOneFails, Aborts, Collect,
       StartJob, StartRaised, Take, Strike, Goto, Doing, Restoring, TypeOK, JobOK
  <2>4. QED  BY <1>4, <2>1, <2>2, <2>3 DEF StepOf, Restore
<1>5. CASE UNCHANGED vars
  BY <1>1, <1>5 DEF vars, job, bucket, history, Bystander, Noticed
<1>6. QED
  <2>1. CASE \E k \in Keys : ClientPut(k) \/ ClientDelete(k)
    BY <1>1, <1>2, <2>1
  <2>2. CASE \E w \in Workers : StepOf(w)
    BY <1>1, <1>3, <1>4, <2>2, ReportsAreRestores
  <2>3. QED  BY <1>5, <2>1, <2>2 DEF Next, Client, StepOf

LEMMA RestoreSafe == Spec => []RestoreInvariant
<1>1. Init => RestoreInvariant
  BY InitInvariant DEF Init, RestoreInvariant, Restoration, Restoring
<1>2. RestoreInvariant /\ [Next]_vars => RestoreInvariant'
  BY TypePreserved, CommitPreserved, RestorationPreserved DEF RestoreInvariant, CommitInvariant
<1>3. QED  BY <1>1, <1>2, PTL DEF Spec

\* A restore report that passed is to be trusted, key by key, unless somebody else
\* changed the key meanwhile.
THEOREM PassedIsAlwaysRestored == Spec => []PassedIsRestored
<1>1. RestoreInvariant => PassedIsRestored
  BY DEF RestoreInvariant, Restoration, Restoring, PutBack, Matches, PassedIsRestored, Passed, Doing, Captured
<1>2. QED  BY <1>1, RestoreSafe, PTL

\* The report of a restore nothing disturbs is exact; it passes if the snapshot has
\* objects and all of them their checksum, and only then.
THEOREM UndisturbedReportIsExact == Spec => []UndisturbedReport
<1>1. RestoreInvariant => UndisturbedReport
  <2>1. SUFFICES ASSUME RestoreInvariant, NEW w \in Workers, Doing(w, "restore", "done"), Undisturbed(w)
                 PROVE  LET i == id[w] IN
                   /\ \A k \in Keys : report[w][k] = IF k \notin Captured(i) THEN "none"
                                                     ELSE IF sums[i][k] = 0 THEN "failed" ELSE "restored"
                   /\ Passed(w) <=> Captured(i) # {} /\ \A k \in Captured(i) : sums[i][k] # 0
    BY DEF UndisturbedReport, Undisturbed
  <2>2. AllWell(w) /\ PutBack(w) /\ pc[w] = "done"
    BY <2>1 DEF RestoreInvariant, Restoration, Restoring, Doing
  <2>3. Reported(w) = Captured(id[w]) /\ Captured(id[w]) \subseteq Keys
    BY <2>2 DEF Reported, PutBack, Captured
  <2>4. \A k \in Keys : report[w][k] = IF k \notin Captured(id[w]) THEN "none"
                                       ELSE IF sums[id[w]][k] = 0 THEN "failed" ELSE "restored"
    BY <2>2, <2>3 DEF AllWell
  <2>5. QED  BY <2>3, <2>4 DEF Passed
<1>2. QED  BY <1>1, RestoreSafe, PTL

=============================================================================
