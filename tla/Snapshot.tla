------------------------------- MODULE Snapshot -------------------------------
(***************************************************************************)
(* SnapshotService (storguard/snapshot/service.py): create, restore and    *)
(* delete of a snapshot, each a sequence of S3 requests, run by several    *)
(* threads while clients write and delete the live objects and requests    *)
(* fail.  The service keeps no state and takes no lock: what its calls     *)
(* share is the bucket.                                                    *)
(*                                                                         *)
(* The bucket is split by prefix into live (a source prefix no other key   *)
(* begins with), snap[i] (".snapshots/<i>/...") and the manifests, stored  *)
(* as the last object of a create.  Other prefixes, and snapshots of a     *)
(* whole bucket, are in SnapshotNamespace.                                 *)
(*                                                                         *)
(* Objects are as in ReplicationSync: a body, and a sha256 metadata entry  *)
(* equal to it or missing (0).  A server-side copy carries both.           *)
(***************************************************************************)
EXTENDS Naturals, FiniteSets

CONSTANTS
  Keys,          \* relative keys under the source prefix
  Ids,           \* snapshot ids uuid4 can draw
  Workers,       \* threads that call the service
  MaxBody,       \* bound: contents written per key
  MaxFaults,     \* bound: failed requests
  FaultKinds,    \* the failures of this instance, a subset of AllFaults
  Untagged,      \* the <<key, content>> that clients store without sha256 metadata
  ManifestKey,   \* "_manifest.json"
  NoWorker,      \* which worker a client is: none
  NotCaptured    \* no entry in a manifest

\* An S3 error answer, a request with no answer, and an error deleting.
AllFaults == {"error", "transport", "delete_error"}

ASSUME SnapshotAssumption ==
  /\ MaxBody \in Nat /\ MaxFaults \in Nat
  /\ FaultKinds \subseteq AllFaults
  /\ Untagged \subseteq Keys \X Nat
  /\ ManifestKey \notin Keys
  /\ NoWorker \notin Workers /\ NotCaptured \notin Nat
  /\ Keys # {} /\ Ids # {}

VARIABLES
  live,      \* live[k]: the object under the source prefix
  snap,      \* snap[i][k]: the object under .snapshots/i/
  stored,    \* the ids whose manifest object is in the bucket
  sums,      \* sums[i][k]: manifest.objects of i, NotCaptured where k is not in it
  op,        \* op[w]: the method worker w is in
  pc,        \* pc[w]: where in it
  id,        \* id[w]: the snapshot it works on
  todo,      \* todo[w]: what it listed and has not taken up
  key,       \* key[w]: the key in hand
  report,    \* report[w][k]: where k stands in the RestoreReport
  faults,    \* failures so far
  latest,    \* history: contents written to each key so far
  used,      \* history: ids drawn
  doomed,    \* history: ids whose deletion has begun
  moments,   \* history: moments[w], the states live went through during w's create
  touched    \* history: touched[w], keys others changed since w's call began

bucket  == <<live, snap, stored>>
job     == <<op, pc, id, todo, key, report>>
history == <<latest, used, doomed, moments, touched>>
vars    == <<bucket, sums, job, faults, history>>

Object      == [body : Nat, sha : Nat]
Absent      == [body |-> 0, sha |-> 0]
Stored(k, n) == [body |-> n, sha |-> IF <<k, n>> \in Untagged THEN 0 ELSE n]
Bodies(l)   == [k \in Keys |-> l[k].body]
\* Mutant: the listing takes in a manifest.
ListsManifest == {k \in Keys : live[k].body # 0} \cup {ManifestKey}
Listed      == {k \in Keys : live[k].body # 0}
Captured(i) == {k \in Keys : sums[i][k] # NotCaptured}

NotReported == [k \in Keys |-> "none"]

Init ==
  /\ live   = [k \in Keys |-> Absent]
  /\ snap   = [i \in Ids |-> [k \in Keys |-> Absent]]
  /\ stored = {}
  /\ sums   = [i \in Ids |-> [k \in Keys |-> NotCaptured]]
  /\ op   = [w \in Workers |-> "none"]
  /\ pc   = [w \in Workers |-> "idle"]
  /\ id   = [w \in Workers |-> CHOOSE i \in Ids : TRUE]
  /\ todo = [w \in Workers |-> {}]
  /\ key  = [w \in Workers |-> CHOOSE k \in Keys : TRUE]
  /\ report  = [w \in Workers |-> NotReported]
  /\ faults  = 0
  /\ latest  = [k \in Keys |-> 0]
  /\ used    = {}
  /\ doomed  = {}
  /\ moments = [w \in Workers |-> {}]
  /\ touched = [w \in Workers |-> {}]

-----------------------------------------------------------------------------
\* Every change of a live object, by a client (NoWorker) or by a restore.
SetLive(k, object, by) ==
  /\ live' = [live EXCEPT ![k] = object]
  /\ moments' = [w \in Workers |-> IF moments[w] = {} THEN {}
                                   ELSE moments[w] \cup {Bodies(live')}]
  /\ touched' = [w \in Workers |-> IF op[w] # "restore" \/ w = by THEN touched[w]
                                   ELSE touched[w] \cup {k}]

ClientPut(k) ==
  /\ latest[k] < MaxBody
  /\ latest' = [latest EXCEPT ![k] = @ + 1]
  /\ SetLive(k, Stored(k, latest'[k]), NoWorker)
  /\ UNCHANGED <<snap, stored, sums, job, faults, used, doomed>>

ClientDelete(k) ==
  /\ live[k].body # 0
  /\ SetLive(k, Absent, NoWorker)
  /\ UNCHANGED <<snap, stored, sums, job, faults, latest, used, doomed>>

-----------------------------------------------------------------------------
Fault(kind) == /\ kind \in FaultKinds
               /\ faults < MaxFaults
               /\ faults' = faults + 1

Doing(w, method, where) == op[w] = method /\ pc[w] = where

Goto(w, where) == /\ pc' = [pc EXCEPT ![w] = where]
                  /\ UNCHANGED <<op, id, todo, key, report>>

\* A call begins, with what it listed to do.
StartJob(w, method, i, listing) ==
  /\ op'   = [op EXCEPT ![w] = method]
  /\ pc'   = [pc EXCEPT ![w] = "next"]
  /\ id'   = [id EXCEPT ![w] = i]
  /\ todo' = [todo EXCEPT ![w] = listing]
  /\ UNCHANGED <<key, report>>

\* A call that ends in an exception before it has done anything.
StartRaised(w, method, i) ==
  /\ op' = [op EXCEPT ![w] = method]
  /\ pc' = [pc EXCEPT ![w] = "raised"]
  /\ id' = [id EXCEPT ![w] = i]
  /\ todo' = [todo EXCEPT ![w] = {}]
  /\ UNCHANGED <<key, report>>

\* The next listed key is taken up, and its first request answered.
Take(w, k, where) ==
  /\ todo' = [todo EXCEPT ![w] = @ \ {k}]
  /\ key'  = [key EXCEPT ![w] = k]
  /\ pc'   = [pc EXCEPT ![w] = where]
  /\ UNCHANGED <<op, id, report>>

-----------------------------------------------------------------------------
(* create: copy what is listed, write the manifest last.                   *)

BeginCreate(w) ==
  /\ pc[w] = "idle"
  /\ \E i \in Ids \ used :
       /\ used' = used \cup {i}
       /\ StartJob(w, "create", i, Listed)
  /\ moments' = [moments EXCEPT ![w] = {Bodies(live)}]
  /\ touched' = [touched EXCEPT ![w] = {}]
  /\ UNCHANGED <<bucket, sums, faults, latest, doomed>>

\* The server-side copy; the 404 of a key deleted since the listing becomes a
\* RuntimeError.  What was copied so far stays in the bucket.
CreateCopy(w) ==
  /\ Doing(w, "create", "next")
  /\ \E k \in todo[w] :
       \/ /\ live[k].body # 0
          /\ snap' = [snap EXCEPT ![id[w]][k] = live[k]]
          /\ Take(w, k, "head")
       \/ /\ live[k].body = 0
          /\ Take(w, k, "raised")
          /\ UNCHANGED snap
  /\ UNCHANGED <<live, stored, sums, faults, history>>

\* Mutant: the checksum is read off the live object instead of its copy.
CreateHeadsSource(w) ==
  /\ Doing(w, "create", "head")
  /\ sums' = [sums EXCEPT ![id[w]][key[w]] = live[key[w]].sha]
  /\ Goto(w, "next")
  /\ UNCHANGED <<bucket, faults, history>>

\* copy_object's HEAD of the copy; a missing checksum is recorded as "" (0).
CreateHead(w) ==
  /\ Doing(w, "create", "head")
  /\ LET i == id[w]  k == key[w] IN
       sums' = [sums EXCEPT ![i][k] = snap[i][k].sha]
  /\ Goto(w, "next")
  /\ UNCHANGED <<bucket, faults, history>>

\* An error answer to the copy or to the HEAD is a RuntimeError; no answer is an
\* exception of botocore's.  The copy may have been made.
CreateFails(w) ==
  /\ Fault("error") \/ Fault("transport")
  /\ \/ /\ Doing(w, "create", "head")
        /\ Goto(w, "raised")
        /\ UNCHANGED snap
     \/ /\ Doing(w, "create", "next")
        /\ \E k \in todo[w] :
             /\ Take(w, k, "raised")
             /\ \/ UNCHANGED snap
                \/ live[k].body # 0 /\ snap' = [snap EXCEPT ![id[w]][k] = live[k]]
  /\ UNCHANGED <<live, stored, sums, history>>

\* Mutant: the manifest is written before the copies.
CommitsEarly(w) == Doing(w, "create", "next")

ReadyToCommit(w) == Doing(w, "create", "next") /\ todo[w] = {}

\* Mutant: the manifest is written anew after every object.
CommitsAsItGoes(w) ==
  /\ Doing(w, "create", "next")
  /\ stored' = stored \cup {id[w]}
  /\ Goto(w, IF todo[w] = {} THEN "done" ELSE "next")
  /\ UNCHANGED <<live, snap, sums, faults, history>>

CreateCommit(w) ==
  /\ ReadyToCommit(w)
  /\ stored' = stored \cup {id[w]}
  /\ Goto(w, "done")
  /\ UNCHANGED <<live, snap, sums, faults, history>>

\* The manifest upload fails, and may have been stored all the same.
CommitFails(w) ==
  /\ ReadyToCommit(w)
  /\ Fault("error") \/ Fault("transport")
  /\ stored' \in {stored, stored \cup {id[w]}}
  /\ Goto(w, "raised")
  /\ UNCHANGED <<live, snap, sums, history>>

-----------------------------------------------------------------------------
(* restore: copy every key of the manifest back and compare checksums.     *)

\* The ids a caller can know: those list() shows or has shown.
Known == stored \cup doomed

\* get() reads the manifest; without one it raises ValueError.
BeginRestore(w) ==
  /\ pc[w] = "idle"
  /\ \E i \in Known : IF i \in stored THEN StartJob(w, "restore", i, Captured(i))
                                      ELSE StartRaised(w, "restore", i)
  /\ moments' = [moments EXCEPT ![w] = {}]
  /\ touched' = [touched EXCEPT ![w] = {}]
  /\ UNCHANGED <<bucket, sums, faults, latest, used, doomed>>

\* get()'s download, or delete()'s listing, is refused or not answered.
GetFails(w) ==
  /\ pc[w] = "idle"
  /\ Fault("error") \/ Fault("transport")
  /\ \E i \in Known, method \in {"restore", "delete"} : StartRaised(w, method, i)
  /\ UNCHANGED <<bucket, sums, history>>

\* Mutant: a copy that failed is reported restored.
TakeUnnoticed(w, k) ==
  /\ todo'   = [todo EXCEPT ![w] = @ \ {k}]
  /\ report' = [report EXCEPT ![w][k] = "restored"]
  /\ UNCHANGED <<op, pc, id, key>>

\* A key that was not restored.
TakeFailed(w, k) ==
  /\ todo'   = [todo EXCEPT ![w] = @ \ {k}]
  /\ report' = [report EXCEPT ![w][k] = "failed"]
  /\ UNCHANGED <<op, pc, id, key>>

\* The key in hand is reported.
Report(w, result) ==
  /\ report' = [report EXCEPT ![w][key[w]] = result]
  /\ pc' = [pc EXCEPT ![w] = "next"]
  /\ UNCHANGED <<op, id, todo, key>>

\* The copy back; a copy that is missing from the snapshot is a failed key.
RestoreCopy(w) ==
  /\ Doing(w, "restore", "next")
  /\ \E k \in todo[w] :
       LET object == snap[id[w]][k] IN
         \/ /\ object.body # 0
            /\ SetLive(k, object, w)
            /\ Take(w, k, "head")
         \/ /\ object.body = 0
            /\ TakeFailed(w, k)
            /\ UNCHANGED <<live, moments, touched>>
  /\ UNCHANGED <<snap, stored, sums, faults, latest, used, doomed>>

\* The checksum on the live object now is the manifest's.  A missing one is None
\* here and "" in the manifest: they differ.
Verified(w) ==
  LET i == id[w]  k == key[w] IN
    live[k].sha # 0 /\ live[k].sha = sums[i][k]

\* copy_object's HEAD of the live object, and the comparison; a 404 is a failure.
RestoreHead(w) ==
  /\ Doing(w, "restore", "head")
  /\ Report(w, IF Verified(w) THEN "restored" ELSE "failed")
  /\ UNCHANGED <<bucket, sums, faults, history>>

\* An error answer to the copy (made or not) or the HEAD is a failed key.
RestoreFails(w) ==
  /\ Fault("error")
  /\ \/ /\ Doing(w, "restore", "head")
        /\ Report(w, "failed")
        /\ UNCHANGED <<live, moments, touched>>
     \/ /\ Doing(w, "restore", "next")
        /\ \E k \in todo[w] :
             /\ TakeFailed(w, k)
             /\ \/ UNCHANGED <<live, moments, touched>>
                \/ snap[id[w]][k].body # 0 /\ SetLive(k, snap[id[w]][k], w)
  /\ UNCHANGED <<snap, stored, sums, latest, used, doomed>>

-----------------------------------------------------------------------------
(* delete: list the snapshot, delete object by object.                     *)

\* Mutant: only the manifest is listed.
ManifestOnly(i) == IF i \in stored THEN {ManifestKey} ELSE {}

UnderPrefix(i) == {k \in Keys : snap[i][k].body # 0}
                    \cup (IF i \in stored THEN {ManifestKey} ELSE {})

BeginDelete(w) ==
  /\ pc[w] = "idle"
  /\ \E i \in Known :
       /\ StartJob(w, "delete", i, UnderPrefix(i))
       /\ doomed' = doomed \cup {i}
  /\ moments' = [moments EXCEPT ![w] = {}]
  /\ touched' = [touched EXCEPT ![w] = {}]
  /\ UNCHANGED <<bucket, sums, faults, latest, used>>

Strike(w, x) == /\ todo' = [todo EXCEPT ![w] = @ \ {x}]
                /\ UNCHANGED <<op, pc, id, key, report>>

\* The bucket loses the object a delete has in hand, the manifest or a copy.
Drop(i, x) ==
  IF x = ManifestKey
    THEN stored' = stored \ {i} /\ UNCHANGED snap
    ELSE snap' = [snap EXCEPT ![i][x] = Absent] /\ UNCHANGED stored

\* One object of the listing goes; S3 answers 204 whether or not it was there.
DeleteOne(w) ==
  /\ Doing(w, "delete", "next")
  /\ \E x \in todo[w] : Strike(w, x) /\ Drop(id[w], x)
  /\ UNCHANGED <<live, sums, faults, history>>

\* delete_object's error result is not looked at, whether the object went or not.
DeleteOneFails(w) ==
  /\ Doing(w, "delete", "next")
  /\ Fault("delete_error")
  /\ \E x \in todo[w] : Strike(w, x) /\ (UNCHANGED <<snap, stored>> \/ Drop(id[w], x))
  /\ UNCHANGED <<live, sums, history>>

\* No answer at all ends a restore or a delete at its next request.  The copy or the
\* deletion asked for may have been made.
Aborts(w) ==
  /\ Fault("transport")
  /\ Goto(w, "raised")
  /\ \/ /\ op[w] \in {"restore", "delete"}
        /\ pc[w] = "head" \/ (pc[w] = "next" /\ todo[w] # {})
        /\ UNCHANGED <<bucket, moments, touched>>
     \/ /\ Doing(w, "restore", "next")
        /\ \E k \in todo[w] : snap[id[w]][k].body # 0 /\ SetLive(k, snap[id[w]][k], w)
        /\ UNCHANGED <<snap, stored>>
     \/ /\ Doing(w, "delete", "next")
        /\ \E x \in todo[w] : Drop(id[w], x)
        /\ UNCHANGED <<live, moments, touched>>
  /\ UNCHANGED <<sums, latest, used, doomed>>

-----------------------------------------------------------------------------
\* A restore or a delete has been through its listing.
Finish(w) ==
  /\ op[w] \in {"restore", "delete"} /\ pc[w] = "next"
  /\ todo[w] = {}
  /\ Goto(w, "done")
  /\ UNCHANGED <<bucket, sums, faults, history>>

\* The caller has looked at the result, and the call's variables are gone.
Collect(w) ==
  /\ pc[w] \in {"done", "raised"}
  /\ op' = [op EXCEPT ![w] = "none"]
  /\ pc' = [pc EXCEPT ![w] = "idle"]
  /\ id' = [id EXCEPT ![w] = CHOOSE i \in Ids : TRUE]
  /\ todo' = [todo EXCEPT ![w] = {}]
  /\ key' = [key EXCEPT ![w] = CHOOSE k \in Keys : TRUE]
  /\ report' = [report EXCEPT ![w] = NotReported]
  /\ moments' = [moments EXCEPT ![w] = {}]
  /\ touched' = [touched EXCEPT ![w] = {}]
  /\ UNCHANGED <<bucket, sums, faults, latest, used, doomed>>

Client == \E k \in Keys : ClientPut(k) \/ ClientDelete(k)

Create(w)  == BeginCreate(w) \/ CreateCopy(w) \/ CreateHead(w) \/ CreateFails(w)
                \/ CreateCommit(w) \/ CommitFails(w)
Restore(w) == BeginRestore(w) \/ GetFails(w) \/ RestoreCopy(w) \/ RestoreHead(w) \/ RestoreFails(w)
Delete(w)  == BeginDelete(w) \/ DeleteOne(w) \/ DeleteOneFails(w)

Next == Client \/ \E w \in Workers : \/ Create(w) \/ Restore(w) \/ Delete(w)
                                     \/ Aborts(w) \/ Finish(w) \/ Collect(w)

Spec == Init /\ [][Next]_vars

-----------------------------------------------------------------------------
(* Properties.                                                             *)

JobOK ==
  /\ op \in [Workers -> {"none", "create", "restore", "delete"}]
  /\ pc \in [Workers -> {"idle", "next", "head", "done", "raised"}]
  /\ id \in [Workers -> Ids]
  /\ todo \in [Workers -> SUBSET (Keys \cup {ManifestKey})]
  /\ \A w \in Workers : op[w] # "delete" => todo[w] \subseteq Keys
  /\ key \in [Workers -> Keys]
  /\ report \in [Workers -> [Keys -> {"none", "restored", "failed"}]]

LiveOK == /\ live \in [Keys -> Object]
          /\ moments \in [Workers -> SUBSET [Keys -> Nat]]
          /\ touched \in [Workers -> SUBSET Keys]

\* Type invariant: every variable stays in its domain.
TypeOK ==
  /\ JobOK
  /\ LiveOK
  /\ snap \in [Ids -> [Keys -> Object]]
  /\ stored \subseteq Ids
  /\ sums \in [Ids -> [Keys -> Nat \cup {NotCaptured}]]
  /\ faults \in Nat
  /\ latest \in [Keys -> Nat]
  /\ used \subseteq Ids /\ doomed \subseteq Ids

\* The manifest is the commit point (create, 84-100): a snapshot that list() shows
\* and nobody has begun to delete has a copy of every key its manifest names, with
\* the checksum the manifest gives; a create that fails half way is never shown.
ListedIsComplete ==
  \A i \in stored \ doomed : \A k \in Captured(i) :
    snap[i][k].body # 0 /\ snap[i][k].sha = sums[i][k]

Created(w) == Doing(w, "create", "done")

\* Key by key a snapshot is of the time of its creation: what create returns holds
\* of each key a content it had while create ran, and leaves a key out only if it
\* was absent at some moment of it.
CapturedInWindow ==
  \A w \in Workers : Created(w) /\ id[w] \notin doomed =>
    \A k \in Keys : LET seen == {m[k] : m \in moments[w]}  i == id[w] IN
      IF k \in Captured(i) THEN snap[i][k].body \in seen \ {0} ELSE 0 \in seen

\* A restore report that passed is to be trusted (RestoreReport.passed): every key
\* of the manifest that no one else changed meanwhile is live again with the
\* checksum the snapshot was taken with, even while the snapshot is being deleted.
Passed(w) == /\ \E k \in Keys : report[w][k] = "restored"
             /\ \A k \in Keys : report[w][k] # "failed"
PassedIsRestored ==
  \A w \in Workers : Doing(w, "restore", "done") /\ Passed(w) =>
    \A k \in Captured(id[w]) \ touched[w] :
      live[k].sha # 0 /\ live[k].sha = sums[id[w]][k]

\* The report of a restore that nothing disturbs, no failed request, no writer, and no
\* deletion of the snapshot, is exact: restored is every key of the manifest that was
\* captured with its checksum, failed is every other.  So it passes if the snapshot has
\* objects and all of them carry their checksum (test_snapshot.py asserts report.passed
\* of such), and only then: an empty snapshot does not pass (RestoreReport.passed,
\* 66-68), and an object stored without its checksum is reported failed.
UndisturbedReport ==
  \A w \in Workers :
    Doing(w, "restore", "done") /\ faults = 0 /\ touched[w] = {} /\ id[w] \notin doomed =>
      LET i == id[w] IN
        /\ \A k \in Keys : report[w][k] = IF k \notin Captured(i) THEN "none"
                                          ELSE IF sums[i][k] = 0 THEN "failed" ELSE "restored"
        /\ Passed(w) <=> Captured(i) # {} /\ \A k \in Captured(i) : sums[i][k] # 0

\* delete() leaves nothing of the snapshot ("Deleting a snapshot removes its stored
\* objects and manifest", test_snapshot.py), whoever restores or deletes it meanwhile,
\* as long as no request fails (a failed deletion is not noticed: the method returns
\* as if it had been made).
DeleteRemoves ==
  \A w \in Workers : Doing(w, "delete", "done") /\ faults = 0 =>
    /\ id[w] \notin stored
    /\ \A k \in Keys : snap[id[w]][k] = Absent

-----------------------------------------------------------------------------
\* What a reader of a listed snapshot is promised: the body of every key in the manifest.
Promised(i) == [k \in Captured(i) |-> snap[i][k].body]

StateOf(i) == IF i \in doomed THEN "given up" ELSE IF i \in stored THEN "published" ELSE "unseen"

ContentOf(i) == IF StateOf(i) = "published" THEN Promised(i) ELSE [k \in {} |-> 0]

Ledger == INSTANCE SnapshotLedger WITH
  Missing <- 0,
  state   <- [i \in Ids |-> StateOf(i)],
  content <- [i \in Ids |-> ContentOf(i)]

\* The service implements SnapshotLedger: whatever creates, restores, deletes, clients
\* and failed requests do meanwhile, what a listed snapshot holds never changes, and a
\* deleted one never comes back.
LedgerSpec == Ledger!Spec

=============================================================================
