---------------------------- MODULE ReplicationSync ----------------------------
(***************************************************************************)
(* ReplicationWorker.sync_once (storguard/replication/worker.py), between  *)
(* two S3 endpoints, while clients write and delete objects on the primary *)
(* and requests fail.                                                      *)
(*                                                                         *)
(* Every S3 request is one step, so anything may happen between the HEAD   *)
(* that reads a key's checksum, the GET that reads its body, the PUT on    *)
(* the secondary and the locked update of the checksum table.              *)
(*                                                                         *)
(* Data.  A body is a number: the n-th distinct content written to a key   *)
(* is n, and 0 stands for "no object" / "no checksum".  An object is       *)
(* [body, sha]; sha is the body for an object uploaded with the sha256     *)
(* metadata S3Client.upload_object attaches, 0 for one stored without it.  *)
(* Distinct bodies have distinct SHA-256 sums, so a checksum is a body.    *)
(*                                                                         *)
(* Left out: prefixes (Keys is what lies under the prefix), timings, lists *)
(* longer than one page (the listing is one step).                         *)
(***************************************************************************)
EXTENDS Naturals, FiniteSets

CONSTANTS
  Keys,          \* object names under the worker's prefix
  Syncers,       \* the threads that call sync_once on this worker
  MaxBody,       \* bound: distinct contents a client writes per key
  MaxFaults,     \* bound: failed requests and crashes in a behaviour
  FaultKinds,    \* the failures of this instance, a subset of AllFaults
  Tagging,       \* {TRUE}: every object has sha256 metadata; BOOLEAN: some lack it
  Deletes,       \* whether clients delete objects
  ContentReuse   \* whether a client may write a key's earlier content again

AllFaults == {"list_error", "head_error", "get_error", "put_error", "transport", "crash"}

ASSUME ConstantsAssumption ==
  /\ MaxBody \in Nat /\ MaxFaults \in Nat
  /\ FaultKinds \subseteq AllFaults
  /\ Tagging \subseteq BOOLEAN
  /\ Deletes \in BOOLEAN /\ ContentReuse \in BOOLEAN

VARIABLES
  primary,     \* primary[k]: the object under k on the primary
  secondary,   \* secondary[k]: the body under k on the secondary, 0 for none
  recorded,    \* _replicated_checksums: recorded[k], 0 when k is not in it
  pc,          \* pc[s]: the next statement of s's call of sync_once
  todo,        \* todo[s]: listed keys the call has not taken up
  hand,        \* hand[s]: the key in hand, its checksum and its body
  outcome,     \* outcome[s][k]: where k stands in the status being built
  faults,      \* failures so far
  latest,      \* history: latest[k], the number of contents written to k
  clean,       \* history: clean[s], listed keys no client has touched since
  mixed,       \* history: mixed[s], a client has touched the key in hand since its HEAD
  settled      \* history: keys whose last upload was recorded and not mixed

store   == <<primary, secondary>>
local   == <<pc, todo, hand, outcome>>
history == <<latest, clean, mixed, settled>>
vars    == <<store, recorded, local, faults, history>>

Object == [body : Nat, sha : Nat]
Absent == [body |-> 0, sha |-> 0]
PCs    == {"idle", "next", "head", "compare", "get", "put", "record", "done", "raised"}
InHand == [key : Keys, sha : Nat, body : Nat]

Exists(k)   == primary[k].body # 0
Listed      == {k \in Keys : Exists(k)}
NothingDone == [k \in Keys |-> "none"]

Init ==
  /\ primary   = [k \in Keys |-> Absent]
  /\ secondary = [k \in Keys |-> 0]
  /\ recorded  = [k \in Keys |-> 0]
  /\ pc      = [s \in Syncers |-> "idle"]
  /\ todo    = [s \in Syncers |-> {}]
  /\ hand    \in [Syncers -> {[key |-> k, sha |-> 0, body |-> 0] : k \in Keys}]
  /\ outcome = [s \in Syncers |-> NothingDone]
  /\ faults  = 0
  /\ latest  = [k \in Keys |-> 0]
  /\ clean   = [s \in Syncers |-> {}]
  /\ mixed   = [s \in Syncers |-> FALSE]
  /\ settled = {}

-----------------------------------------------------------------------------
(* Clients of the primary.                                                 *)

\* What the calls in progress know of k, as history, when a client touches it.
Disturbs(k) ==
  /\ clean' = [s \in Syncers |-> clean[s] \ {k}]
  /\ mixed' = [s \in Syncers |->
                 mixed[s] \/ (pc[s] \in {"compare", "get"} /\ hand[s].key = k)]
  /\ UNCHANGED settled

\* Mutant: an overwrite keeps the checksum of what it replaces.
PutKeepsSum(k) ==
  /\ primary' = [primary EXCEPT ![k] = [body |-> latest[k] + 1,
                                       sha |-> IF Exists(k) THEN @.sha ELSE latest[k] + 1]]
  /\ latest[k] < MaxBody
  /\ latest'  = [latest EXCEPT ![k] = @ + 1]
  /\ Disturbs(k)
  /\ UNCHANGED <<secondary, recorded, local, faults>>

\* An upload to the primary: new content or, under ContentReuse, content the
\* key has had before.
ClientPut(k) ==
  \E tagged \in Tagging, b \in 1 .. MaxBody :
    /\ \/ b = latest[k] + 1
       \/ ContentReuse /\ b <= latest[k]
    /\ primary' = [primary EXCEPT ![k] = [body |-> b, sha |-> IF tagged THEN b ELSE 0]]
    /\ latest'  = [latest EXCEPT ![k] = IF b > @ THEN b ELSE @]
    /\ Disturbs(k)
    /\ UNCHANGED <<secondary, recorded, local, faults>>

ClientDelete(k) ==
  /\ Deletes /\ Exists(k)
  /\ primary' = [primary EXCEPT ![k] = Absent]
  /\ Disturbs(k)
  /\ UNCHANGED <<secondary, recorded, local, faults, latest>>

-----------------------------------------------------------------------------
(* Failures.  A fault of a kind the instance does not have never happens.  *)

Fault(kind) == /\ kind \in FaultKinds
               /\ faults < MaxFaults
               /\ faults' = faults + 1

\* The outcome of a PUT that was sent and not answered: it took effect or not.
PutMayLand(s) == \/ secondary' = [secondary EXCEPT ![hand[s].key] = hand[s].body]
                 \/ UNCHANGED secondary

\* A PUT of s is sent: nothing is settled of its key until it is recorded.
Unsettles(s) == /\ settled' = settled \ {hand[s].key}
                /\ UNCHANGED <<latest, clean, mixed>>

Goto(s, where) == pc' = [pc EXCEPT ![s] = where]

Report(s, result) == outcome' = [outcome EXCEPT ![s][hand[s].key] = result]

-----------------------------------------------------------------------------
(* sync_once, statement by statement.                                      *)

\* The call begins: a fresh status, and the keys listed off the primary.
BeginSync(s) ==
  /\ pc[s] = "idle"
  /\ todo'    = [todo EXCEPT ![s] = Listed]
  /\ clean'   = [clean EXCEPT ![s] = Listed]
  /\ outcome' = [outcome EXCEPT ![s] = NothingDone]
  /\ Goto(s, "next")
  /\ UNCHANGED <<store, recorded, hand, faults, latest, mixed, settled>>

\* list_objects has no handler: the exception leaves sync_once.
ListFails(s) ==
  /\ pc[s] = "idle"
  /\ Fault("list_error")
  /\ Goto(s, "raised")
  /\ UNCHANGED <<store, recorded, todo, hand, outcome, history>>

\* The for loop takes a key.  Keys come in some order; here in any order.
TakeKey(s) ==
  /\ pc[s] = "next"
  /\ \E k \in todo[s] :
       /\ todo' = [todo EXCEPT ![s] = @ \ {k}]
       /\ hand' = [hand EXCEPT ![s] = [key |-> k, sha |-> 0, body |-> 0]]
  /\ Goto(s, "head")
  /\ UNCHANGED <<store, recorded, outcome, faults, history>>

\* get_object_metadata answers with the checksum, and raises the 404 of a key
\* deleted since the listing, which sync_once does not catch.
HeadObject(s) ==
  /\ pc[s] = "head"
  /\ LET k == hand[s].key IN
       \/ /\ Exists(k)
          /\ hand' = [hand EXCEPT ![s].sha = primary[k].sha]
          /\ Goto(s, "compare")
       \/ /\ ~Exists(k)
          /\ Goto(s, "raised")
          /\ UNCHANGED hand
  /\ mixed' = [mixed EXCEPT ![s] = FALSE]
  /\ UNCHANGED <<store, recorded, todo, outcome, faults, latest, clean, settled>>

HeadFails(s) ==
  /\ pc[s] = "head"
  /\ Fault("head_error")
  /\ Goto(s, "raised")
  /\ UNCHANGED <<store, recorded, todo, hand, outcome, history>>

\* Mutants: skip whatever is in the table; never skip.
SkipsKnownKeys(s) == recorded[hand[s].key] # 0
NeverSkips(s) == FALSE

\* The object in hand carries a checksum, and the table has this very one.
AlreadyReplicated(s) == hand[s].sha # 0 /\ recorded[hand[s].key] = hand[s].sha

\* Under the lock: skip a key already replicated.
Compare(s) ==
  /\ pc[s] = "compare"
  /\ IF AlreadyReplicated(s)
       THEN Goto(s, "next")
       ELSE Goto(s, "get")
  /\ UNCHANGED <<store, recorded, todo, hand, outcome, faults, history>>

\* download_bytes reads whatever body is there now, or None if the key is gone.
Download(s) ==
  /\ pc[s] = "get"
  /\ LET k == hand[s].key IN
       \/ /\ Exists(k)
          /\ hand' = [hand EXCEPT ![s].body = primary[k].body]
          /\ Goto(s, "put")
          /\ UNCHANGED outcome
       \/ /\ ~Exists(k)
          /\ Report(s, "failed")
          /\ Goto(s, "next")
          /\ UNCHANGED hand
  /\ UNCHANGED <<store, recorded, todo, faults, history>>

\* Mutant: no test for None, an empty body is uploaded.
UploadsNothing(s) ==
  /\ pc[s] = "get"
  /\ Fault("get_error")
  /\ hand' = [hand EXCEPT ![s].body = 0]
  /\ Goto(s, "put")
  /\ UNCHANGED <<store, recorded, todo, outcome, history>>

DownloadFails(s) ==
  /\ pc[s] = "get"
  /\ Fault("get_error")
  /\ Report(s, "failed")
  /\ Goto(s, "next")
  /\ UNCHANGED <<store, recorded, todo, hand, history>>

Upload(s) ==
  /\ pc[s] = "put"
  /\ secondary' = [secondary EXCEPT ![hand[s].key] = hand[s].body]
  /\ Goto(s, "record")
  /\ Unsettles(s)
  /\ UNCHANGED <<primary, recorded, todo, hand, outcome, faults>>

\* An error answer to the PUT (a 5xx the retries did not cure): the key is
\* reported failed, though the server may have stored the body.
UploadFails(s) ==
  /\ pc[s] = "put"
  /\ Fault("put_error")
  /\ PutMayLand(s)
  /\ Unsettles(s)
  /\ Report(s, "failed")
  /\ Goto(s, "next")
  /\ UNCHANGED <<primary, recorded, todo, hand>>

\* Mutant: record what the primary holds by now.
RecordsCurrentSum(s) == primary[hand[s].key].body

\* What goes into the table: the checksum HEAD returned, or the uploaded body's
\* own when the object had none.
SumToRecord(s) == IF hand[s].sha # 0 THEN hand[s].sha ELSE hand[s].body

\* Under the lock again.
Record(s) ==
  /\ pc[s] = "record"
  /\ recorded' = [recorded EXCEPT ![hand[s].key] = SumToRecord(s)]
  /\ Report(s, "replicated")
  /\ Goto(s, "next")
  /\ settled' = IF mixed[s] THEN settled \ {hand[s].key} ELSE settled \cup {hand[s].key}
  /\ UNCHANGED <<store, todo, hand, faults, latest, clean, mixed>>

\* No connection: botocore raises something that is not a ClientError, which
\* neither S3Client nor sync_once handles.
TransportFails(s) ==
  /\ pc[s] \in {"head", "get", "put"}
  /\ Fault("transport")
  /\ IF pc[s] = "put" THEN PutMayLand(s) /\ Unsettles(s)
                      ELSE UNCHANGED <<secondary, history>>
  /\ Goto(s, "raised")
  /\ UNCHANGED <<primary, recorded, todo, hand, outcome>>

\* The listing is exhausted: the status is returned.
FinishSync(s) ==
  /\ pc[s] = "next"
  /\ todo[s] = {}
  /\ Goto(s, "done")
  /\ UNCHANGED <<store, recorded, todo, hand, outcome, faults, history>>

\* The caller has looked at the status, or handled the exception.
Collect(s) ==
  /\ pc[s] \in {"done", "raised"}
  /\ Goto(s, "idle")
  /\ UNCHANGED <<store, recorded, todo, hand, outcome, faults, history>>

\* The process dies, perhaps with a PUT of s in flight, and a new worker is
\* constructed: the checksum table was only in memory.
Crash(s) ==
  /\ Fault("crash")
  /\ IF pc[s] = "put" THEN PutMayLand(s) ELSE UNCHANGED secondary
  /\ recorded' = [k \in Keys |-> 0]
  /\ pc' = [t \in Syncers |-> "idle"]
  /\ settled' = {}
  /\ UNCHANGED <<primary, todo, hand, outcome, latest, clean, mixed>>

-----------------------------------------------------------------------------
Begin(s)  == BeginSync(s) \/ ListFails(s)

\* One statement of a call of sync_once that has begun.
Inside(s) == \/ TakeKey(s) \/ HeadObject(s) \/ HeadFails(s) \/ Compare(s)
             \/ Download(s) \/ DownloadFails(s)
             \/ Upload(s) \/ UploadFails(s) \/ Record(s)
             \/ TransportFails(s) \/ FinishSync(s)

Client    == \E k \in Keys : ClientPut(k) \/ ClientDelete(k)

Next == \/ Client
        \/ \E s \in Syncers : Begin(s) \/ Inside(s) \/ Collect(s) \/ Crash(s)

Spec == Init /\ [][Next]_vars

-----------------------------------------------------------------------------
(* Properties.                                                             *)

\* Type invariant: every variable stays in its domain, and an object's
\* checksum is that of its body or missing.
TypeOK ==
  /\ primary \in [Keys -> Object]
  /\ \A k \in Keys : primary[k].sha \in {0, primary[k].body}
  /\ secondary \in [Keys -> Nat]
  /\ recorded \in [Keys -> Nat]
  /\ pc \in [Syncers -> PCs]
  /\ todo \in [Syncers -> SUBSET Keys]
  /\ hand \in [Syncers -> InHand]
  /\ outcome \in [Syncers -> [Keys -> {"none", "failed", "replicated"}]]
  /\ faults \in Nat
  /\ latest \in [Keys -> Nat]
  /\ clean \in [Syncers -> SUBSET Keys]
  /\ mixed \in [Syncers -> BOOLEAN]
  /\ settled \subseteq Keys

\* The status sync_once returns is honest (sync_once, 44-73): every key that was
\* listed and that no client has touched since is reported failed, or the
\* secondary now has the primary's content.  A skipped key is not exempt: the
\* decision to skip rests on the checksum table alone.
StatusHonest ==
  \A s \in Syncers : pc[s] = "done" =>
    \A k \in clean[s] : \/ outcome[s][k] = "failed"
                        \/ secondary[k] = primary[k].body

\* is_replicated never runs ahead of the secondary: a checksum in the table is
\* that of a content the secondary holds, or has replaced by a later one.
RecordedNotAhead == \A k \in Keys : recorded[k] <= secondary[k]

\* "Already-replicated, unchanged objects are skipped" (docstring of sync_once,
\* 45-47), as far as the code goes: a call never uploads to the secondary the very
\* content it has there of a settled key, if the object has a checksum.  Settled is a
\* key whose last upload was answered and recorded, and which no client touched
\* between that call's HEAD and its GET.  Otherwise the table is given the sum HEAD
\* had read and not that of the body, and the next sync does upload an unchanged
\* object once more.
NoRecopy == \A s \in Syncers :
  pc[s] = "put" /\ hand[s].sha # 0 /\ hand[s].key \in settled
    => hand[s].body # secondary[hand[s].key]

\* One call of sync_once at a time: what one caller, or one live loop, amounts to.
OneCall == \A s, t \in Syncers : pc[s] # "idle" /\ pc[t] # "idle" => s = t

\* What a call holds in its hand against the two sites: a checksum it has read
\* is of a content the primary has had; the body it is about to upload is not
\* older than that, nor than what the secondary has; and after the upload the
\* secondary has that body.
InHandInOrder(s) ==
  LET h == hand[s] IN
    /\ pc[s] \in {"compare", "get"} => h.sha <= latest[h.key]
    /\ pc[s] = "put" => /\ h.sha <= h.body
                        /\ secondary[h.key] <= h.body
                        /\ h.body <= latest[h.key]
    /\ pc[s] = "record" => h.sha <= h.body /\ secondary[h.key] = h.body

\* What a call in progress knows of a key no client has touched since it was
\* listed.  The key in hand is as it was read; another one is still to do, or
\* reported failed, or up to date.
Holds(s, k) == pc[s] \in {"head", "compare", "get", "put", "record"} /\ hand[s].key = k

Accounted(s, k) ==
  /\ Holds(s, k) =>
       /\ pc[s] \in {"compare", "get"} => hand[s].sha = primary[k].sha
       /\ pc[s] = "put"    => hand[s].body = primary[k].body
       /\ pc[s] = "record" => secondary[k] = primary[k].body
  /\ ~Holds(s, k) => \/ k \in todo[s]
                     \/ outcome[s][k] = "failed"
                     \/ secondary[k] = primary[k].body

InProgress(s) == pc[s] \notin {"idle", "raised"}

\* Both sites follow the primary's history in order.
InOrder ==
  /\ RecordedNotAhead
  /\ \A k \in Keys : primary[k].body \in {0, latest[k]} /\ secondary[k] <= latest[k]
  /\ \A s \in Syncers : InHandInOrder(s)

AllAccounted ==
  \A s \in Syncers :
    /\ InProgress(s) => \A k \in clean[s] : Exists(k) /\ Accounted(s, k)
    /\ pc[s] = "done" => todo[s] = {}

\* The inductive invariant behind StatusHonest, RecordedNotAhead and LaggingSpec,
\* for one caller and clients that do not go back to earlier content.
SyncInvariant == TypeOK /\ InOrder /\ AllAccounted

\* sync_once implements LaggingReplica: the secondary only moves forward, to
\* contents the primary has had.
Lagging == INSTANCE LaggingReplica WITH source <- latest, replica <- secondary
LaggingSpec == Lagging!Spec

=============================================================================
