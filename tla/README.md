# A TLA+ verification of StorGuard

StorGuard is a test platform for distributed object storage: it drives a
MinIO cluster through S3, injects faults into its containers, replicates a
bucket to a second site, snapshots and restores prefixes, measures workloads,
judges them with a quality gate and explains the outcome with a local language
model. This directory holds TLA+ models of the parts that decide something, the
TLC configurations that check them, and TLAPS proofs about most of them.

Contents: [system](#the-system) · [modules](#modules) · [runs](#runs) ·
[bounds](#bounds) · [fairness](#fairness) · [proofs](#proofs) ·
[disagreements](#where-the-code-and-its-words-disagree) ·
[not modelled](#not-modelled) · [plan](#plan)

To check a run: `tlc -config ReplicationSync_Single.cfg MCReplicationSync`; to
check proofs: `tlapm ReplicationProofs.tla`.

## The system

| Component | State it keeps | Operations | What is hard | What makes it correct |
|---|---|---|---|---|
| Replication worker (`replication/worker.py`) | `_replicated_checksums` (in memory, locked), `_stop`, `_thread` | `sync_once`, `is_replicated`, `start`, `stop`, the loop | HEAD, GET, PUT and the table update are four steps, with writers between them; a daemon thread; `join` with a time-out; the table is lost in a crash | the returned status is honest, the table never runs ahead of the secondary, the secondary only moves forward, at most one loop, a running loop converges |
| Snapshot service (`snapshot/service.py`) | none: the bucket is its state (copies and a manifest under `.snapshots/<id>/`) | `create`, `list`, `get`, `restore`, `delete` | every call is a sequence of requests without a lock; a failure leaves it half way; prefixes are strings; snapshots may contain snapshots | the manifest is a commit point, a snapshot is of its creation time, a passed restore can be trusted |
| Chaos controller (`chaos/controller.py`) over `clients/docker_client.py` | `_active_faults` (in memory) | inject (stop, latency, loss, disk), `restart_node`, `node_stopped`, `restore_all` | the list must match what the containers are under; calls raise half way; faults interact | no fault is lost; `restore_all` leaves the cluster healthy |
| Workload engine (`workloads/engine.py`) | the futures and results of one run | `run`, `_execute_one`, `_compute_metrics` | threads, requests that answer an error or raise, completion order | every object counts, the figures bound the damage, the run returns |
| Quality gate (`quality_gate/gate.py`), recovery timeline (`models.py`) | none (a baseline file) | `evaluate`, `save_baseline`, `load_baseline` | percentile index, rounding, missing times | the verdict means what its name says |
| AI features (`ai/*.py`) and the `ai` commands (`cli/main.py`) | none | `analyze`, `recommend`, `summarize_*`, `is_available`, `generate` | Ollama comes and goes between two requests; a model answers anything | every call falls back, and says so |
| S3 client (`clients/s3_client.py`) | a connection | one method per request; error answers become results, missing answers exceptions | two kinds of failure: `ClientError` is caught, a `BotoCoreError` is not | — (modelled in its users) |
| Integrity validator (`integrity/validator.py`) | none | `verify`, `verify_batch`, `corruption_count` | refused downloads look like damage, a missing answer throws the reports away | a passed verification vouches for every object |
| Demo (`dashboard/demo.py`) | where it is; a node it has stopped | `run_demo` | exceptions and Ctrl-C between stop and restart; unchecked requests | it ends, strands no node unless cut short, and its verdict is founded |
| Monitor (`dashboard/monitor.py`) | a bucket of its own, counts of probes and errors | `run`, `_probe`, `_cleanup` | left in the middle of a probe, for hours before | its bucket does not fill up and does not outlive it |
| Race runner (`concurrency/race_runner.py`) and the race scenarios (`tests/race_conditions`) | start order and outcome of one race | `run_race`, the classification | a racer is timed and noted in two steps; racers that fail | the order is that of the starts; of a server that answers, "forbidden" says that bytes were torn; "allowed" is final |
| Command line (`cli/main.py`) | none | the `ai` commands, `demo`, `monitor`, `cluster deploy`, and commands that start pytest or print files | one program leaves a state to the next: a node, Ollama | that of its programs |
| Linux client (`clients/linux_client.py`) | none | | | see [not modelled](#not-modelled) |

How they meet. The replication worker reads the primary and writes the
secondary through two S3 clients; the snapshot service copies inside one
bucket; both run while other threads write. The workload engine drives the S3
client from a pool and hands its figures to the quality gate, which also takes a
recovery timeline that the chaos controller begins and a test completes. The AI
features read logs, figures, verdicts and timelines. The validator reads back
what a workload has stored, and its count goes to the gate. The demo is a caller
of nearly all of them: it stops a node through a controller of its own, verifies
one object, and asks the AI features to comment. The monitor and the race tests
have the S3 client to themselves. Only the controller changes what Docker runs;
others read logs and states from it.

An S3 request has four outcomes everywhere: it is answered; answered with an
error (a `ClientError`, which `_s3_error` turns into a result, except in
`get_object_metadata` and `list_objects`, which let it through); not answered (an
exception nobody in the client catches); and in the last two a write may have
been made all the same. The models keep these apart.

## Modules

| Module | Models | State ↔ code |
|---|---|---|
| `LaggingReplica` | what asynchronous one-way replication promises (abstract) | `source`, `replica`: versions per key |
| `ReplicationSync` | `sync_once`, one S3 request or locked section per step | `recorded` = `_replicated_checksums`; `pc`, `todo`, `hand`, `outcome` = a call's place, remaining listing, local variables and `ReplicationStatus`; `primary`, `secondary` = the two sites |
| `ReplicationLoop` | `start`, `stop`, `_loop`; EXTENDS `ReplicationSync`, whose steps its threads take | `stopSet` = `_stop`, `thread` = `_thread`, `owner` = the thread that calls start and stop, `loop[t]` = where thread t is; `orphans` = the threads a `stop()` gave up waiting for |
| `SnapshotLedger` | what the snapshot service promises of an id (abstract) | `state`, `content` per id |
| `Snapshot` | `create`, `restore`, `delete` by concurrent callers, one request per step | `live`, `snap`, `stored` = the bucket by prefix; `sums` = a manifest's objects; `Untagged` = the contents stored without a checksum; `op`, `pc`, `id`, `todo`, `key`, `report` = a call |
| `SnapshotNamespace` | the mapping of keys to copies and back; each call one step | `bucket` by key (a key is a sequence of tokens), `manifests` |
| `Chaos` | the controller over containers | `active` = `_active_faults`, `scopes` = open `node_stopped` contexts, `pending`/`errors` = `restore_all`'s copy of the list and its errors; `running`, `netem`, `filler` = the containers (external) |
| `QualityGate` | `_compute_metrics`, `recovery_time_seconds`, `evaluate` as operators; results in microseconds, figures as the code rounds them, in hundredths of a millisecond | none |
| `GateCases` | the gate's cases: a run whose results come in one at a time | counts of fast results (the longest time that still rounds to the limit), slow ones (the shortest that does not) and failed ones |
| `Workload` | `WorkloadEngine.run` with its pool; judged by `QualityGate` (INSTANCE) | `task[i]`, `result[i]` = a future; `results`, `metrics` = the caller's |
| `IntegrityValidator` | `verify_batch` after an upload run, and the gate's verdict on both; EXTENDS `Workload` | `checking` = the loop's index, `reports`; `damaged` = the objects' bodies |
| `AiFeatures` | one AI call, from the availability check to what the command prints | `at`, `call`, `reply`, `answer`; `noted` = the command has said that Ollama had no part; `ollama` = the environment |
| `Demo` | `run_demo`; EXTENDS `AiFeatures`, which it calls | `step` = its place, `node` = storguard-minio2, `seed` = the seed object, `label` = the verdict printed |
| `Monitor` | `ClusterMonitor.run`, `_probe`, `_cleanup` | `phase` = its place, `probe`, `errors` = `_probe_n`, `_errors`; `hasBucket`, `held` = its bucket; `late` = a PUT given up that may yet be stored |
| `RaceRunner` | `run_race` and the three scenarios that race two requests for a key | `racer`, `stamp` = the threads and the times they took; `order`, `outcome` = the result; `body`, `seen` = the object |
| `CommandLine` | a user's session; EXTENDS `Demo`, `Monitor`, `RaceRunner` | the union of their states; one program at a time |
| `ReplicationProofs`, `SnapshotProofs`, `SnapshotCallProofs`, `NamespaceProofs`, `ChaosProofs`, `CommandLineProofs`, `WorkloadProofs`, `GateProofs` | theorems about the modules they EXTEND | — |
| `MC...` | definitions the configurations use for constants | — |

Abstractions. A content is the number of the write that made it; a SHA-256 sum
is the content it is of, so distinct contents have distinct sums; 0 is "none".
Names are model values, except in `SnapshotNamespace`, where a key is a
sequence of tokens because its subject is what `startswith`, slicing, `lstrip`
and `rstrip` do to keys. A paged listing is one step. Latencies are numbers with
no clock behind them. `sorted(latencies)[i]` is stated by what it is, the least
latency that at least `i + 1` results do not exceed, rather than by sorting. What a container does with a fault and what Ollama does
are external: a stopped container loses its traffic rules and keeps its disk,
`exec` in it raises, and a command that fails in a running container only sets
an exit code, which `exec_in_container`'s callers do not read.

History variables (named as such in each module) remember what a client has
written, which keys were touched since a call began, which keys a sync has settled, which
threads a `stop()` gave up on, which states a create passed through, which requests
failed, and which containers a failed call or an interrupt excuses; no action reads
them to decide what to do, except where they bound the instance or draw a
fresh version or id.

## Runs

Passing runs:

| Run | Instance | Shows |
|---|---|---|
| `ReplicationSync_Single` | 1 caller, 2 keys, 2 contents, 2 failures of any kind (error answers, missing answers, crash), deletes, objects with and without checksum | `StatusHonest`: a listed key no client has touched since is reported failed or is on the secondary. `SyncInvariant`, the inductive invariant of the proofs, whose parts relate the table, a call's hand and the two sites (`RecordedNotAhead` among them). `NoRecopy`: what a sync has settled is not uploaded again unchanged, where settled is what was recorded without a client between HEAD and GET. `LaggingSpec`: refinement of `LaggingReplica` |
| `ReplicationLoop_StartStop` | 2 threads, 1 key, 2 contents, 2 GET or PUT failures; any join may time out | `AtMostOneLoop` (of the threads no `stop()` gave up on), `StoppedIsQuiet` (between stop and start no thread begins a sync, and the secondary is left alone but for an orphan's last one), `LoopsEnd` (a worker that stays stopped comes to have no thread, orphans included), `Converges` (under the condition that no two syncs overlap) |
| `Snapshot_Faults` | 2 callers, 1 snapshot id, 2 keys, 2 contents, one content of one key without checksum, 1 failure of any kind | `ListedIsComplete` (commit point), `CapturedInWindow` (key by key, a snapshot is of its creation time), `PassedIsRestored`, `UndisturbedReport` (the report of a restore nobody came in between of is exact: restored is what has a checksum, failed what has none, and it passes if something was captured and nothing lacks one), `DeleteRemoves`. `LedgerSpec`: refinement of `SnapshotLedger` (what is published never changes and, once given up, never returns) |
| `SnapshotNamespace_Nested` | 2 ids, keys `p/x`, `p/q/x`, prefixes `""`, `"p"`, `"p/"` | `RestoreBringsBack`, `GettableIsWhole`: also for snapshots that contain snapshots, after deletes, and for a deleted snapshot that a restore brings back |
| `Chaos_Tracked` | 2 containers, all faults, lists up to 3, nesting up to 2, one mishap (a start or an injection that raises, a container that exits) | `FaultsAreTracked`, `RestoredIsHealthy` |
| `GateCases_Percentile` | every mix of up to 62 fast, slow and (2) failed results | `P95IsNinetyFivePercent`: the limit, with the half hundredth of a millisecond rounding adds to it, is one on 95% of successful requests; `FailuresNeverHelp`: a further failure takes no violation back |
| `Workload_Engine` | 3 objects, 2 threads, 4 operations, 2 failures; the gate permits one loss in three | `PassBoundsLoss` (a pass bounds the share of objects not as they should be, by the limit and half a hundredth of a percent), `EveryObjectCounts`, `RunReturns`. `VerifiedPassIsWhole`: with an upload's objects verified and no corruption permitted, a pass says every object is stored and whole, though the gate would permit the loss |
| `CommandLine_Session` | every feature and program, up to 3 patterns, 13 kinds of reply (a text; or an object with a word that is given, missing or null and a list that is given, missing, null or something else), 4 probes, 2 racers; Ollama changing, requests refused or unanswered and Ctrl-C at any time | AI: `FallsBack`, `ClaimIsTrue`, `HealthyIsFounded`, `CallReturns`. Demo: `StrandedOnlyIfCut`, `VerdictIsFounded`. Monitor: `ProbesAreCleared`, `LeavesNothing`. Races: `OrderIsByStart`, `ForbiddenMeansTorn` (unless requests were refused, a race is "forbidden" exactly if bytes were torn), `AllowedIsWhole`. `TypeOK` is the conjunction of the programs' own and covers every variable. `ProgramsEnd`: a demo ends, and a monitor whose loop was left |

Each property has a mutant, a wrong version of one action or helper kept beside
the right one (marked `Mutant:`), that violates it in the same configuration.

Runs that show a violation, each a line of the repository against what the code
does (quoted in `PROJECT.json` under `findings`):

| Run | Violates | What happens |
|---|---|---|
| `ReplicationSync_Reuse` | `StatusHonest` | HEAD reads checksum 1; a client writes 2; GET copies 2 and the table gets 1. The client writes 1 back: the next sync skips the key, and the secondary keeps 2 for good |
| `ReplicationLoop_Deleted` | `Converges` | a key is deleted between the listing and its HEAD: the 404 leaves `sync_once` and ends the daemon thread, and nothing is replicated any more |
| `SnapshotNamespace_Sibling` | `RestoreBringsBack` | a prefix `p` takes in `pq/x`, which is restored as `p/q/x` and reported as restored |
| `Chaos_DiskThenStop` | `NoLeakedFaults` | the filler on a container that was stopped afterwards cannot be removed in injection order; the container is started, the filler stays, the list is cleared |

## Bounds

`MaxBody`, `MaxFaults`, `MaxActive`, `MaxNesting`, `MaxMishaps`, `MaxResults`,
`MaxFailed`, `MaxPatterns`, `MaxProbes` and the sizes of the sets are the only
bounds; every one of them is a guard of an environment's action (a client's
write, a failure, a test's injection), never of the program's, with one
exception: the monitor's loop has no end of its own, and `MaxProbes` stops it
where only the user would.

Why they are enough. Two contents per key give every relation of "older, equal,
newer" between the two sites, the table and a call's hand, and the proofs remove
this bound where they apply. Two keys give a key in hand and one that is
overtaken. A failure at every request is reached with one; two let a retry fail
again. Two callers of the snapshot service with one id to draw give every pair of
restores and deletes of a published snapshot, and a create among clients and
failures. A create never meets another call there, since its id is not published before
it ends; creates beside calls on other ids, and beside each other, are covered by the
proofs, which have any number of ids and callers. Snapshots that contain each other are
in `SnapshotNamespace`. A list of three faults holds two on one container and
one on another. 62 results pass the lengths at which the percentile's index
jumps (20, 40, 60) and reach the only lengths at which a single failure stays
within 2%. Three patterns reach the highest severity of the rules. Four probes are
enough for each kind of object left behind (a failed PUT, a refused delete, the
one in hand) with one to spare.

`CHECK_DEADLOCK FALSE` is given where a behaviour ends because the environment
has used up its bound (`Snapshot_Faults`, `GateCases_Percentile`) or because the
run has returned (`Workload_Engine`). No run uses symmetry: the runs of three modules
check liveness, and the others are small.

## Fairness

* `ReplicationLoop`: weak fairness of every thread's next step and of the return
  from `join` (`Joined`: the thread has ended, or the five seconds are over). A thread of CPython is scheduled, an S3 request ends (botocore's
  time-outs, its retries are finite), and `Event.wait(interval)` returns. None
  for the owner or the clients: nobody must call `start`, `stop` or write.
  `Converges` is conditional on an owner who has started the worker and leaves it
  so, and on `[]OneCall`: no sync of a thread given up on overlaps one of its
  successor (see [disagreements](#where-the-code-and-its-words-disagree)). Failures are finite in number (`MaxFaults`), which is what "after the
  failures end" needs.
* `Workload`: weak fairness of each task's start, of its steps, of the
  collection of its future and of the return, for the same reasons:
  `ThreadPoolExecutor` runs what it has taken and `as_completed` yields what is
  done.
* `CommandLine`: weak fairness of the steps of an AI call (`AiWorks`), of the
  demo's (`DemoWorks`) and of the monitor's clean-up (`MonitorCleans`). Each is a
  request that ends, if only with the time-out of httpx, botocore or Docker's
  client, or a statement after one; a generation that times out has failed.
  None for the user, who need not press a key or interrupt anything, for the
  probe loop, which runs as long as it is let, nor for Ollama, which may come and
  go for ever.

The other modules state safety only.

## Proofs

TLAPS checks the theorems below for any sets of keys, callers, ids and
containers, any number of contents, failures, nested contexts, objects, probes
and patterns; the bounds of the runs play no part in them.

| Theorem | Statement | Assumes |
|---|---|---|
| `ReplicationProofs!TypeCorrect` | `Spec => []TypeOK` | — |
| `SyncInvariantHolds` | `Spec => []SyncInvariant` | `OneCaller`, `FreshContent` |
| `StatusIsHonest` | `Spec => []StatusHonest` | the same |
| `RecordedIsNotAhead` | `Spec => []RecordedNotAhead` | the same |
| `NeverRecopies` | `Spec => []NoRecopy` | the same |
| `SyncImplementsLagging` | `Spec => LaggingSpec` | the same |
| `OneLoop` | `LoopSafety => []AtMostOneLoop` | — |
| `StopSilences` | `LoopSafety => StoppedIsQuiet` | — |
| `OverlapNeedsOrphan` | `LoopSafety => []((\A t \in orphans : ~Alive(t)) => OneCall)` | — |
| `LoopStatusIsHonest` | `LoopSafety /\ []OneCall => []StatusHonest` | `FreshContent` |
| `LoopImplementsLagging` | `LoopSafety /\ []OneCall => LaggingSpec` | the same |
| `LoopNeverRecopies` | `LoopSafety /\ []OneCall => []NoRecopy` | the same |
| `SnapshotProofs!TypeCorrect` | `Spec => []TypeOK` | — |
| `ListedIsAlwaysComplete` | `Spec => []ListedIsComplete` | — |
| `SnapshotImplementsLedger` | `Spec => LedgerSpec` | — |
| `SnapshotCallProofs!DeletedIsGone` | `Spec => []DeleteRemoves` | — |
| `SnapshotIsOfItsTime` | `Spec => []CapturedInWindow` | — |
| `PassedIsAlwaysRestored` | `Spec => []PassedIsRestored` | — |
| `UndisturbedReportIsExact` | `Spec => []UndisturbedReport` | — |
| `NamespaceProofs!GettableIsAlwaysWhole` | `Spec => []GettableIsWhole` | `KeysFit` |
| `RestoreAlwaysBringsBack` | `Spec => []RestoreBringsBack` | the same |
| `DirectoriesFit` | a prefix that names a directory, with its slash or without, gives every key below it back | — |
| `ChaosProofs!ChaosTypeCorrect` | `Spec => []TypeOK` | — |
| `FaultsAreAlwaysTracked` | `Spec => []FaultsAreTracked` | — |
| `RestoredIsAlwaysHealthy` | `Spec => []RestoredIsHealthy` | — |
| `CommandLineProofs!SessionTypeCorrect` | `Spec => []TypeOK` | — |
| `AlwaysFallsBack`, `ClaimIsAlwaysTrue`, `HealthyIsAlwaysFounded` | `Spec => []FallsBack`, `[]ClaimIsTrue`, `[]HealthyIsFounded` | — |
| `StrandedOnlyAfterACut`, `VerdictIsAlwaysFounded` | `Spec => []StrandedOnlyIfCut`, `[]VerdictIsFounded` | — |
| `ProbesAreAlwaysCleared`, `CleanUpLeavesNothing` | `Spec => []ProbesAreCleared`, `[]LeavesNothing` | — |
| `OrderIsAlwaysByStart`, `ForbiddenAlwaysMeansTorn`, `AllowedIsAlwaysWhole` | `Spec => []OrderIsByStart`, `[]ForbiddenMeansTorn`, `[]AllowedIsWhole` | — |
| `WorkloadProofs!EveryObjectAlwaysCounts` | `VerifiedSpec => []EveryObjectCounts` | — |
| `PassAlwaysBoundsLoss` | `VerifiedSpec => []PassBoundsLoss` | — |
| `VerifiedPassIsAlwaysWhole` | `VerifiedSpec => []VerifiedPassIsWhole` | — |
| `GateProofs!PercentileIsAShare` | of any results and any limit: a rounded p95 within the limit says that 95% of the timed results are within limit and half a hundredth of a millisecond, one beyond it that 5% are not | — |
| `P95IsAlwaysNinetyFivePercent` | `Spec => []P95IsNinetyFivePercent` | — |
| `FailuresNeverDoHelp` | `Spec => FailuresNeverHelp` | — |

Every theorem also rests on its module's `ASSUME`, which says what kind of
values the constants are (bounds are natural numbers, limits are records of
natural numbers, `NoThread` is not a thread); TLC evaluates it in the runs.

`OneCaller` says at most one call of `sync_once` runs on a worker at a time;
that is how the worker is meant to be used (one loop, or one test thread). For
the loop it is a condition of each behaviour, `[]OneCall`, and `OverlapNeedsOrphan`
says when it can fail: only while a thread is alive that a `stop()` gave up on. Where
no sync outlasts the five seconds of `join`, or no `start()` follows before it has
ended, the condition holds. `FreshContent` says
that a client never writes a key's earlier content again. Both are needed, not
convenient: `ReplicationSync_Reuse` refutes `StatusHonest` without the second,
and with two overlapping calls an older body may be uploaded over a newer one.
`KeysFit` is what the service needs of its users' keys and does not enforce: no client
writes below `.snapshots/`, no prefix begins with `.snapshots`, and of each key a prefix
finds, cutting the prefix off and putting it back gives the key, while the
relative key is not the manifest's name. It holds of the constants of
`SnapshotNamespace_Nested` and not of those of `SnapshotNamespace_Sibling`, which
shows what happens without it. `DirectoriesFit` proves the round trip for
every prefix that is a directory and every key that does not go on with a second
slash, so that what is left to trust is the choice of names.

**Replication.** Neither `StatusHonest` nor `RecordedNotAhead` is inductive. A
state in which a call is about to record a checksum newer than the secondary's
body satisfies both, and its next step does not. `SyncInvariant` adds what a
call holds in its hand at each statement:

* `InHandInOrder` — a checksum read by HEAD is of a content the primary has
  had; the body about to be uploaded is not older than that checksum, nor than
  the secondary's body; after the upload the secondary holds it;
* `Accounted` — of a key untouched since it was listed: in hand it is as it was
  read; otherwise it is still to do, reported failed, or up to date.

`OrderPreserved` and `AccountingPreserved` go through the actions one by one.
The delicate cases are the PUT without an answer, which may land, and `Compare`,
where a skip is right only because `recorded <= secondary <= latest` squeezes
the secondary to the primary's content. The lemmas ask for `OneCall`, one call
at a time in this state and the next, and not for one caller, so that they serve
the loop as well. The refinement proof maps a client's
fresh write to `Write`, a PUT that lands to `CatchUp`, and the rest to
stuttering.

`NoRecopy` does not follow from `SyncInvariant`. `SkippingInvariant` adds three
things. `SettledAgree`: of a settled key the table has the sum of the secondary's
body. `Unmixed`: unless a client came between HEAD and GET, the checksum in hand is
that of the object, and then of the body, so that `Record` may settle the key.
`Newer`: what a call takes to the PUT of a settled key is later than what the
secondary has. HEAD establishes `<=`, since what is there is the latest content and
the secondary is not ahead of it, and `Compare` makes it strict, the table being the
secondary's sum. Nobody else may record meanwhile, which is `OneCall` again.

**The loop.** `AtMostOneLoop` is not inductive: a `start()` that finds its own
thread ended must find every thread ended that was not given up on. `ThreadsKnown`
says that whoever is alive is the thread the worker has a reference to or an orphan,
and that with no reference, or in `stop()`, the event is set unless nobody is alive.
`LoopStepKeeps` covers the steps inside a thread. `StoppedIsQuiet` follows with
`QuietWithoutThread`: the event being set, a thread at its test ends, and only an
orphan inside a sync reaches the secondary. With `IdleOutsideSync` (a thread is in
`sync_once` only where `_loop` calls it) `ThreadsKnown` gives `OverlapNeedsOrphan`.
Every step of the loop is a step of `ReplicationSync!Next` or none (`LoopStepIsNext`),
so under `[]OneCall` the invariants of `sync_once` and its refinement carry over.

**Snapshots.** `ListedIsComplete` is not inductive: it says nothing of a create
under way. `CommitInvariant` (= `TypeOK /\ Commitment`) adds that drawn ids are
apart (`IdsApart`), that a create's id is neither listed nor doomed until it
commits, that what it has put in the manifest is copied and not to be copied
again (`CopiesBehind`), that a running delete works on a doomed id
(`DeletesDoomed`), and that an id not drawn has an empty manifest. A copy that
lands although the request failed stays within the create's own id, an unanswered
delete may have dropped its object or not (`MadeOrNot`, `DropEffect`), and a
delete can therefore only damage a doomed snapshot. `Others(w)` (all calls but
w's are as they were) with the lemmas `QuietMove` and `CreateMove` reduce the 19
actions to three arguments.

**The ledger.** The mapping publishes an id when it is listed and nobody has
begun to delete it. `StepKeepsLedger` needs no more than `CommitInvariant`:
a step that leaves the manifest, its listing and the copies it names as they
were moves no id (`NoSnapshotMoves`); the others change one id (`OneIdMoves`),
either by `CommitPublishes`, where `CopiesBehind` gives the content and the id is
new because a create's is neither listed nor doomed, or by `DeleteGivesUp`. Copies
made, dropped or damaged under an id that is unseen or doomed are stuttering.

**Deletion.** `DeleteRemoves` speaks of a delete that has returned. `Deletion`
says what one has before it while no request has failed: all that is left of the
snapshot is still on its list. It needs `DoomedShrinks` (what is doomed only
becomes less, since a create's id is not doomed and a restore writes live keys;
this is where `CommitInvariant` comes in) and `AllProper` (an absent object has no
metadata, so that "not listed" means "not there").

**Creation.** `CapturedInWindow` speaks of a snapshot that has been returned.
`TakenInWindow` says of a create under way what holds of the keys it has no more to
do: the copy of one in the manifest, or in hand, has a body the key had at one
of the call's moments, and any other was missing at one. `Kept` and
`Recorded` state what somebody else's step leaves of that (nobody else writes under the
id; the moments only grow), and only the create's own steps remain.

**Restoration.** `PassedIsRestored` is about a report that is complete. `PutBack`
says of a restore under way that a key of the manifest it has no more to do is in
hand, was reported failed, has been touched by somebody else, or matches the
manifest on the live side. `AllWell` says of a restore nothing has disturbed what its report is, key by key: of
those it has dealt with, restored if the manifest has a checksum and failed if not,
and that the key in hand is as its copy. This second half needs `AllProper` (a missing
object has no metadata) and `CommitInvariant` for the copies ahead; nothing is assumed
of the checksums.

**Nested snapshots.** A snapshot of the whole bucket holds copies and manifests of
others, and restoring it overwrites the bucket's. So the invariant is not about the
bucket alone: `Sound` says of a *place*, the bucket or what any snapshot found,
that it contains clients' objects and copies and nothing else (`Known`), that a copy in
it is what its manifest says (`CopiesMatch`), and that where a manifest is, all
its copies are (`AllThere`). `NamespaceInvariant` says it of the bucket and, in
`OfListing`, of what each create found. A restore then lays one sound place over
another, which gives a sound place (`OverIsSound`): a deleted snapshot comes back
whole or not at all. `CreateKeeps` needs that keys of different snapshots
are different (`SnapKeyInjective`), that a prefix which is not empty finds clients' keys
only (`PrefixOutside`), and that no two keys found share a relative key
(`CopiedFromItself`). `RestoreBringsBack` follows as `OfListing` takes every key found
there and back. The lemmas about keys reduce prefixes and concatenation to single
tokens (`PrefixByToken`, `SnapKeyShape`).

**Chaos.** `ChaosInvariant` says with one predicate that the list covers the
faults in effect on every container nothing went wrong on (`Tracks(active)`), and
that while `restore_all` runs the entries it has still to deal with do so as well
(`Tracks(pending)`): that is why nothing is in effect when none is left, whichever of
several faults on a container was undone first. The list comprehension
at the end of `node_stopped` is a recursive function in the model
(`WithoutStops`); that it keeps every entry but the container's stops, for a list of
any length, is proved by induction over its length.

**The session.** `SessionInvariant` is the conjunction of the programs' own
invariants and `OneAtATime`. Each is proved by itself over a list of the steps
that touch the program's variables (`AiMoves`, `DemoMoves`, `RaceMoves`,
`MonitorMoves`); one lemma per program shows that every step of the session is such a
step or leaves its variables alone. They contain the programs' types. What they add: a reply being
read is one the model made, and an analysis that is the model's, or its raw text, claims to
be (`Attributed`; AI); between stop and restart the demo accounts for the node,
and a seed that is absent was refused (demo); the order has each racer once
that has noted itself, and a body that is still what it was at first is one
no request has changed, so that a verdict can be read off what was seen (races); each object in the monitor's bucket is a failed
PUT, a refused delete or the probe in hand, and those are counted apart
(monitor, with the library's facts about cardinalities). `LeavesNothing` adds that what
is to be cleared was listed, and that a PUT is given up only as the loop is left.

**The workload.** `RunInvariant` follows each task (`OnCourse`: where it is, whether
its operation is done, what its result says) and states that the figures are made of
exactly the collected ones (`InFigures`). `PassBoundsLoss` is then arithmetic on the
rounded error rate. The attempt to prove it in its first form, failures at most the
limit's share of the objects, failed for a good reason: the rate is rounded to
two places of a percent before it is compared (`engine.py`, `gate.py`), so that 3
failures of 299 are 1.00% and pass a limit of 1%. No run small enough to check
has so many objects. The property now has the half unit of the last place that
rounding concedes, and is proved with it. `VerificationInvariant` says that the
reports so far are of the objects before the loop's index, and are as damaged as those.

**The gate.** `PercentileIsAShare` is about the operators alone: the element
at index `min(n - 1, n * 95 \div 100)` of the sorted latencies is within a limit
only if at least 95% of the latencies are, and beyond it only if at least 5%
are. The figures are rounded to hundredths of a millisecond: a rounded latency is within a limit
of whole milliseconds exactly if it was less than the limit and half a hundredth
(`RoundedBeyond`), so the counts are of that. It needs the order
statistic to exist (`PercentileStands`, by `LeastNumber`) and the counts on both sides
of a limit to add up; `P95IsNinetyFivePercent` is its instance. `FailuresNeverHelp` holds as a
failure leaves the timed results alone and raises a rounded rate or leaves it (`RateGrows`).

Only model-checked:

* Liveness (`LoopsEnd`, `Converges`, `RunReturns`, `CallReturns`, `ProgramsEnd`): under
  fairness, and so with ENABLED, which is beyond the prover.
* What a recursive definition computes for every input, in general: the library's
  induction theorems have an operator as parameter, which no installed prover
  instantiates. `WithoutStops` is the exception, by a detour: a least counterexample
  exists, as `<` on the natural numbers is well founded (`LeastNumber`). For the same
  reason `lstrip` and `rstrip` are stated in `SnapshotNamespace` by where the slashes
  end, and that there is such a place is proved (`LeadingSlashesEnd`).

## Where the code and its words disagree

The four violation runs above. Further behaviours met while modelling; the
models contain those of modelled components, no run is about them:

* An object stored without `sha256` metadata is downloaded and uploaded again by
  every sync: the skip test needs a checksum (`worker.py:56`).
* `sync_once` promises that unchanged objects it has replicated are skipped
  (`worker.py:45-47`). If a client writes between the HEAD and the GET, the table gets
  the sum of the earlier content; the next sync uploads the later one, unchanged, once
  more. `NoRecopy` is about the other keys (`settled`).
* `stop()` gives up on a sync longer than 5 s and drops the thread; `start()`
  then clears the event the old loop would have ended at, and two loops share the
  table (`worker.py:97`; `JoinGivesUp` in `ReplicationLoop`). The old one may put an
  earlier content over a later one the table already has: the secondary then stays
  behind until the key is written again. `Converges` is false without `[]OneCall`.
* Keys are copied one by one, so a "point-in-time" snapshot can hold a
  combination the bucket never had (`service.py:84`).
* A copy without checksum is `""` in the manifest and `None` at the restore,
  which reports it as failed although it was copied (`service.py:90`, `130`). The
  restore of an empty snapshot does not pass (`service.py:66-68`), whatever happens.
  `UndisturbedReport` says both.
* `delete` drops the result of `delete_object` (`service.py:140`).
* `list()` takes any key below `.snapshots/` that ends in `_manifest.json` for a
  manifest: copies of manifests inside a whole-bucket snapshot show deleted
  snapshots, and a client's object of that name is parsed (`service.py:104-109`).
* `restart_node` and `_restore_one` ignore what `wait_until_running` returns
  (`controller.py:47`, `109`).
* A second `tc qdisc add ... root` fails inside the container, and the controller
  lists a fault that is not there (`controller.py:60`, `73`).
* A timeline without `cluster_healthy_at` has no recovery time and passes the
  gate (`gate.py:54`).
* The P95 is rounded to two places before it is compared: twenty requests of
  800.004 ms pass a limit of 800 (`engine.py:114`, `gate.py:49`).
  `P95IsNinetyFivePercent` has the half unit this concedes.
* A mixed task returns its upload's result whatever the read back and the delete
  answered (`engine.py:83-85`); `PassBoundsLoss` holds of what the upload left.
* `summarize_chaos` raises on a timeline whose recovery was not seen
  (`report_summarizer.py:72`); `FallsBack` names the exception.
* An unparseable reply is given severity `medium` for any number of patterns
  (`log_analyzer.py:110`), a `null` severity is taken over and breaks the
  printing (`log_analyzer.py:103`), as does a `null` priority.
* `ai advise` asks a second time whether Ollama is there (`main.py:373`): its note
  that these are defaults may stand under the model's recommendations, or be missing
  under the defaults. `AddNote` has the second question; no property forbids it.
* `ai status` asks whether Ollama is there, then asks
  again for the models and may print an empty list (`main.py:268`, `276`), and the
  monitor's dot and label are two requests (`monitor.py:183-184`).
* The demo never reaches its clean-up (`demo.py:106-112`): nothing sets
  `cluster_healthy_at`, the summary formats a recovery time that is `None` (293)
  and raises, and the demo's bucket stays. `Demo` has the exception and no
  clean-up.
* The demo drops the exceptions of its uploads from its figures
  (`demo.py:157`), has no `finally` around its stopped node (73-86), does not
  look at the result of the seed's upload (65), and prints "corruption detected"
  of a download that was refused.
* The monitor counts only failed PUTs as errors; a read or a delete that fails
  is shown in the log and forgotten.
* `verify_batch` keeps nothing of its reports when a request goes unanswered.
* A race runner's seed fixes two start offsets, not the order in which threads
  start (`race_runner.py:57`), though the module's text has it reproduce the
  interleaving (1-3); `race` becomes `error` in the model whenever a racer raises, and
  the other racer's result is dropped.
* "Forbidden" is defined as a violated invariant: torn, corrupt or stale bytes
  (`race_runner.py:22`, `test_race_conditions.py:6-7`). A race whose requests were both
  refused, or whose result could not be downloaded, is "forbidden" too, although
  nothing was torn. `ForbiddenMeansTorn` leaves these two cases out by name.
* The options `main.py:131` and `140` pass to pytest (`--baseline-output`,
  `--baseline`) are declared nowhere.

## Not modelled

* `list()` and `is_replicated()` change nothing; their answers are read through
  `stored` and `recorded`. `save_baseline` and `load_baseline` are file I/O.
* `S3Client`: configuration, bucket creation and deletion, presigned URLs, and
  the retries of boto3, whose final outcome is the request's outcome.
* `DockerClient`'s logs, statistics, pause, unpause and `restart_container`: no
  operation of the controller calls them.
* `LinuxClient` wraps `subprocess` and keeps no state; a fixture constructs it
  and no component calls it.
* The remaining commands of the CLI (`test`, `report`, `gate`, `baseline`,
  `cluster destroy` and `cluster status`) start pytest or docker compose, or print
  files, and keep nothing between two calls.
* The race scenario that reads while a node restarts: what it classifies is the
  state of a node, which `Chaos` has.
* Panels, tables and figures of the demo and the monitor. Of Rich's markup only
  that a text may fail to print.
* The tests are read for what they expect; MinIO, nginx, Prometheus, Grafana and
  the pipelines are external.
* A PUT of the replication that has timed out at the client and reaches the secondary
  after a later PUT: an unanswered PUT lands at once or never.
* In `ReplicationLoop_StartStop` failed listings and HEADs and lost connections, which
  end the thread as in `ReplicationLoop_Deleted`; `ReplicationSync_Single` has them.
* Prefixes and pagination in `ReplicationSync`, page by page listings in
  `Snapshot`: a listing is one step. Timings throughout.

## Plan

Done: every component that keeps a state or decides something, two abstract
specifications with their refinements, and proofs of every safety property of the
passing runs. Left:

1. An abstract controller ("the list covers what is in effect") for `Chaos`, and that
   `Chaos` implements it.
2. What a caller of the snapshot service may rely on across its two models: `Snapshot`
   has the interleavings and one level of keys, `SnapshotNamespace` the keys and one
   caller.
3. Two hazards have no property: the gate's verdict on a recovery timeline that was
   never completed (`gate.py:54`), and the demo's summary of one (`demo.py:293`).
