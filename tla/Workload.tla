------------------------------- MODULE Workload -------------------------------
(***************************************************************************)
(* WorkloadEngine.run (storguard/workloads/engine.py): one task per object *)
(* on a pool of threads, each a sequence of S3 requests that may be        *)
(* answered with an error or not at all; the caller collects the results   *)
(* in the order they complete and has the quality gate judge the figures.  *)
(*                                                                         *)
(* Left out: contents (all objects of a run have one), throughput, the     *)
(* retries inside boto3 (a request has its final outcome).                 *)
(***************************************************************************)
EXTENDS Integers, Sequences, FiniteSets

CONSTANTS
  Objects,     \* config.objects
  Workers,     \* config.workers
  Operations,  \* the operations of this instance, a subset of AllOperations
  Latencies,   \* durations a request can take, in microseconds
  MaxFaults,   \* bound: failed requests
  Thresholds   \* of the gate

AllOperations == {"upload", "download", "delete", "mixed"}

ASSUME WorkloadAssumption ==
  /\ Objects \in Nat /\ Workers \in Nat \ {0} /\ MaxFaults \in Nat
  /\ Operations \subseteq AllOperations
  /\ Latencies \subseteq Nat

Gate == INSTANCE QualityGate

ASSUME LimitsAssumption == Thresholds \in Gate!Limits

VARIABLES
  operation,  \* config.operation
  stored,     \* indices whose object is in the bucket
  task,       \* task[i]: "queued", the request in flight, "finished" or "collected"
  result,     \* result[i]: what the task's future holds
  results,    \* the results collected
  metrics,    \* what run returns, NoMetrics before
  faults      \* requests that failed, and how

vars == <<operation, stored, task, result, results, metrics, faults>>

Index     == 0 .. Objects - 1
NoMetrics == <<>>
NoResult  == [kind |-> "none", us |-> 0]
Requests  == {"upload", "download", "delete", "read back", "clean up"}
InFlight  == {i \in Index : task[i] \in Requests}

Init ==
  /\ operation \in Operations
  /\ stored \in SUBSET Index   \* a run_id may be used again
  /\ task = [i \in Index |-> "queued"]
  /\ result = [i \in Index |-> NoResult]
  /\ results = <<>>
  /\ metrics = NoMetrics
  /\ faults = 0

-----------------------------------------------------------------------------
(* The pool.                                                               *)

FirstRequest == IF operation = "mixed" THEN "upload" ELSE operation

FreeThread == Cardinality(InFlight) < Workers

StartTask(i) ==
  /\ task[i] = "queued"
  /\ \A j \in 0 .. i - 1 : task[j] # "queued"
  /\ FreeThread
  /\ task' = [task EXCEPT ![i] = FirstRequest]
  /\ UNCHANGED <<operation, stored, result, results, metrics, faults>>

Goto(i, where) == task' = [task EXCEPT ![i] = where] /\ UNCHANGED result
EndTask(i, kind, us) == /\ task' = [task EXCEPT ![i] = "finished"]
                        /\ result' = [result EXCEPT ![i] = [kind |-> kind, us |-> us]]

\* The upload's result is the task's; it waits in result while the task goes on.
Keep(i, us, where) == /\ task' = [task EXCEPT ![i] = where]
                      /\ result' = [result EXCEPT ![i] = [kind |-> "ok", us |-> us]]

RunGoesOn == UNCHANGED <<operation, results, metrics>>

Uploaded(i) ==
  /\ task[i] = "upload"
  /\ stored' = stored \cup {i}
  /\ \E us \in Latencies : IF operation = "mixed" THEN Keep(i, us, "read back")
                                                  ELSE EndTask(i, "ok", us)
  /\ RunGoesOn /\ UNCHANGED faults

\* 404 for an object that is not there.
Downloaded(i) ==
  /\ task[i] = "download"
  /\ \E us \in Latencies : EndTask(i, IF i \in stored THEN "ok" ELSE "error", us)
  /\ RunGoesOn /\ UNCHANGED <<stored, faults>>

Deleted(i) ==
  /\ task[i] = "delete"
  /\ stored' = stored \ {i}
  /\ \E us \in Latencies : EndTask(i, "ok", us)
  /\ RunGoesOn /\ UNCHANGED faults

Fault == faults < MaxFaults /\ faults' = faults + 1

\* A mixed task's second and third request: whatever the answer, it is dropped.
\* Every fifth object is deleted.
ReadBack(i) ==
  /\ task[i] = "read back"
  /\ UNCHANGED faults \/ Fault
  /\ IF i % 5 = 0 THEN Goto(i, "clean up") ELSE EndTask(i, "ok", result[i].us)
  /\ RunGoesOn /\ UNCHANGED stored

CleanedUp(i) ==
  /\ task[i] = "clean up"
  /\ \/ stored' = stored \ {i} /\ UNCHANGED faults
     \/ UNCHANGED stored /\ Fault
  /\ EndTask(i, "ok", result[i].us)
  /\ RunGoesOn

\* What a failed write may have done all the same.
MayHaveHappened(i) ==
  \/ UNCHANGED stored
  \/ task[i] = "upload" /\ stored' = stored \cup {i}
  \/ task[i] \in {"delete", "clean up"} /\ stored' = stored \ {i}

\* An error answer to a task's one request, or to the upload of a mixed task.
AnsweredError(i) ==
  /\ task[i] \in {"upload", "download", "delete"}
  /\ Fault
  /\ MayHaveHappened(i)
  /\ EndTask(i, "error", 0)
  /\ RunGoesOn

\* No answer: the task ends in an exception, wherever it is.
Raises(i) ==
  /\ task[i] \in Requests
  /\ Fault
  /\ MayHaveHappened(i)
  /\ EndTask(i, "raised", 0)
  /\ RunGoesOn

-----------------------------------------------------------------------------
(* The caller.                                                             *)

\* Mutant: an exception without an error answer counts as a success.
OnlyErrorsFail(r) == [ok |-> r.kind # "error", us |-> r.us]

\* A result as the figures see it; a task that raised is given a FAILED one.
AsResult(r) == [ok |-> r.kind = "ok", us |-> r.us]

\* Mutant: exceptions are swallowed, as in the loop of dashboard/demo.py.
SwallowsRaised(i) ==
  /\ task[i] = "finished"
  /\ task' = [task EXCEPT ![i] = "collected"]
  /\ results' = IF result[i].kind = "raised" THEN results
                ELSE Append(results, AsResult(result[i]))
  /\ UNCHANGED <<operation, stored, result, metrics, faults>>

\* Mutant: waits for a result, which a task that raised never has.
AwaitsResults(i) ==
  /\ task[i] = "finished" /\ result[i].kind # "raised"
  /\ task' = [task EXCEPT ![i] = "collected"]
  /\ results' = Append(results, AsResult(result[i]))
  /\ UNCHANGED <<operation, stored, result, metrics, faults>>

\* as_completed yields a finished future.
Collect(i) ==
  /\ task[i] = "finished"
  /\ task' = [task EXCEPT ![i] = "collected"]
  /\ results' = Append(results, AsResult(result[i]))
  /\ UNCHANGED <<operation, stored, result, metrics, faults>>

Return ==
  /\ metrics = NoMetrics
  /\ \A i \in Index : task[i] = "collected"
  /\ metrics' = Gate!Metrics(results)
  /\ UNCHANGED <<operation, stored, task, result, results, faults>>

Step(i) == \/ Uploaded(i) \/ Downloaded(i) \/ Deleted(i) \/ ReadBack(i) \/ CleanedUp(i)
           \/ AnsweredError(i) \/ Raises(i)

Next == Return \/ \E i \in Index : StartTask(i) \/ Step(i) \/ Collect(i)

\* Threads of the pool and the caller are scheduled; a request ends, if only with
\* botocore's timeout.
Fairness == /\ \A i \in Index : WF_vars(StartTask(i)) /\ WF_vars(Step(i)) /\ WF_vars(Collect(i))
            /\ WF_vars(Return)

Spec == Init /\ [][Next]_vars /\ Fairness

-----------------------------------------------------------------------------
(* Properties.                                                             *)

Returned == metrics # NoMetrics
Passed   == Returned /\ Gate!Violations(metrics, 0, Gate!NoTimeline, Gate!NoBaseline) = {}

\* The indices the run did not leave as its operation should; every fifth object
\* of a mixed run is to be deleted, and its deletion is not looked at.
Undone == CASE operation \in {"upload", "download"} -> Index \ stored
            [] operation = "delete" -> stored
            [] operation = "mixed"  -> {i \in Index \ stored : i % 5 # 0}

\* A gate that passes bounds the damage: of the objects at most the permitted share
\* is missing (or, after a delete run, still there), however threads and failures
\* interleave.  The rate is rounded before it is compared, which permits half a
\* hundredth of a percent more.
PassBoundsLoss == Passed => 20000 * Cardinality(Undone) <= (200 * Thresholds.error + 1) * Objects

\* Every object submitted is in the figures, raised or not.
EveryObjectCounts == Returned => metrics.total = Objects /\ metrics.successful + metrics.failed = Objects

\* The run returns: a task that fails gives its thread back.
RunReturns == <>Returned

=============================================================================
