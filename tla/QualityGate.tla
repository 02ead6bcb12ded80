------------------------------ MODULE QualityGate ------------------------------
(***************************************************************************)
(* The figures and the verdict: _compute_metrics (workloads/engine.py),    *)
(* RecoveryTimeline.recovery_time_seconds (models.py) and                  *)
(* QualityGate.evaluate (quality_gate/gate.py), as operators.              *)
(*                                                                         *)
(* A result's time is in microseconds, and the figures are in hundredths   *)
(* of a percent or of a millisecond, rounded as the code rounds to two     *)
(* places (a half, which floats hit by accident only, goes up); limits are *)
(* in percent and milliseconds.  A time that is None is 0, which the       *)
(* code's tests for truth take for None too.                               *)
(***************************************************************************)
EXTENDS Integers, Sequences, FiniteSets

CONSTANT Thresholds  \* [error, corruption, recovery, p95, regression]

Limits == [error : Nat, corruption : Nat, recovery : Nat, p95 : Nat, regression : Nat]

ASSUME ThresholdsAssumption == Thresholds \in Limits

NoTimeline == [injected |-> 0, removed |-> 0, healthy |-> 0]
NoBaseline == [avg |-> -1]

\* round(part / whole * 100, 2), in hundredths; 0 of 0 is 0.
PercentOf(part, whole) ==
  IF whole = 0 THEN 0 ELSE (part * 20000 + whole) \div (2 * whole)

\* round(time, 2): microseconds to hundredths of a millisecond.
Rounded(us) == (us + 5) \div 10

\* Mutant: the index is taken of the last place, and falls one short.
IndexBelow(n, p) == ((n - 1) * p) \div 100

\* The index percentile() reads in a sorted list of n.
PercentileIndex(n, p) == LET idx == (n * p) \div 100 IN IF idx < n - 1 THEN idx ELSE n - 1

\* Sorting the timed results puts us at a place if no more are below it than there are
\* places before, and enough not above it to reach the place.
StandsAt(place, us, results, timed) ==
  /\ Cardinality({n \in timed : results[n].us < us}) <= place
  /\ place < Cardinality({n \in timed : results[n].us <= us})

Percentile(results, timed, p) ==
  IF timed = {} THEN 0
  ELSE CHOOSE us \in {results[n].us : n \in timed} :
         StandsAt(PercentileIndex(Cardinality(timed), p), us, results, timed)

\* round(mean(latencies), 2), in hundredths.
Mean(results, timed) ==
  LET upTo[n \in 0 .. Len(results)] ==
        IF n = 0 THEN 0 ELSE upTo[n - 1] + (IF n \in timed THEN results[n].us ELSE 0)
  IN IF timed = {} THEN 0
     ELSE (2 * upTo[Len(results)] + 10 * Cardinality(timed)) \div (20 * Cardinality(timed))

\* results: a sequence of [ok, us].
Succeeded(results) == {n \in DOMAIN results : results[n].ok}

Figures(results, timed) ==
  LET failed == Len(results) - Cardinality(Succeeded(results))
  IN [total |-> Len(results), successful |-> Cardinality(Succeeded(results)), failed |-> failed,
      avg |-> Mean(results, timed),
      p95 |-> Rounded(Percentile(results, timed, 95)),
      p99 |-> Rounded(Percentile(results, timed, 99)),
      error_rate |-> PercentOf(failed, Len(results))]

\* Mutant: the latencies are those of all results.
AllLatencies(results) == Figures(results, DOMAIN results)

Metrics(results) == Figures(results, Succeeded(results))

\* -1 for None.
RecoveryTime(timeline) ==
  IF timeline.healthy # 0 /\ timeline.removed # 0 THEN timeline.healthy - timeline.removed ELSE -1

Slower(metrics, baseline) ==
  /\ baseline # NoBaseline /\ baseline.avg > 0
  /\ (metrics.avg - baseline.avg) * 100 > Thresholds.regression * baseline.avg

\* evaluate: the violations; the gate passes when there are none.
Violations(metrics, corruption, timeline, baseline) ==
  {v \in {"error_rate", "data_corruption", "p95_latency", "recovery_time", "performance_regression"} :
     \/ v = "error_rate" /\ metrics.error_rate > 100 * Thresholds.error
     \/ v = "data_corruption" /\ corruption > Thresholds.corruption
     \/ v = "p95_latency" /\ metrics.p95 > 100 * Thresholds.p95
     \/ v = "recovery_time" /\ RecoveryTime(timeline) > Thresholds.recovery
     \/ v = "performance_regression" /\ Slower(metrics, baseline)}

=============================================================================
