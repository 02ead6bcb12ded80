------------------------------- MODULE GateCases -------------------------------
(***************************************************************************)
(* Cases for QualityGate: a run's results come in one at a time, and the   *)
(* gate may be asked after any of them.  A result is failed, or as close   *)
(* to the P95 limit as times that are rounded can be: a fast one takes the *)
(* longest time that rounds to the limit, a slow one the shortest that     *)
(* rounds to more.                                                         *)
(***************************************************************************)
EXTENDS QualityGate

CONSTANTS
  MaxResults,  \* bound: results of a run
  MaxFailed    \* bound: failed ones

ASSUME CasesAssumption == MaxResults \in Nat /\ MaxFailed \in Nat

VARIABLES fast, slow, failed  \* how many results of each kind

vars == <<fast, slow, failed>>

Init == fast = 0 /\ slow = 0 /\ failed = 0

Results == [n \in 1 .. fast + slow + failed |->
              [ok |-> n <= fast + slow,
               us |-> IF n <= fast THEN 1000 * Thresholds.p95 + 4
                      ELSE IF n <= fast + slow THEN 1000 * Thresholds.p95 + 5 ELSE 0]]

RoomForOne == fast + slow + failed < MaxResults

AddFast   == RoomForOne /\ fast' = fast + 1 /\ UNCHANGED <<slow, failed>>
AddSlow   == RoomForOne /\ slow' = slow + 1 /\ UNCHANGED <<fast, failed>>
AddFailed == RoomForOne /\ failed < MaxFailed /\ failed' = failed + 1 /\ UNCHANGED <<fast, slow>>

Next == AddFast \/ AddSlow \/ AddFailed

Spec == Init /\ [][Next]_vars

-----------------------------------------------------------------------------
Verdict == Violations(Metrics(Results), 0, NoTimeline, NoBaseline)

\* The P95 limit, with the half of a hundredth of a millisecond that rounding adds to
\* it, is one on 95% of the requests: if the gate lets the latencies pass, that many
\* successful requests take less than limit and half, and if it does not, at least one
\* in twenty takes as much or more (percentile and rounding in _compute_metrics,
\* whatever the length of the list).  Of the limit as it is written this is not true:
\* twenty requests of 800.004 ms pass a limit of 800.
P95IsNinetyFivePercent ==
  IF "p95_latency" \in Verdict THEN 100 * slow >= 5 * (fast + slow)
                               ELSE 100 * fast >= 95 * (fast + slow)

\* A run does not pass for having failed more: one more failed request, otherwise the
\* same run, takes back no violation (failed results carry the time of their failure
\* or 0, so their latencies must stay out of the percentile; and the error rate is
\* rounded before it is compared).
FailuresNeverHelp == [][failed' = failed + 1 => Verdict \subseteq Verdict']_vars

=============================================================================
