-------------------------- MODULE IntegrityValidator --------------------------
(***************************************************************************)
(* IntegrityValidator (storguard/integrity/validator.py) after a workload: *)
(* once an upload run has returned, its caller has every object downloaded *)
(* and compared with what was uploaded (verify_batch), and the gate judges *)
(* the figures together with the number of reports that did not pass.      *)
(*                                                                         *)
(* Objects may be damaged once their task is over and until the            *)
(* verification begins; checksums tell contents apart.                     *)
(***************************************************************************)
EXTENDS Workload

VARIABLES
  damaged,   \* indices whose stored body is no longer the one uploaded
  checking,  \* the index verified next; Objects when verify_batch has returned, -1 if it raised
  reports    \* reports[i]: report i passed, of those made

verification == <<damaged, checking, reports>>

VerifiedInit == Init /\ damaged = {} /\ checking = 0 /\ reports = <<>>

RunStep == Next /\ UNCHANGED verification

Damage(i) == /\ i \in stored \ damaged /\ checking = 0
             /\ task[i] \in {"finished", "collected"}
             /\ damaged' = damaged \cup {i}
             /\ UNCHANGED <<vars, checking, reports>>

Report(passed) == reports' = Append(reports, passed) /\ checking' = checking + 1

\* Mutant: a download that fails is not the object's fault.
ErrorsPass(i) == /\ Report(i \notin damaged)
                 /\ UNCHANGED <<vars, damaged>>

\* A 404 is a failed download, and a failed download a report that did not pass.
Compare(i) == /\ Report(i \in stored \ damaged)
              /\ UNCHANGED <<vars, damaged>>

Refuse == /\ Fault /\ Report(FALSE)
          /\ UNCHANGED <<operation, stored, task, result, results, metrics, damaged>>

\* No answer: verify_batch raises, and what it had found is lost.
VerifyRaises == /\ Fault /\ checking' = -1 /\ reports' = <<>>
                /\ UNCHANGED <<operation, stored, task, result, results, metrics, damaged>>

Verification == /\ Returned /\ operation = "upload" /\ checking \in Index
                /\ Compare(checking) \/ Refuse \/ VerifyRaises

VerifiedNext == RunStep \/ (\E i \in Index : Damage(i)) \/ Verification

VerifiedSpec == VerifiedInit /\ [][VerifiedNext]_<<vars, verification>> /\ Fairness

-----------------------------------------------------------------------------
(* Properties.                                                             *)

CorruptionCount == Cardinality({i \in DOMAIN reports : ~reports[i]})

\* A gate that passes an upload run and its verification, with no corruption permitted,
\* vouches for every object: whatever share of failed operations it lets pass, none is
\* missing and none damaged.  Being refused a download cannot hide one.
VerifiedPassIsWhole ==
  checking = Objects /\ Returned /\ Thresholds.corruption = 0
    /\ Gate!Violations(metrics, CorruptionCount, Gate!NoTimeline, Gate!NoBaseline) = {}
  => Index \subseteq stored \ damaged

=============================================================================
