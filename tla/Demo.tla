--------------------------------- MODULE Demo ---------------------------------
(***************************************************************************)
(* run_demo (storguard/dashboard/demo.py): one node is stopped and started *)
(* again around a workload, a seed object is verified, and the AI features *)
(* comment.  Nothing is in a try or a finally but the AI calls and the     *)
(* clean-up, so that an exception or a Ctrl-C ends the demo where it is.   *)
(*                                                                         *)
(* The clean-up (106-112) is no action: _print_summary, which comes before *)
(* it, always raises.  The fault list of the demo's ChaosController is its *)
(* own and nobody restores from it.  Figures and layout are left out.      *)
(***************************************************************************)
EXTENDS AiFeatures

VARIABLES
  step,     \* where run_demo is, "none" when no demo runs
  node,     \* storguard-minio2: "up" or "down"
  seed,     \* the seed object: "absent", "whole" or "damaged"
  label,    \* the verdict printed: "none", "MATCH" or "MISMATCH"
  refused,  \* history: a request about the seed object was answered with an error
  excuses   \* history: why the node may be down, since it was last up

demoVars == <<step, node, seed, label, refused, excuses>>

DemoInit == /\ step = "none" /\ node = "up" /\ seed = "absent" /\ label = "none"
            /\ refused = FALSE /\ excuses = {}

Goto(next) == step' = next /\ UNCHANGED <<node, excuses>>
NodeIs(state, why) == /\ node' = state
                      /\ excuses' = IF state = "up" THEN {} ELSE excuses \cup why
SeedKept == UNCHANGED <<seed, label, refused>>

DemoOver == step' = "none" /\ seed' = "absent" /\ label' = "none" /\ refused' = FALSE

-----------------------------------------------------------------------------
StartDemo == step = "none" /\ Goto("bucket") /\ SeedKept /\ UNCHANGED aiVars

\* An error answer is not looked at.
CreateBucket == step = "bucket" /\ Goto("baseline") /\ SeedKept /\ UNCHANGED aiVars

\* Uploads that fail are counted, those that raise dropped: the step goes on.
RunWorkload == /\ \/ step = "baseline" /\ Goto("seed")
                  \/ step = "degraded" /\ Goto("restart")
               /\ SeedKept /\ UNCHANGED aiVars

\* The result of the upload is not looked at.
SeedObject == /\ step = "seed" /\ Goto("stop")
              /\ \/ seed' = "whole" /\ UNCHANGED refused
                 \/ seed' \in {"absent", "whole"} /\ refused' = TRUE
              /\ UNCHANGED <<label, aiVars>>

StopNode == /\ step = "stop" /\ step' = "degraded"
            /\ NodeIs("down", {})
            /\ SeedKept /\ UNCHANGED aiVars

\* Mutant: an error of docker start is passed over.
StartsUnchecked == /\ step = "restart" /\ step' = "verify"
                   /\ node' \in {"up", node} /\ NodeIs(node', {})
                   /\ SeedKept /\ UNCHANGED aiVars

\* Mutant: a node that does not come up is tried again, with the workload.
TriesUntilUp == /\ step = "restart"
                /\ \/ step' = "verify" /\ NodeIs("up", {})
                   \/ step' = "degraded" /\ NodeIs("down", {"did not start"})
                /\ SeedKept /\ UNCHANGED aiVars

\* A container that is not running after the wait is not noticed.
RestartNode == /\ step = "restart" /\ step' = "verify"
               /\ NodeIs("up", {}) \/ NodeIs("down", {"did not start"})
               /\ SeedKept /\ UNCHANGED aiVars

\* Mutant: only a body that differs is a mismatch.
MatchesUnlessSeen == /\ step = "verify" /\ Goto("analysis")
                     /\ label' = IF seed = "damaged" THEN "MISMATCH" ELSE "MATCH"
                     /\ UNCHANGED <<seed, refused, aiVars>>

\* IntegrityValidator.verify: a download that fails is a mismatch too.
Verify == /\ step = "verify" /\ Goto("analysis")
          /\ \/ label' = (IF seed = "whole" THEN "MATCH" ELSE "MISMATCH") /\ UNCHANGED refused
             \/ label' = "MISMATCH" /\ refused' = TRUE
          /\ UNCHANGED <<seed, aiVars>>

-----------------------------------------------------------------------------
(* _run_ai_analysis, a caller of AiFeatures.                               *)

\* Ollama is not there, or the logs cannot be had.
SkipAnalysis == step = "analysis" /\ Goto("summary") /\ SeedKept /\ UNCHANGED aiVars

AnalyzeLogs == /\ step = "analysis" /\ IsAvailable
               /\ \E n \in 0 .. MaxPatterns : Ask("analyze", n, TRUE)
               /\ Goto("log analysis") /\ SeedKept

\* The severity is printed in capitals outside the try: one that is null raises, as
\* does an anomaly that reads as a closing tag.
PrintAnalysis == /\ step = "log analysis" /\ at = "returned"
                 /\ \/ answer.printable /\ Goto("narrative") /\ SeedKept
                    \/ Unprintable /\ DemoOver /\ UNCHANGED <<node, excuses>>
                 /\ CallGone /\ UNCHANGED ollama

\* The timeline never says when the cluster was healthy; the exception is dropped.
Narrate       == step = "narrative" /\ Ask("narrate chaos", 0, FALSE) /\ Goto("narrated") /\ SeedKept
DropNarrative == step = "narrated" /\ CallGone /\ Goto("summary") /\ SeedKept /\ UNCHANGED ollama

\* fault_removed_at is set, the recovery time is None: formatting it raises.
PrintSummary == /\ step = "summary" /\ DemoOver
                /\ UNCHANGED <<node, excuses, aiVars>>

DemoStep == \/ CreateBucket \/ RunWorkload \/ SeedObject \/ StopNode \/ RestartNode \/ Verify
            \/ SkipAnalysis \/ AnalyzeLogs \/ PrintAnalysis \/ Narrate \/ DropNarrative \/ PrintSummary

\* An exception (no answer, no such container) or an interrupt; docker may have done
\* what it was asked.
CutShort == /\ step # "none" /\ DemoOver
            /\ \/ node' = node
               \/ step = "stop" /\ node' = "down"
               \/ step = "restart" /\ node' = "up"
            /\ NodeIs(node', {step} \cap {"stop", "degraded", "restart"})
            /\ CallGone /\ UNCHANGED ollama

\* Not of StorGuard's doing: what the verification is there to find.  Of interest
\* until it has been made.
DamageSeed == /\ seed = "whole" /\ label = "none" /\ seed' = "damaged"
              /\ UNCHANGED <<step, node, label, refused, excuses, aiVars>>

-----------------------------------------------------------------------------
(* Properties.                                                             *)

DemoTypeOK ==
  /\ step \in {"none", "bucket", "baseline", "seed", "stop", "degraded", "restart", "verify",
               "analysis", "log analysis", "narrative", "narrated", "summary"}
  /\ node \in {"up", "down"} /\ seed \in {"absent", "whole", "damaged"}
  /\ label \in {"none", "MATCH", "MISMATCH"}
  /\ refused \in BOOLEAN
  /\ excuses \subseteq {"stop", "degraded", "restart", "did not start"}

\* When no demo runs, the node is down only if some demo since it was last up was cut
\* short after its stop and before the end of its restart, or started it in vain:
\* failures of the workload, the verification or the AI features strand no node.
StrandedOnlyIfCut == step = "none" /\ node = "down" => excuses # {}

\* "MATCH - zero data corruption" is printed of an object that was stored and is whole,
\* "MISMATCH - corruption detected" of a damaged one or after an upload or a download
\* that was refused.
VerdictIsFounded == /\ label = "MATCH" => seed = "whole"
                    /\ label = "MISMATCH" => seed = "damaged" \/ refused

\* A demo that starts ends: every wait in it has a deadline.
DemoEnds == (step # "none") ~> (step = "none")

=============================================================================
