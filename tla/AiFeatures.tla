------------------------------ MODULE AiFeatures ------------------------------
(***************************************************************************)
(* The AI features (storguard/ai) and their commands (storguard/cli): log  *)
(* analysis, chaos advice and narratives, over an Ollama that comes and    *)
(* goes between any two requests, that may lack the model, and whose model *)
(* answers what it likes.  Calls share nothing; one at a time is modelled. *)
(* Who calls, and when, is in CommandLine and Demo.                        *)
(*                                                                         *)
(* A reply is told apart by what becomes of it: an object, or text from    *)
(* which no object is read; and of an object two fields, either of which   *)
(* may be missing or null: the one its reader puts in words (severity,     *)
(* priority, summary) and the one it goes through (anomalies,              *)
(* recommendations, key_findings), which may also be no list.              *)
(***************************************************************************)
EXTENDS Naturals

CONSTANT MaxPatterns  \* bound: known patterns found in a log

ASSUME AiAssumption == MaxPatterns \in Nat

Narratives == {"narrate metrics", "narrate gate", "narrate chaos"}
Features   == Narratives \cup {"analyze", "recommend"}

VARIABLES
  ollama,   \* "up", "no model" (listens, model not pulled) or "down"
  at,       \* where the call is
  call,     \* its feature, the patterns found in its log, whether its timeline is complete
  reply,    \* the model's reply
  answer,   \* what the call returns
  replied,  \* history: the model replied in this call
  noted     \* the command added that Ollama had no part in its answer

aiVars == <<ollama, at, call, reply, answer, replied, noted>>

Replying(form, text, list) == [form |-> form, text |-> text, list |-> list]
NoReply    == Replying("none", "given", "given")
TextReply  == Replying("text", "given", "given")
Replies    == [form : {"object"}, text : {"given", "missing", "null"},
               list : {"given", "missing", "null", "odd"}] \cup {TextReply}
Severities == {"low", "medium", "high", "critical"}
NoCall     == [feature |-> "none", patterns |-> 0, complete |-> TRUE]

\* by: who made it; claims: its ai_available; severity and anomalies of an analysis;
\* printable: its formatting raises nothing.
NoAnswer == [by |-> "nobody", claims |-> FALSE, severity |-> "low", anomalies |-> 0,
             printable |-> TRUE]

AiInit ==
  /\ ollama \in {"up", "no model", "down"}
  /\ at = "idle"
  /\ call = NoCall
  /\ reply = NoReply
  /\ answer = NoAnswer
  /\ replied = FALSE /\ noted = FALSE

-----------------------------------------------------------------------------
(* Answers without the model.                                              *)

BySize(n) == CASE n >= 3 -> "critical" [] n = 2 -> "high" [] n = 1 -> "medium" [] OTHER -> "low"

RuleBased == [NoAnswer EXCEPT !.by = "rules", !.severity = BySize(call.patterns),
                              !.anomalies = call.patterns]
Defaults  == [NoAnswer EXCEPT !.by = "defaults"]
Offline   == [NoAnswer EXCEPT !.by = "offline"]

\* Mutant: ai_available left at the dataclass's default.
FailedUnmarked == [NoAnswer EXCEPT !.by = "error", !.claims = TRUE]
Failed    == [NoAnswer EXCEPT !.by = "error"]

WithoutModel == CASE call.feature = "analyze"   -> RuleBased
                  [] call.feature = "recommend" -> Defaults
                  [] OTHER                      -> Offline
AfterError   == IF call.feature \in Narratives THEN Failed ELSE WithoutModel

-----------------------------------------------------------------------------
(* Answers from the reply.                                                 *)

Said(severity, anomalies) == [NoAnswer EXCEPT !.by = "model", !.claims = TRUE,
                                !.severity = severity, !.anomalies = anomalies]
Raw(severity) == [Said(severity, call.patterns) EXCEPT !.by = "raw"]
Worded == reply.text # "null" /\ reply.list # "odd"

\* Mutant: what the reply does not say is that all is well.
TakesSilenceForHealth ==
  IF reply.form = "text" THEN {Raw("low")}
  ELSE {[Said(s, n) EXCEPT !.printable = Worded] :
          s \in CASE reply.text = "given"   -> Severities
                  [] reply.text = "missing" -> {"low"}
                  [] OTHER                  -> {"null"},
          n \in CASE reply.list = "given"   -> 0 .. MaxPatterns
                  [] reply.list = "odd"     -> {1}
                  [] OTHER                  -> {0}}

\* A field that is missing has a default; one that is null is taken as it is.
TheSeverity  == CASE reply.text = "given"   -> Severities
                  [] reply.text = "missing" -> {"medium"}
                  [] OTHER                  -> {"null"}
TheAnomalies == CASE reply.list = "given"   -> 0 .. MaxPatterns
                  [] reply.list = "missing" -> {call.patterns}
                  [] reply.list = "null"    -> {0}
                  [] OTHER                  -> {1}

Analyses ==
  IF reply.form = "text" THEN {Raw(IF call.patterns > 0 THEN "medium" ELSE "low")}
  ELSE {[Said(s, n) EXCEPT !.printable = Worded] : s \in TheSeverity, n \in TheAnomalies}

\* None at all is an answer too; a priority is one of a recommendation's fields.
Recommendations ==
  IF reply.form = "text" \/ reply.list \in {"null", "odd"} THEN {Defaults}
  ELSE {[NoAnswer EXCEPT !.by = "model",
                         !.printable = reply.text # "null" \/ reply.list = "missing"]}

Narrations ==
  IF reply.form = "text" THEN {Failed}
  ELSE {[NoAnswer EXCEPT !.by = "model", !.claims = TRUE,
                         !.printable = Worded /\ reply.list # "null"]}

Readings == CASE call.feature = "analyze"   -> Analyses
              [] call.feature = "recommend" -> Recommendations
              [] OTHER                      -> Narrations

-----------------------------------------------------------------------------
(* The call.                                                               *)

\* Mutant: a generation that fails is tried again, for ever.
TriesAgain == /\ at = "generating"
              /\ at' = "checking"
              /\ UNCHANGED <<ollama, call, reply, answer, replied, noted>>

\* Mutant: the exception of a failed generation is not caught.
Escapes == /\ at = "generating"
           /\ at' = "raised"
           /\ UNCHANGED <<ollama, call, reply, answer, replied, noted>>

\* The prompt of summarize_chaos formats times that are None in a timeline not completed.
Ask(feature, n, complete) ==
  /\ at = "idle"
  /\ feature # "analyze" => n = 0
  /\ feature # "narrate chaos" => complete
  /\ call' = [feature |-> feature, patterns |-> n, complete |-> complete]
  /\ at' = IF complete THEN "checking" ELSE "raised"
  /\ UNCHANGED <<ollama, reply, answer, replied, noted>>

Give(what) == answer' = what /\ at' = "returned" /\ UNCHANGED <<ollama, call, noted>>

\* is_available: Ollama listens; nothing is asked about the model.
IsAvailable == ollama # "down"

CheckAvailable ==
  /\ at = "checking"
  /\ \/ /\ IsAvailable
        /\ at' = "generating"
        /\ UNCHANGED <<ollama, call, answer, noted>>
     \/ ~IsAvailable /\ Give(WithoutModel)
  /\ UNCHANGED <<reply, replied>>

\* Not there any more, no such model, a time-out, or no message in the response.
GenerateFails == /\ at = "generating"
                 /\ Give(AfterError)
                 /\ UNCHANGED <<reply, replied>>

ModelReplies(r) == /\ at = "generating" /\ ollama = "up"
                   /\ reply' = r
                   /\ replied' = TRUE
                   /\ at' = "reading"
                   /\ UNCHANGED <<ollama, call, answer, noted>>

Read == /\ at = "reading"
        /\ \E what \in Readings : Give(what)
        /\ UNCHANGED <<reply, replied>>

Unprintable == ~answer.printable \/ answer.by \in {"model", "raw"}

\* The command prints the answer; a reply whose text reads as a closing tag of Rich's
\* markup cannot be.
PrintAnswer == /\ at = "returned"
               /\ \/ answer.printable /\ at' = "shown"
                  \/ Unprintable /\ at' = "print raised"
               /\ UNCHANGED <<ollama, call, reply, answer, replied, noted>>

\* analyze-logs adds its tip by the answer's ai_available, advise its note by asking
\* once more whether Ollama is there.
AddNote == /\ at = "shown" /\ at' = "printed"
           /\ noted' = CASE call.feature = "analyze"   -> ~answer.claims
                         [] call.feature = "recommend" -> ~IsAvailable
                         [] OTHER                      -> FALSE
           /\ UNCHANGED <<ollama, call, reply, answer, replied>>

CallGone == /\ at' = "idle" /\ call' = NoCall /\ reply' = NoReply /\ answer' = NoAnswer
            /\ replied' = FALSE /\ noted' = FALSE

Done == /\ at \in {"printed", "raised", "print raised"}
        /\ CallGone
        /\ UNCHANGED ollama

\* ollama serve, ollama pull, a crash; the environment's.
OllamaChanges == /\ ollama' \in {"up", "no model", "down"}
                 /\ UNCHANGED <<at, call, reply, answer, replied, noted>>

Answering == CheckAvailable \/ GenerateFails \/ (\E r \in Replies : ModelReplies(r)) \/ Read

\* The ai commands, and whoever else calls a feature for itself.
AiCommand == \/ \E f \in Features, n \in 0 .. MaxPatterns, c \in BOOLEAN : Ask(f, n, c)
             \/ PrintAnswer \/ AddNote \/ Done

-----------------------------------------------------------------------------
(* Properties.                                                             *)

AiTypeOK ==
  /\ ollama \in {"up", "no model", "down"}
  /\ at \in {"idle", "checking", "generating", "reading", "returned", "raised",
             "shown", "printed", "print raised"}
  /\ call \in [feature : Features \cup {"none"}, patterns : 0 .. MaxPatterns, complete : BOOLEAN]
  /\ reply \in Replies \cup {NoReply}
  /\ answer \in [by : {"nobody", "rules", "defaults", "offline", "error", "model", "raw"},
                 claims : BOOLEAN, severity : Severities \cup {"null"}, anomalies : Nat,
                 printable : BOOLEAN]
  /\ replied \in BOOLEAN /\ noted \in BOOLEAN

\* "every AI feature falls back automatically" (README.md): no call raises, whatever
\* becomes of Ollama and whatever the model says, but summarize_chaos of a timeline
\* whose cluster was not seen healthy; that one raises with Ollama or without.
FallsBack == at = "raised" => call.feature = "narrate chaos" /\ ~call.complete

\* Only an answer made from a reply of the model in this very call is marked as AI's,
\* and analyze-logs says of no such answer that Ollama is missing.  (The note of advise,
\* which asks again, may be added to the model's recommendations.)
ClaimIsTrue == /\ answer.claims => replied
               /\ noted /\ call.feature = "analyze" => answer.by \notin {"model", "raw"}

\* LogAnalysis.is_healthy: a log with known bad patterns is called healthy on nobody's
\* word but the model's: it named the severity and did not keep silent on anomalies.
IsHealthy == answer.severity = "low" /\ answer.anomalies = 0
HealthyIsFounded ==
  at = "returned" /\ call.feature = "analyze" /\ call.patterns > 0 /\ IsHealthy =>
    answer.by = "model" /\ reply.text = "given" /\ reply.list # "missing"

\* A call that is asked returns, however often Ollama comes and goes, unless the user
\* ends the program it is part of.
CallReturns == (at = "checking") ~> (at \in {"returned", "idle"})

=============================================================================
