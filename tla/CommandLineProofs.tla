--------------------------- MODULE CommandLineProofs ---------------------------
(***************************************************************************)
(* A session at the terminal, with any number of patterns in a log and of  *)
(* probes in a run: what the answers, the verdicts and the clean-ups of    *)
(* the programs are worth, whatever is run before and interrupted when.    *)
(***************************************************************************)
EXTENDS CommandLine, FiniteSetTheorems, SequenceTheorems, TLAPS

-----------------------------------------------------------------------------
(* The AI features.                                                        *)

\* What a call has in hand: the call that raised asked for an incomplete timeline, a
\* reply being read is one the model made, an answer is as its call allows, and a log
\* analysis that is the model's says so.
Attributed == /\ at = "idle" => answer = NoAnswer
              /\ call.feature = "analyze" /\ answer.by \in {"model", "raw"} => answer.claims

AiInvariant ==
  /\ AiTypeOK
  /\ at = "reading" => reply \in Replies /\ replied
  /\ FallsBack /\ ClaimIsTrue /\ HealthyIsFounded
  /\ Attributed /\ (noted => at = "printed")

AiMoves ==
  \/ \E f \in Features, n \in 0 .. MaxPatterns, c \in BOOLEAN : Ask(f, n, c)
  \/ Answering \/ PrintAnswer \/ AddNote \/ OllamaChanges
  \/ CallGone /\ UNCHANGED ollama
  \/ UNCHANGED aiVars

Answers == [by : {"nobody", "rules", "defaults", "offline", "error", "model", "raw"},
            claims : BOOLEAN, severity : Severities \cup {"null"}, anomalies : Nat,
            printable : BOOLEAN]

LEMMA NoAnswerTyped == NoAnswer \in Answers /\ NoAnswer.claims = FALSE /\ NoAnswer.by = "nobody"
  BY DEF NoAnswer, Answers, Severities

LEMMA NothingAsked ==
  /\ NoCall \in [feature : Features \cup {"none"}, patterns : 0 .. MaxPatterns, complete : BOOLEAN]
  /\ NoCall.feature = "none" /\ NoReply \in Replies \cup {NoReply}
  BY AiAssumption DEF NoCall

LEMMA AiBegins == AiInit => AiInvariant
<1> SUFFICES ASSUME AiInit PROVE AiInvariant
  OBVIOUS
<1>1. AiTypeOK
  BY NoAnswerTyped, NothingAsked DEF AiInit, AiTypeOK, Answers
<1>2. QED  BY <1>1, NoAnswerTyped, NothingAsked DEF AiInit, AiInvariant, Attributed, FallsBack, ClaimIsTrue, HealthyIsFounded

LEMMA PatternsCounted == ASSUME AiTypeOK PROVE call.patterns \in Nat
<1>1. call.patterns \in 0 .. MaxPatterns
  <2>1. call \in [feature : Features \cup {"none"}, patterns : 0 .. MaxPatterns, complete : BOOLEAN]
    BY DEF AiTypeOK
  <2>2. QED  BY <2>1
<1>2. QED  BY <1>1, AiAssumption

\* An answer made without the model claims nothing, and calls no bad log healthy.
LEMMA WithoutModelIsSafe ==
  ASSUME AiTypeOK, NEW what \in {WithoutModel, AfterError}
  PROVE  /\ ~what.claims /\ what \in Answers /\ what.by \notin {"model", "raw"}
         /\ call.feature = "analyze" /\ call.patterns > 0 => what.severity # "low"
<1>1. call.patterns \in Nat
  BY PatternsCounted
<1>2. /\ BySize(call.patterns) \in Severities
      /\ BySize(call.patterns) = "low" => call.patterns = 0
  BY <1>1 DEF BySize, Severities
<1>3. RuleBased \in Answers /\ ~RuleBased.claims /\ RuleBased.by = "rules" /\ RuleBased.severity = BySize(call.patterns)
  BY <1>1, <1>2 DEF RuleBased, NoAnswer, Answers
<1>4. /\ Defaults \in Answers /\ Offline \in Answers /\ Failed \in Answers
      /\ \A w \in {Defaults, Offline, Failed} : ~w.claims /\ w.by \in {"defaults", "offline", "error"}
  BY DEF Defaults, Offline, Failed, NoAnswer, Answers, Severities
<1>5. what = RuleBased \/ (what \in {Defaults, Offline, Failed} /\ call.feature # "analyze")
  BY DEF WithoutModel, AfterError, Narratives
<1>6. QED  BY <1>1, <1>2, <1>3, <1>4, <1>5

LEMMA SaidTyped ==
  ASSUME NEW s \in Severities \cup {"null"}, NEW n \in Nat, NEW p \in BOOLEAN
  PROVE  LET what == [Said(s, n) EXCEPT !.printable = p] IN
           what \in Answers /\ what.by = "model" /\ what.claims /\ what.severity = s /\ what.anomalies = n
  BY DEF Said, NoAnswer, Answers

LEMMA RawTyped ==
  ASSUME NEW s \in Severities, call.patterns \in Nat
  PROVE  Raw(s) \in Answers /\ Raw(s).by = "raw" /\ Raw(s).claims /\ Raw(s).severity = s
  BY DEF Raw, Said, NoAnswer, Answers

\* Nor does one made from a reply that does not say so: a severity that is not given is
\* not low, and anomalies that are not given are those found before.
LEMMA AnalysesAreSafe ==
  ASSUME AiTypeOK, reply \in Replies, NEW what \in Analyses
  PROVE  /\ what \in Answers /\ what.claims
         /\ call.patterns > 0 /\ what.severity = "low" /\ what.anomalies = 0 =>
              what.by = "model" /\ reply.text = "given" /\ reply.list # "missing"
<1>1. call.patterns \in Nat
  BY PatternsCounted
<1>2. CASE reply.form = "text"
  <2>1. what = Raw(IF call.patterns > 0 THEN "medium" ELSE "low")
    BY <1>2 DEF Analyses
  <2>2. (IF call.patterns > 0 THEN "medium" ELSE "low") \in Severities
    BY DEF Severities
  <2>3. QED  BY <1>1, <2>1, <2>2, RawTyped
<1>3. CASE reply.form # "text"
  <2>1. PICK s \in TheSeverity, n \in TheAnomalies : what = [Said(s, n) EXCEPT !.printable = Worded]
    <3>1. what \in {[Said(s, n) EXCEPT !.printable = Worded] : s \in TheSeverity, n \in TheAnomalies}
      BY <1>3 DEF Analyses
    <3>2. QED  BY <3>1
  <2>2. s \in Severities \cup {"null"} /\ (s = "low" => reply.text = "given")
    <3>1. CASE reply.text = "given"
      BY <3>1 DEF TheSeverity
    <3>2. CASE reply.text = "missing"
      <4>1. s = "medium"
        BY <3>2 DEF TheSeverity
      <4>2. QED  BY <4>1 DEF Severities
    <3>3. CASE reply.text \notin {"given", "missing"}
      <4>1. s = "null"
        BY <3>3 DEF TheSeverity
      <4>2. QED  BY <4>1
    <3>4. QED  BY <3>1, <3>2, <3>3
  <2>3. n \in Nat /\ (reply.list = "missing" => n = call.patterns)
    BY <1>1, AiAssumption DEF TheAnomalies
  <2>4. Worded \in BOOLEAN
    BY DEF Worded
  <2>5. what \in Answers /\ what.by = "model" /\ what.claims /\ what.severity = s /\ what.anomalies = n
    BY <2>1, <2>2, <2>3, <2>4, SaidTyped
  <2>6. QED  BY <1>1, <2>2, <2>3, <2>5
<1>4. QED  BY <1>2, <1>3

LEMMA ReadingsTyped ==
  ASSUME AiTypeOK, reply \in Replies, NEW what \in Readings
  PROVE  what \in Answers
<1>1. CASE call.feature = "analyze"
  BY <1>1, AnalysesAreSafe DEF Readings
<1>2. CASE call.feature = "recommend"
  <2>1. what \in Recommendations
    BY <1>2 DEF Readings
  <2>2. \A p \in BOOLEAN : [NoAnswer EXCEPT !.by = "model", !.printable = p] \in Answers
    BY DEF NoAnswer, Answers, Severities
  <2>3. Defaults \in Answers
    BY DEF Defaults, NoAnswer, Answers, Severities
  <2>4. QED  BY <2>1, <2>2, <2>3 DEF Recommendations
<1>3. CASE call.feature \notin {"analyze", "recommend"}
  <2>1. what \in Narrations
    BY <1>3 DEF Readings
  <2>2. \A p \in BOOLEAN : [NoAnswer EXCEPT !.by = "model", !.claims = TRUE, !.printable = p] \in Answers
    BY DEF NoAnswer, Answers, Severities
  <2>3. Failed \in Answers
    BY DEF Failed, NoAnswer, Answers, Severities
  <2>4. (Worded /\ reply.list # "null") \in BOOLEAN
    BY DEF Worded
  <2>5. QED  BY <2>1, <2>2, <2>3, <2>4 DEF Narrations
<1>4. QED  BY <1>1, <1>2, <1>3

LEMMA AiPreserved ==
  ASSUME AiInvariant, AiMoves
  PROVE  AiInvariant'
<1> USE DEF AiInvariant, Attributed
<1>1. ASSUME NEW f \in Features, NEW n \in 0 .. MaxPatterns, NEW c \in BOOLEAN, Ask(f, n, c)
      PROVE  AiInvariant'
  <2>1. /\ call' = [feature |-> f, patterns |-> n, complete |-> c] /\ at = "idle"
        /\ answer' = NoAnswer /\ answer'.by = "nobody"
    BY <1>1, NoAnswerTyped DEF Ask
  <2>2. at' = (IF c THEN "checking" ELSE "raised") /\ (~c => f = "narrate chaos") /\ ~noted
    BY <1>1 DEF Ask
  <2>3. /\ call'.feature = f /\ call'.complete = c
        /\ call' \in [feature : Features \cup {"none"}, patterns : 0 .. MaxPatterns, complete : BOOLEAN]
    BY <1>1, <2>1
  <2>4. UNCHANGED <<ollama, reply, answer, replied, noted>>
    BY <1>1 DEF Ask
  <2>5. AiTypeOK'
    BY <2>2, <2>3, <2>4 DEF AiTypeOK
  <2>6. /\ FallsBack' /\ HealthyIsFounded' /\ ClaimIsTrue'
        /\ at' # "reading" /\ at' # "idle"
    <3>1. FallsBack' /\ HealthyIsFounded' /\ at' # "reading" /\ at' # "idle"
      BY <2>2, <2>3 DEF FallsBack, HealthyIsFounded
    <3>2. ClaimIsTrue'
      BY <2>1, <2>2, <2>4 DEF ClaimIsTrue
    <3>3. QED  BY <3>1, <3>2
  <2>7. QED  BY <2>1, <2>2, <2>4, <2>5, <2>6
<1>2. ASSUME NEW what \in {WithoutModel, AfterError}, at # "printed", Give(what), UNCHANGED <<reply, replied>>
      PROVE  AiInvariant'
  <2>1. what \in Answers
    BY WithoutModelIsSafe
  <2>2. AiTypeOK'
    BY <1>2, <2>1 DEF Give, AiTypeOK, Answers
  <2>3. QED
    BY <1>2, <2>2, WithoutModelIsSafe DEF Give, FallsBack, ClaimIsTrue, HealthyIsFounded, IsHealthy
<1>3. CASE CheckAvailable
  <2>1. CASE at' = "generating"
    <3>1. at = "checking" /\ UNCHANGED <<ollama, call, reply, answer, replied, noted>>
      BY <1>3, <2>1 DEF CheckAvailable, Give
    <3>2. AiTypeOK'
      BY <2>1, <3>1 DEF AiTypeOK
    <3>3. QED  BY <2>1, <3>1, <3>2 DEF FallsBack, ClaimIsTrue, HealthyIsFounded
  <2>2. CASE at' # "generating"
    BY <1>2, <1>3, <2>2 DEF CheckAvailable
  <2>3. QED  BY <2>1, <2>2
<1>4. CASE GenerateFails
  BY <1>2, <1>4 DEF GenerateFails
<1>5. ASSUME NEW r \in Replies, ModelReplies(r) PROVE AiInvariant'
  BY <1>5 DEF ModelReplies, AiTypeOK, FallsBack, ClaimIsTrue, HealthyIsFounded
<1>6. CASE Read
  <2>1. PICK what \in Readings : Give(what)
    BY <1>6 DEF Read
  <2>2. call.feature = "analyze" => what \in Analyses
    BY <2>1 DEF Readings
  <2>3. at = "reading" /\ reply \in Replies /\ replied /\ ~noted /\ UNCHANGED <<reply, replied>>
    BY <1>6 DEF Read
  <2>4. what \in Answers
    BY <2>1, <2>3, ReadingsTyped
  <2>5. AiTypeOK'
    BY <2>1, <2>3, <2>4 DEF Give, AiTypeOK, Answers
  <2>6. HealthyIsFounded'
    BY <2>1, <2>2, <2>3, AnalysesAreSafe DEF Give, HealthyIsFounded, IsHealthy
  <2>7. call.feature = "analyze" => what.claims
    BY <2>2, <2>3, AnalysesAreSafe
  <2>8. QED  BY <2>1, <2>3, <2>5, <2>6, <2>7 DEF Give, FallsBack, ClaimIsTrue
<1>7. CASE PrintAnswer
  <2>1. AiTypeOK'
    BY <1>7 DEF PrintAnswer, AiTypeOK
  <2>2. QED  BY <1>7, <2>1 DEF PrintAnswer, FallsBack, ClaimIsTrue, HealthyIsFounded
<1>8. CASE AddNote
  <2>1. noted' \in BOOLEAN /\ (call.feature = "analyze" => noted' = ~answer.claims)
    BY <1>8 DEF AddNote, IsAvailable, AiTypeOK
  <2>2. AiTypeOK'
    BY <1>8, <2>1 DEF AddNote, AiTypeOK
  <2>3. at = "shown" /\ at' = "printed" /\ UNCHANGED <<ollama, call, reply, answer, replied>>
    BY <1>8 DEF AddNote
  <2>4. ClaimIsTrue'
    BY <2>1, <2>3 DEF ClaimIsTrue
  <2>5. QED  BY <2>2, <2>3, <2>4 DEF FallsBack, HealthyIsFounded
<1>9. CASE OllamaChanges \/ UNCHANGED aiVars
  <2>1. AiTypeOK'
    BY <1>9 DEF OllamaChanges, aiVars, AiTypeOK
  <2>2. UNCHANGED <<at, call, reply, answer, replied, noted>>
    BY <1>9 DEF OllamaChanges, aiVars
  <2>3. FallsBack' /\ ClaimIsTrue' /\ HealthyIsFounded'
    BY <2>2 DEF FallsBack, ClaimIsTrue, HealthyIsFounded, IsHealthy
  <2>4. QED  BY <2>1, <2>2, <2>3
<1>10. CASE CallGone /\ UNCHANGED ollama
  <2>1. AiTypeOK'
    BY <1>10, NoAnswerTyped, NothingAsked DEF CallGone, AiTypeOK, Answers
  <2>2. QED
    BY <1>10, <2>1, NoAnswerTyped, NothingAsked DEF CallGone, FallsBack, ClaimIsTrue, HealthyIsFounded
<1>11. QED
  BY <1>1, <1>3, <1>4, <1>5, <1>6, <1>7, <1>8, <1>9, <1>10 DEF AiMoves, Answering

-----------------------------------------------------------------------------
(* The demo.                                                               *)

\* The steps before a verdict is printed, and those with a seed that was asked for.
Unjudged == {"none", "bucket", "baseline", "seed", "stop", "degraded", "restart", "verify"}
Seeded   == {"stop", "degraded", "restart", "verify"}

\* Between stop and restart the demo accounts for the node; a seed object that is not
\* there was refused.
DemoInvariant ==
  /\ DemoTypeOK
  /\ node = "down" /\ step \notin {"degraded", "restart"} => excuses # {}
  /\ step \in Unjudged => label = "none"
  /\ step \in Seeded /\ seed = "absent" => refused
  /\ VerdictIsFounded

DemoMoves == \/ StartDemo \/ DemoStep \/ CutShort \/ DamageSeed
             \/ NodeIs("up", {}) /\ UNCHANGED <<step, seed, label, refused>>
             \/ UNCHANGED demoVars

LEMMA DemoBegins == DemoInit => DemoInvariant
  BY DEF DemoInit, DemoInvariant, DemoTypeOK, Unjudged, Seeded, VerdictIsFounded

LEMMA DemoPreserved ==
  ASSUME DemoInvariant, DemoMoves
  PROVE  DemoInvariant'
<1> USE DEF DemoInvariant, DemoTypeOK, Unjudged, Seeded, VerdictIsFounded
<1>1. CASE StartDemo \/ CreateBucket \/ RunWorkload \/ SkipAnalysis \/ AnalyzeLogs \/ Narrate \/ DropNarrative
  BY <1>1 DEF StartDemo, CreateBucket, RunWorkload, SkipAnalysis, AnalyzeLogs, Narrate, DropNarrative,
     Goto, SeedKept
<1>2. CASE SeedObject
  BY <1>2 DEF SeedObject, Goto
<1>3. CASE StopNode \/ RestartNode
  BY <1>3 DEF StopNode, RestartNode, NodeIs, SeedKept
<1>4. CASE Verify
  BY <1>4 DEF Verify, Goto
<1>5. CASE PrintAnalysis \/ PrintSummary
  BY <1>5 DEF PrintAnalysis, PrintSummary, Goto, SeedKept, DemoOver
<1>6. CASE CutShort
  BY <1>6 DEF CutShort, NodeIs, DemoOver
<1>7. CASE DamageSeed \/ UNCHANGED demoVars
  BY <1>7 DEF DamageSeed, demoVars
<1>8. CASE NodeIs("up", {}) /\ UNCHANGED <<step, seed, label, refused>>
  BY <1>8 DEF NodeIs
<1>9. QED
  BY <1>1, <1>2, <1>3, <1>4, <1>5, <1>6, <1>7, <1>8 DEF DemoMoves, DemoStep

-----------------------------------------------------------------------------
(* The race runner.                                                        *)

Payloads == {"updated", "payload A", "payload B"}
InPlay   == {"classify", "classified", "error"}

RaceTyped ==
  /\ race \in {"none", "racing"} \cup InPlay /\ scenario \in Scenarios
  /\ racer \in [Racers -> {"asleep", "stamped", "sent", "ended", "raised"}]
  /\ clock \in Nat /\ stamp \in [Racers -> Nat]
  /\ failures \subseteq Racers
  /\ outcome \in {"none", "allowed", "forbidden", "ambiguous"}

\* The order has each racer once that has noted itself.
HasNoted(t) == racer[t] \notin {"asleep", "stamped"}
EachOnce ==
  \/ ~HasNoted("A") /\ ~HasNoted("B") /\ order = <<>>
  \/ HasNoted("A") /\ ~HasNoted("B") /\ order = <<"A">>
  \/ ~HasNoted("A") /\ HasNoted("B") /\ order = <<"B">>
  \/ HasNoted("A") /\ HasNoted("B") /\ order \in {<<"A", "B">>, <<"B", "A">>}

\* The caller goes on when both racers are over.
InTurn == /\ race = "none" => \A t \in Racers : racer[t] = "asleep"
          /\ race \in InPlay => \A t \in Racers : Over(t)
          /\ outcome # "none" => race = "classified"

\* A body that is what it was at first is one no request has changed.
AtFirst == IF scenario = "concurrent write" THEN "absent" ELSE "original"
BodyFits ==
  /\ body \in {"absent", "original", "torn"} \cup Payloads
  /\ scenario = "write delete" => body \notin {"payload A", "payload B"}
  /\ scenario = "overwrite read" => body \in {"original", "updated", "torn"}
  /\ scenario = "concurrent write" => body \notin {"original", "updated"}
  /\ body = AtFirst => \A t \in Racers : Over(t) /\ Request(t) # "read" => t \in failures

\* What was downloaded is what is there.
SeenFits ==
  /\ scenario = "overwrite read" => seen \in {"nothing", "original", "updated", "torn"}
  /\ scenario # "overwrite read" => seen \in {"nothing", "refused", body}
  /\ race \notin InPlay /\ scenario # "overwrite read" => seen = "nothing"
  /\ race = "none" => seen = "nothing"

RaceInvariant == RaceTyped /\ EachOnce /\ InTurn /\ BodyFits /\ SeenFits
                   /\ OrderIsByStart /\ ForbiddenMeansTorn /\ AllowedIsWhole

RaceMoves == StartRace \/ RaceStep \/ UNCHANGED raceVars

LEMMA RaceBegins == RaceInit => RaceInvariant
<1> SUFFICES ASSUME RaceInit PROVE RaceInvariant
  OBVIOUS
<1>1. \A t \in Racers : racer[t] = "asleep"
  BY DEF RaceInit
<1>2. RaceTyped
  BY DEF RaceInit, RaceTyped, Scenarios
<1>3. EachOnce
  BY <1>1 DEF RaceInit, EachOnce, HasNoted, Racers
<1>4. InTurn /\ BodyFits /\ SeenFits
  BY <1>1 DEF RaceInit, InTurn, InPlay, BodyFits, AtFirst, SeenFits, Over
<1>5. OrderIsByStart /\ ForbiddenMeansTorn /\ AllowedIsWhole
  BY DEF RaceInit, OrderIsByStart, ForbiddenMeansTorn, AllowedIsWhole
<1>6. QED  BY <1>2, <1>3, <1>4, <1>5 DEF RaceInvariant

\* While no verdict is given there is nothing to be shown of one.
LEMMA NoVerdictYet ==
  ASSUME outcome' = "none"
  PROVE  ForbiddenMeansTorn' /\ AllowedIsWhole'
  BY DEF ForbiddenMeansTorn, AllowedIsWhole

LEMMA Quiet ==
  ASSUME UNCHANGED <<racer, scenario>>
  PROVE  \A t \in Racers : (Over(t)' <=> Over(t)) /\ Request(t)' = Request(t) /\ (HasNoted(t)' <=> HasNoted(t))
  BY DEF Over, Request, HasNoted

LEMMA StampKeeps ==
  ASSUME RaceInvariant, NEW t \in Racers, Stamp(t)
  PROVE  RaceInvariant'
<1>1. /\ race = "racing" /\ racer[t] = "asleep" /\ racer' = [racer EXCEPT ![t] = "stamped"]
      /\ UNCHANGED <<race, scenario, order, body, seen, outcome, failures>>
  BY DEF Stamp
<1>2. outcome = "none"
  BY <1>1 DEF RaceInvariant, InTurn
<1>3. \A u \in Racers : (Over(u)' <=> Over(u)) /\ Request(u)' = Request(u) /\ (HasNoted(u)' <=> HasNoted(u))
  BY <1>1 DEF Over, Request, HasNoted, RaceInvariant, RaceTyped
<1>4. RaceTyped'
  <2>1. clock' \in Nat
    BY DEF Stamp, RaceInvariant, RaceTyped
  <2>2. stamp' \in [Racers -> Nat]
    BY <2>1 DEF Stamp, RaceInvariant, RaceTyped
  <2>3. QED  BY <1>1, <2>1, <2>2 DEF RaceInvariant, RaceTyped
<1>5. EachOnce'
  BY <1>1, <1>3 DEF RaceInvariant, EachOnce, Racers
<1>6. InTurn' /\ BodyFits' /\ SeenFits' /\ OrderIsByStart'
  BY <1>1, <1>3 DEF RaceInvariant, InTurn, InPlay, BodyFits, AtFirst, SeenFits, OrderIsByStart
<1>7. QED  BY <1>1, <1>2, <1>4, <1>5, <1>6, NoVerdictYet DEF RaceInvariant

LEMMA Pair == \A a, b : Append(<<a>>, b) = <<a, b>>
<1> SUFFICES ASSUME NEW a, NEW b PROVE Append(<<a>>, b) = <<a, b>>
  OBVIOUS
<1>1. Append(<<a>>, b) \in Seq({a, b}) /\ <<a, b>> \in Seq({a, b})
  OBVIOUS
<1>2. Len(Append(<<a>>, b)) = 2 /\ Append(<<a>>, b)[1] = a /\ Append(<<a>>, b)[2] = b
  OBVIOUS
<1>3. Len(<<a, b>>) = 2 /\ <<a, b>>[1] = a /\ <<a, b>>[2] = b
  OBVIOUS
<1>4. \A i \in 1 .. 2 : i = 1 \/ i = 2
  OBVIOUS
<1>5. \A i \in 1 .. 2 : Append(<<a>>, b)[i] = <<a, b>>[i]
  BY <1>2, <1>3, <1>4
<1>6. QED  BY <1>1, <1>2, <1>3, <1>5, SeqEqual

LEMMA NoteKeeps ==
  ASSUME RaceInvariant, NEW t \in Racers, Note(t)
  PROVE  RaceInvariant'
<1>1. /\ racer[t] = "stamped" /\ racer' = [racer EXCEPT ![t] = "sent"] /\ order' = Append(order, t)
      /\ UNCHANGED <<race, scenario, clock, stamp, body, seen, outcome, failures>>
  BY DEF Note
<1>2. race \notin InPlay /\ outcome = "none"
  BY <1>1 DEF Over, InPlay, RaceInvariant, InTurn
<1>3. \A u \in Racers : (Over(u)' <=> Over(u)) /\ Request(u)' = Request(u) /\ (HasNoted(u)' <=> HasNoted(u) \/ u = t)
  BY <1>1 DEF Over, Request, HasNoted, RaceInvariant, RaceTyped
<1>4. RaceTyped'
  BY <1>1 DEF RaceInvariant, RaceTyped
<1>5. EachOnce'
  <2>1. ~HasNoted(t) /\ "A" \in Racers /\ "B" \in Racers
    BY <1>1 DEF HasNoted, Racers
  <2>2. CASE t = "A"
    <3>1. HasNoted("A")' /\ (HasNoted("B")' <=> HasNoted("B"))
      BY <1>3, <2>1, <2>2
    <3>2. CASE HasNoted("B") /\ order = <<"B">>
      <4>1. order' = <<"B", "A">>
        BY <1>1, <2>2, <3>2, Pair
      <4>2. QED  BY <2>1, <3>1, <3>2, <4>1, <1>3 DEF EachOnce
    <3>3. CASE ~HasNoted("B") /\ order = <<>>
      BY <1>1, <2>2, <3>1, <3>3 DEF EachOnce
    <3>4. QED  BY <2>1, <2>2, <3>2, <3>3 DEF RaceInvariant, EachOnce
  <2>3. CASE t = "B"
    <3>1. HasNoted("B")' /\ (HasNoted("A")' <=> HasNoted("A"))
      BY <1>3, <2>1, <2>3
    <3>2. CASE HasNoted("A") /\ order = <<"A">>
      <4>1. order' = <<"A", "B">>
        BY <1>1, <2>3, <3>2, Pair
      <4>2. QED  BY <2>1, <3>1, <3>2, <4>1, <1>3 DEF EachOnce
    <3>3. CASE ~HasNoted("A") /\ order = <<>>
      BY <1>1, <2>3, <3>1, <3>3 DEF EachOnce
    <3>4. QED  BY <2>1, <2>3, <3>2, <3>3 DEF RaceInvariant, EachOnce
  <2>4. QED  BY <2>2, <2>3 DEF Racers
<1>6. InTurn' /\ BodyFits' /\ SeenFits'
  <2>1. race # "none"
    BY <1>1 DEF RaceInvariant, InTurn
  <2>2. QED  BY <1>1, <1>2, <1>3, <2>1 DEF RaceInvariant, InTurn, InPlay, BodyFits, AtFirst, SeenFits
<1>7. OrderIsByStart'
  BY <1>1, <1>2 DEF OrderIsByStart, InPlay
<1>8. QED  BY <1>1, <1>2, <1>4, <1>5, <1>6, <1>7, NoVerdictYet DEF RaceInvariant

\* A request that is answered, or fails with or without effect.
LEMMA RequestKeeps ==
  ASSUME RaceInvariant, NEW t \in Racers, Answered(t) \/ Fails(t)
  PROVE  RaceInvariant'
<1>1. /\ racer[t] = "sent" /\ \E over \in {"ended", "raised"} : racer' = [racer EXCEPT ![t] = over]
      /\ UNCHANGED <<race, scenario, clock, stamp, order, outcome>>
      /\ failures' \in {failures, failures \cup {t}}
  BY DEF Answered, Fails
<1>2. race \notin InPlay \cup {"none"} /\ outcome = "none"
  BY <1>1 DEF Over, InPlay, RaceInvariant, InTurn
<1>3. \A u \in Racers : /\ Over(u)' <=> Over(u) \/ u = t
                        /\ Request(u)' = Request(u)
                        /\ HasNoted(u)' <=> HasNoted(u)
  BY <1>1 DEF Over, Request, HasNoted, RaceInvariant, RaceTyped
<1>4. RaceTyped' /\ EachOnce'
  <2>1. RaceTyped'
    BY <1>1 DEF RaceInvariant, RaceTyped
  <2>2. EachOnce'
    BY <1>1, <1>3 DEF RaceInvariant, EachOnce, Racers
  <2>3. QED  BY <2>1, <2>2
<1>5. InTurn' /\ OrderIsByStart'
  BY <1>1, <1>2 DEF InTurn, InPlay, OrderIsByStart
<1>6. scenario \in Scenarios
  BY DEF RaceInvariant, RaceTyped
<1>7. /\ Request(t) = "read" => scenario = "overwrite read"
      /\ scenario = "write delete" => Request(t) \in {"updated", "delete"}
      /\ scenario = "overwrite read" => Request(t) \in {"read", "updated"}
      /\ scenario = "concurrent write" => Request(t) \in {"payload A", "payload B"}
  <2>1. CASE scenario = "write delete"
    BY <2>1 DEF Request
  <2>2. CASE scenario = "overwrite read"
    BY <2>2 DEF Request
  <2>3. CASE scenario = "concurrent write"
    BY <2>3 DEF Request
  <2>4. QED  BY <1>6, <2>1, <2>2, <2>3 DEF Scenarios
<1>8. BodyFits' /\ SeenFits'
  <2>1. CASE UNCHANGED <<body, seen>> /\ (failures' = failures \cup {t} \/ Request(t) = "read")
    BY <1>1, <1>2, <1>3, <2>1 DEF RaceInvariant, BodyFits, AtFirst, SeenFits
  <2>2. CASE Request(t) = "read" /\ seen' \in {body, "torn"} /\ UNCHANGED body
    <3>1. BodyFits'
      BY <1>1, <1>3, <2>2 DEF RaceInvariant, BodyFits, AtFirst
    <3>2. SeenFits'
      BY <1>1, <1>2, <1>7, <2>2 DEF RaceInvariant, BodyFits, SeenFits
    <3>3. QED  BY <3>1, <3>2
  <2>3. CASE Request(t) # "read" /\ UNCHANGED seen
             /\ body' \in IF Request(t) = "delete" THEN {"absent"} ELSE {Request(t), "torn"}
    <3>1. body' # AtFirst'
      BY <1>1, <1>6, <1>7, <2>3 DEF AtFirst, Scenarios
    <3>2. BodyFits'
      BY <1>1, <1>6, <1>7, <2>3, <3>1 DEF BodyFits, Payloads, Scenarios
    <3>3. SeenFits'
      BY <1>1, <1>2, <2>3 DEF RaceInvariant, SeenFits
    <3>4. QED  BY <3>2, <3>3
  <2>4. QED  BY <2>1, <2>2, <2>3 DEF Answered, Fails, Effect
<1>9. QED  BY <1>1, <1>2, <1>4, <1>5, <1>8, NoVerdictYet DEF RaceInvariant

LEMMA JoinKeeps ==
  ASSUME RaceInvariant, Join
  PROVE  RaceInvariant'
<1>1. /\ race = "racing" /\ (\A t \in Racers : Over(t)) /\ race' \in {"error", "classify"}
      /\ race' = "classify" => order' = SortedByTime
      /\ race' = "error" => UNCHANGED order
      /\ UNCHANGED <<scenario, racer, clock, stamp, body, seen, outcome, failures>>
  BY DEF Join
<1>2. outcome = "none"
  BY <1>1 DEF RaceInvariant, InTurn
<1>3. \A t \in Racers : (Over(t)' <=> Over(t)) /\ Request(t)' = Request(t) /\ (HasNoted(t)' <=> HasNoted(t))
  BY <1>1, Quiet
<1>4. HasNoted("A") /\ HasNoted("B") /\ order \in {<<"A", "B">>, <<"B", "A">>}
  BY <1>1 DEF RaceInvariant, EachOnce, HasNoted, Over, Racers
<1>5. stamp["A"] \in Nat /\ stamp["B"] \in Nat
  BY DEF RaceInvariant, RaceTyped, Racers
<1>6. /\ order' \in {<<"A", "B">>, <<"B", "A">>}
      /\ race' = "classify" => stamp[order'[1]] <= stamp[order'[2]]
  BY <1>1, <1>4, <1>5 DEF SortedByTime
<1>7. OrderIsByStart'
  BY <1>1, <1>6 DEF OrderIsByStart
<1>8. EachOnce'
  BY <1>1, <1>3, <1>4, <1>6 DEF EachOnce, HasNoted
<1>9. RaceTyped'
  BY <1>1 DEF RaceInvariant, RaceTyped, InPlay
<1>10. InTurn' /\ BodyFits' /\ SeenFits'
  <2>1. InTurn'
    BY <1>1, <1>2, <1>3 DEF InTurn
  <2>2. BodyFits'
    BY <1>1, <1>3 DEF RaceInvariant, BodyFits, AtFirst
  <2>3. SeenFits'
    BY <1>1 DEF RaceInvariant, SeenFits, InPlay
  <2>4. QED  BY <2>1, <2>2, <2>3
<1>11. QED  BY <1>1, <1>2, <1>7, <1>8, <1>9, <1>10, NoVerdictYet DEF RaceInvariant

LEMMA DownloadKeeps ==
  ASSUME RaceInvariant, Download
  PROVE  RaceInvariant'
<1>1. /\ race = "classify" /\ scenario # "overwrite read"
      /\ race' \in {"classify", "error"} /\ seen' \in {body, "refused", "nothing"}
      /\ UNCHANGED <<scenario, racer, clock, stamp, order, body, outcome, failures>>
  BY DEF Download
<1>2. outcome = "none"
  BY <1>1 DEF RaceInvariant, InTurn
<1>3. \A t \in Racers : (Over(t)' <=> Over(t)) /\ Request(t)' = Request(t) /\ (HasNoted(t)' <=> HasNoted(t))
  BY <1>1, Quiet
<1>4. RaceTyped' /\ EachOnce'
  BY <1>1, <1>3 DEF RaceInvariant, RaceTyped, InPlay, EachOnce, HasNoted
<1>5. InTurn' /\ BodyFits' /\ SeenFits' /\ OrderIsByStart'
  BY <1>1, <1>2, <1>3 DEF RaceInvariant, InTurn, InPlay, BodyFits, AtFirst, SeenFits, OrderIsByStart
<1>6. QED  BY <1>1, <1>2, <1>4, <1>5, NoVerdictYet DEF RaceInvariant

LEMMA ClassifyKeeps ==
  ASSUME RaceInvariant, Classify
  PROVE  RaceInvariant'
<1>1. /\ race = "classify" /\ race' = "classified" /\ outcome' = Classification
      /\ scenario # "overwrite read" => seen # "nothing"
      /\ UNCHANGED <<scenario, racer, clock, stamp, order, body, seen, failures>>
  BY DEF Classify
<1>2. \A t \in Racers : (Over(t)' <=> Over(t)) /\ Request(t)' = Request(t) /\ (HasNoted(t)' <=> HasNoted(t))
  BY <1>1, Quiet
<1>3. (\A t \in Racers : Over(t)) /\ scenario \in Scenarios
  BY <1>1 DEF RaceInvariant, RaceTyped, InTurn, InPlay
<1>4. outcome' \in {"allowed", "forbidden", "ambiguous"}
  BY <1>1, <1>3 DEF Classification, Scenarios
<1>5. RaceTyped' /\ EachOnce'
  BY <1>1, <1>2, <1>4 DEF RaceInvariant, RaceTyped, InPlay, EachOnce, HasNoted
<1>6. InTurn' /\ BodyFits' /\ SeenFits' /\ OrderIsByStart'
  BY <1>1, <1>2, <1>3 DEF RaceInvariant, InTurn, InPlay, BodyFits, AtFirst, SeenFits, OrderIsByStart
<1>7. AllowedIsWhole'
  <2>1. SUFFICES ASSUME Classification = "allowed"
                 PROVE  seen # "torn" /\ (scenario # "overwrite read" => body # "torn")
    BY <1>1, <1>2, <1>3 DEF AllowedIsWhole
  <2>2. QED  BY <1>1, <1>3, <2>1 DEF Classification, Scenarios, RaceInvariant, SeenFits
<1>8. ForbiddenMeansTorn'
  <2>1. SUFFICES ASSUME seen # "refused", failures # Racers
                 PROVE  Classification = "forbidden" <=> seen = "torn"
    BY <1>1 DEF ForbiddenMeansTorn
  <2>2. CASE scenario = "overwrite read"
    BY <2>2 DEF Classification, RaceInvariant, SeenFits
  <2>3. CASE scenario # "overwrite read"
    <3>1. seen = body
      BY <1>1, <2>1, <2>3 DEF RaceInvariant, SeenFits
    <3>2. \A t \in Racers : Request(t) # "read"
      BY <1>3, <2>3 DEF Request, Scenarios
    <3>3. body # AtFirst
      BY <1>3, <2>1, <3>2 DEF RaceInvariant, RaceTyped, BodyFits
    <3>4. QED  BY <1>3, <2>3, <3>1, <3>3 DEF Classification, Scenarios, RaceInvariant, BodyFits, AtFirst, Payloads
  <2>4. QED  BY <2>2, <2>3
<1>9. QED  BY <1>5, <1>6, <1>7, <1>8 DEF RaceInvariant

LEMMA RacePreserved ==
  ASSUME RaceInvariant, RaceMoves
  PROVE  RaceInvariant'
<1>1. CASE StartRace
  <2>1. /\ race = "none" /\ race' = "racing" /\ scenario' \in Scenarios /\ seen = "nothing"
        /\ body' = AtFirst' /\ (\A t \in Racers : racer[t] = "asleep") /\ outcome = "none"
        /\ UNCHANGED <<racer, clock, stamp, order, seen, outcome, failures>>
    BY <1>1 DEF StartRace, AtFirst, RaceInvariant, InTurn, SeenFits
  <2>2. \A t \in Racers : ~Over(t)' /\ (HasNoted(t)' <=> HasNoted(t))
    BY <2>1 DEF Over, HasNoted
  <2>3. RaceTyped' /\ EachOnce'
    BY <2>1, <2>2 DEF RaceInvariant, RaceTyped, EachOnce, HasNoted
  <2>4. InTurn' /\ BodyFits' /\ SeenFits' /\ OrderIsByStart'
    BY <2>1, <2>2 DEF InTurn, InPlay, BodyFits, AtFirst, SeenFits, OrderIsByStart, Scenarios
  <2>5. QED  BY <2>1, <2>3, <2>4, NoVerdictYet DEF RaceInvariant
<1>2. CASE RaceGone
  <2>1. RaceInit'
    BY <1>2 DEF RaceGone, RaceInit
  <2>2. QED  BY <2>1, RaceBegins, PTL
<1>3. CASE UNCHANGED raceVars
  <2>1. \A t \in Racers : (Over(t)' <=> Over(t)) /\ Request(t)' = Request(t) /\ (HasNoted(t)' <=> HasNoted(t))
    BY <1>3, Quiet DEF raceVars
  <2>2. RaceTyped' /\ EachOnce' /\ InTurn' /\ OrderIsByStart' /\ ForbiddenMeansTorn'
    BY <1>3, <2>1 DEF raceVars, RaceInvariant, RaceTyped, EachOnce, HasNoted, InTurn, OrderIsByStart,
       ForbiddenMeansTorn
  <2>3. BodyFits' /\ SeenFits' /\ AllowedIsWhole'
    BY <1>3, <2>1 DEF raceVars, RaceInvariant, BodyFits, AtFirst, SeenFits, AllowedIsWhole
  <2>4. QED  BY <2>2, <2>3 DEF RaceInvariant
<1>4. QED
  BY <1>1, <1>2, <1>3, StampKeeps, NoteKeeps, RequestKeeps, JoinKeeps, DownloadKeeps, ClassifyKeeps
     DEF RaceMoves, RaceStep

-----------------------------------------------------------------------------
(* The monitor.                                                            *)

InLoop == {"get", "delete"}

\* Every object in the bucket but the last one is an error or a refused delete, and
\* between two probes so is the last one.
MonitorCounts ==
  /\ phase \in {"none", "create", "put", "list", "clear", "ended"} \cup InLoop
  /\ probe \in 0 .. MaxProbes /\ errors \in Nat /\ kept \in Nat
  /\ held \subseteq 1 .. probe /\ listed \subseteq 1 .. probe
  /\ errors + kept <= probe
  /\ phase \in InLoop => errors + kept < probe
  /\ Cardinality(held \ {probe}) <= errors + kept
  /\ phase \in {"none", "create", "put"} => Cardinality(held) <= errors + kept

\* A PUT is given up only as the loop is left, and what is to be cleared was listed.
MonitorTidy ==
  /\ hasBucket \in BOOLEAN /\ late \in BOOLEAN /\ slip \in BOOLEAN
  /\ late => phase \in {"list", "clear", "ended"} /\ probe # 0
  /\ phase = "clear" => hasBucket
  /\ phase = "clear" /\ ~slip => held \subseteq listed
  /\ LeavesNothing

MonitorInvariant == MonitorCounts /\ MonitorTidy

MonitorMoves == StartMonitor \/ MonitorStep \/ UNCHANGED monitorVars

\* One object more or less is one more or less to count.
LEMMA OneApart ==
  ASSUME NEW n \in Nat, NEW S \in SUBSET (1 .. n), NEW x
  PROVE  /\ Cardinality(S) \in Nat
         /\ Cardinality(S \ {x}) \in Nat
         /\ Cardinality(S \cup {x}) \in Nat
         /\ Cardinality(S \ {x}) <= Cardinality(S)
         /\ Cardinality(S) <= Cardinality(S \ {x}) + 1
         /\ Cardinality(S \cup {x}) <= Cardinality(S) + 1
<1>1. IsFiniteSet(S)
  <2>1. IsFiniteSet(1 .. n)
    BY FS_Interval
  <2>2. QED  BY <2>1, FS_Subset
<1>2. Cardinality(S) \in Nat /\ Cardinality(S \ {x}) \in Nat /\ Cardinality(S \cup {x}) \in Nat
  BY <1>1, FS_CardinalityType, FS_RemoveElement, FS_AddElement
<1>3. Cardinality(S \ {x}) = IF x \in S THEN Cardinality(S) - 1 ELSE Cardinality(S)
  BY <1>1, FS_RemoveElement
<1>4. Cardinality(S \cup {x}) = IF x \in S THEN Cardinality(S) ELSE Cardinality(S) + 1
  BY <1>1, FS_AddElement
<1>5. QED  BY <1>2, <1>3, <1>4

LEMMA ProbesAreCounted ==
  ASSUME MonitorCounts
  PROVE  ProbesAreCleared
<1>1. probe \in Nat /\ held \in SUBSET (1 .. probe)
  BY MonitorAssumption DEF MonitorCounts
<1>2. Cardinality(held) \in Nat /\ Cardinality(held \ {probe}) \in Nat
      /\ Cardinality(held) <= Cardinality(held \ {probe}) + 1
  BY <1>1, OneApart
<1>3. QED  BY <1>2 DEF MonitorCounts, ProbesAreCleared

LEMMA CountsBegin == MonitorInit => MonitorCounts
<1>1. Cardinality({}) = 0 /\ {} \ {0} = {}
  BY FS_EmptySet
<1>2. QED  BY <1>1, MonitorAssumption DEF MonitorInit, MonitorCounts, InLoop

\* A PUT makes a new probe, whether it succeeds or not, or is given up.
LEMMA PutCounts ==
  ASSUME MonitorCounts, phase = "put", probe < MaxProbes, probe' = probe + 1,
         held' \in {held, held \cup {probe + 1}}, UNCHANGED <<kept, listed>>,
         \/ errors' = errors /\ phase' \in {"get", "list"}
         \/ errors' = errors + 1 /\ phase' = "put"
  PROVE  MonitorCounts'
<1>1. probe \in Nat /\ held \in SUBSET (1 .. probe) /\ errors \in Nat /\ kept \in Nat
  BY MonitorAssumption DEF MonitorCounts
<1>2. held' \subseteq 1 .. probe' /\ listed' \subseteq 1 .. probe'
  BY <1>1 DEF MonitorCounts
<1>3. held' \ {probe'} = held
  <2>1. probe + 1 \notin held
    BY <1>1
  <2>2. QED  BY <2>1
<1>4. Cardinality(held) \in Nat /\ Cardinality(held) <= errors + kept
      /\ Cardinality(held') \in Nat /\ Cardinality(held') <= Cardinality(held) + 1
  BY <1>1, OneApart DEF MonitorCounts
<1>5. probe' \in 0 .. MaxProbes /\ errors' \in Nat /\ kept' \in Nat /\ errors' + kept' <= probe'
  BY <1>1, MonitorAssumption DEF MonitorCounts
<1>6. phase' \in InLoop => errors' + kept' < probe'
  BY <1>1 DEF MonitorCounts, InLoop
<1>7. Cardinality(held' \ {probe'}) <= errors' + kept'
  BY <1>1, <1>3, <1>4
<1>8. phase' \in {"none", "create", "put"} => Cardinality(held') <= errors' + kept'
  BY <1>1, <1>4
<1>9. phase' \in {"none", "create", "put", "list", "clear", "ended"} \cup InLoop
  BY DEF InLoop
<1>10. QED  BY <1>2, <1>5, <1>6, <1>7, <1>8, <1>9 DEF MonitorCounts

\* A delete that fails is counted, one that does not leaves nothing to count.
LEMMA DeleteCounts ==
  ASSUME MonitorCounts, DeleteProbe
  PROVE  MonitorCounts'
<1>1. probe \in Nat /\ held \in SUBSET (1 .. probe) /\ errors \in Nat /\ kept \in Nat
      /\ phase = "delete" /\ phase' = "put" /\ UNCHANGED <<probe, errors, listed>>
  BY MonitorAssumption DEF MonitorCounts, DeleteProbe
<1>2. errors + kept < probe /\ Cardinality(held \ {probe}) <= errors + kept
  BY <1>1 DEF MonitorCounts, InLoop
<1>3. /\ held' \in {held, held \ {probe}} /\ kept' \in {kept, kept + 1}
      /\ held' = held \ {probe} \/ kept' = kept + 1
  BY DEF DeleteProbe
<1>4. /\ Cardinality(held) \in Nat /\ Cardinality(held \ {probe}) \in Nat
      /\ Cardinality(held) <= Cardinality(held \ {probe}) + 1
      /\ (held \ {probe}) \ {probe} = held \ {probe}
  BY <1>1, OneApart
<1>5. kept' = kept \/ kept' = kept + 1
  BY <1>3
<1>6. errors' = errors /\ probe' = probe /\ kept' \in Nat /\ errors' + kept' <= probe'
  BY <1>1, <1>2, <1>5
<1>7. Cardinality(held') <= errors' + kept'
  <2>1. CASE held' = held \ {probe}
    BY <1>1, <1>2, <1>4, <1>5, <1>6, <2>1
  <2>2. CASE held' = held /\ kept' = kept + 1
    BY <1>1, <1>2, <1>4, <1>6, <2>2
  <2>3. QED  BY <1>3, <2>1, <2>2
<1>8. Cardinality(held' \ {probe'}) <= errors' + kept'
  <2>1. held' \ {probe'} = held \ {probe}
    BY <1>3, <1>4, <1>6
  <2>2. QED  BY <1>1, <1>2, <1>4, <1>5, <1>6, <2>1
<1>9. held' \subseteq 1 .. probe'
  BY <1>1, <1>3, <1>6
<1>10. QED  BY <1>1, <1>6, <1>7, <1>8, <1>9 DEF MonitorCounts, InLoop

\* Once the loop is left nothing is counted, and only the object of the last PUT is put
\* into the bucket.
LEMMA AfterLoopCounts ==
  ASSUME MonitorCounts, UNCHANGED <<probe, errors, kept>>, phase' \in {"list", "clear", "ended"},
         \/ held' \subseteq held
         \/ probe # 0 /\ held' = held \cup {probe},
         listed' \in SUBSET held \/ listed' \subseteq listed
  PROVE  MonitorCounts'
<1>1. probe \in Nat /\ held \in SUBSET (1 .. probe) /\ errors \in Nat /\ kept \in Nat
  BY MonitorAssumption DEF MonitorCounts
<1>2. held' \ {probe} \subseteq held \ {probe}
  OBVIOUS
<1>3. held' \subseteq 1 .. probe
  <2>1. CASE held' \subseteq held
    BY <1>1, <2>1
  <2>2. CASE probe # 0 /\ held' = held \cup {probe}
    <3>1. probe \in 1 .. probe
      BY <1>1, <2>2
    <3>2. QED  BY <1>1, <2>2, <3>1
  <2>3. QED  BY <2>1, <2>2
<1>4. IsFiniteSet(held \ {probe})
  <2>1. IsFiniteSet(1 .. probe)
    BY <1>1, FS_Interval
  <2>2. QED  BY <1>1, <2>1, FS_Subset
<1>5. /\ Cardinality(held' \ {probe}) <= Cardinality(held \ {probe})
      /\ Cardinality(held' \ {probe}) \in Nat /\ Cardinality(held \ {probe}) \in Nat
  BY <1>2, <1>4, FS_Subset, FS_CardinalityType
<1>6. Cardinality(held' \ {probe'}) <= errors' + kept'
  BY <1>1, <1>5 DEF MonitorCounts
<1>7. listed' \subseteq 1 .. probe
  BY <1>1 DEF MonitorCounts
<1>8. QED  BY <1>1, <1>3, <1>6, <1>7 DEF MonitorCounts, InLoop

LEMMA CountsPreserved ==
  ASSUME MonitorCounts, late => phase \in {"list", "clear", "ended"} /\ probe # 0, MonitorMoves
  PROVE  MonitorCounts'
<1>1. CASE StartMonitor \/ Get \/ UNCHANGED monitorVars
  BY <1>1 DEF StartMonitor, Get, monitorVars, MonitorCounts, InLoop
<1>2. CASE CreateMonitorBucket
  BY <1>2 DEF CreateMonitorBucket, MonitorCounts, InLoop
<1>3. CASE Put
  BY <1>3, PutCounts DEF Put, Stored
<1>4. CASE DeleteProbe
  BY <1>4, DeleteCounts
<1>5. CASE LeaveLoop
  <2>1. CASE \/ UNCHANGED <<probe, held>>
             \/ held' = held \ {probe} /\ UNCHANGED probe
    BY <1>5, <2>1, AfterLoopCounts DEF LeaveLoop
  <2>2. CASE phase = "put" /\ probe < MaxProbes /\ probe' = probe + 1
    BY <1>5, <2>2, PutCounts DEF LeaveLoop, Stored
  <2>3. QED  BY <1>5, <2>1, <2>2 DEF LeaveLoop
<1>6. CASE PutLands
  BY <1>6, AfterLoopCounts DEF PutLands, Stored
<1>7. CASE CleanUp
  <2>1. CASE List
    BY <2>1, AfterLoopCounts DEF List
  <2>2. CASE Clear
    BY <2>2, AfterLoopCounts DEF Clear
  <2>3. CASE DropBucket \/ CleanUpStops
    BY <2>3, AfterLoopCounts DEF DropBucket, CleanUpStops
  <2>4. QED  BY <1>7, <2>1, <2>2, <2>3 DEF CleanUp
<1>8. CASE MonitorGone
  <2>1. MonitorInit'
    BY <1>8 DEF MonitorGone, MonitorInit
  <2>2. QED  BY <2>1, CountsBegin, PTL
<1>9. QED  BY <1>1, <1>2, <1>3, <1>4, <1>5, <1>6, <1>7, <1>8 DEF MonitorMoves, MonitorStep

LEMMA TidyPreserved ==
  ASSUME MonitorCounts, MonitorTidy, MonitorMoves
  PROVE  MonitorTidy'
<1> USE DEF MonitorTidy, LeavesNothing
<1>1. CASE StartMonitor \/ Get \/ DeleteProbe \/ MonitorGone \/ UNCHANGED monitorVars
  <2>1. CASE StartMonitor \/ Get \/ UNCHANGED monitorVars
    BY <2>1 DEF StartMonitor, Get, monitorVars
  <2>2. CASE DeleteProbe
    BY <2>2 DEF DeleteProbe
  <2>3. CASE MonitorGone
    BY <2>3 DEF MonitorGone
  <2>4. QED  BY <1>1, <2>1, <2>2, <2>3
<1>2. CASE CreateMonitorBucket
  BY <1>2 DEF CreateMonitorBucket
<1>3. CASE Put
  BY <1>3 DEF Put
<1>4. CASE LeaveLoop
  <2>1. probe \in Nat => probe + 1 # 0
    OBVIOUS
  <2>2. probe \in Nat
    BY MonitorAssumption DEF MonitorCounts
  <2>3. QED  BY <1>4, <2>1, <2>2 DEF LeaveLoop
<1>5. CASE PutLands
  BY <1>5 DEF PutLands
<1>6. CASE CleanUp
  <2>1. CASE List
    BY <2>1 DEF List
  <2>2. CASE Clear
    <3>1. /\ phase = "clear" /\ phase' = "clear" /\ UNCHANGED <<hasBucket, late, probe>>
          /\ \/ UNCHANGED slip /\ \E n \in listed : listed' = listed \ {n} /\ held' = held \ {n}
             \/ slip' = TRUE
      BY <2>2 DEF Clear
    <3>2. QED  BY <3>1
  <2>3. CASE DropBucket
    <3>1. CASE UNCHANGED slip /\ ~slip
      <4>1. held = {} /\ hasBucket' = FALSE
        BY <2>3, <3>1 DEF DropBucket
      <4>2. QED  BY <2>3, <3>1, <4>1 DEF DropBucket
    <3>2. CASE slip' \/ slip
      BY <2>3, <3>2 DEF DropBucket
    <3>3. QED  BY <2>3, <3>1, <3>2 DEF DropBucket
  <2>4. CASE CleanUpStops
    BY <2>4 DEF CleanUpStops
  <2>5. QED  BY <1>6, <2>1, <2>2, <2>3, <2>4 DEF CleanUp
<1>7. QED  BY <1>1, <1>2, <1>3, <1>4, <1>5, <1>6 DEF MonitorMoves, MonitorStep

-----------------------------------------------------------------------------
(* The session.                                                            *)

\* At most one program runs, the demo with a call of the AI features.
OneAtATime ==
  /\ step # "none" \/ at # "idle" => phase = "none" /\ race = "none"
  /\ phase = "none" \/ race = "none"

SessionInvariant == AiInvariant /\ DemoInvariant /\ RaceInvariant /\ MonitorInvariant /\ OneAtATime

\* Whatever happens at the terminal, each program sees a step of its own or nothing.
LEMMA EachMovesByItself ==
  ASSUME [Next]_programs
  PROVE  AiMoves /\ DemoMoves /\ RaceMoves /\ MonitorMoves
<1>1. CASE Ai \/ AiWorks \/ Environment
  BY <1>1 DEF Ai, AiWorks, Environment, AiCommand, Done, AiMoves, DemoMoves, RaceMoves, MonitorMoves
<1>2. CASE StartsDemo
  BY <1>2 DEF StartsDemo, StartDemo, AiMoves, DemoMoves, RaceMoves, MonitorMoves
<1>3. CASE DemoWorks
  <2>1. DemoMoves /\ RaceMoves /\ MonitorMoves
    BY <1>3 DEF DemoWorks, DemoMoves, RaceMoves, MonitorMoves
  <2>2. CASE AnalyzeLogs
    <3>1. PICK n \in 0 .. MaxPatterns : Ask("analyze", n, TRUE)
      BY <2>2 DEF AnalyzeLogs
    <3>2. "analyze" \in Features /\ TRUE \in BOOLEAN
      BY DEF Features
    <3>3. QED  BY <2>1, <3>1, <3>2, Zenon DEF AiMoves
  <2>3. CASE Narrate
    <3>1. 0 \in 0 .. MaxPatterns
      BY AiAssumption
    <3>2. "narrate chaos" \in Features /\ FALSE \in BOOLEAN
      BY DEF Features, Narratives
    <3>3. Ask("narrate chaos", 0, FALSE)
      BY <2>3 DEF Narrate
    <3>4. QED  BY <2>1, <3>1, <3>2, <3>3, Zenon DEF AiMoves
  <2>4. CASE PrintAnalysis \/ DropNarrative
    <3>1. CallGone /\ UNCHANGED ollama
      BY <2>4 DEF PrintAnalysis, DropNarrative
    <3>2. QED  BY <2>1, <3>1, Zenon DEF AiMoves
  <2>5. CASE CreateBucket \/ RunWorkload \/ SeedObject \/ StopNode \/ RestartNode \/ Verify \/ SkipAnalysis
             \/ PrintSummary
    <3>1. UNCHANGED aiVars
      BY <2>5 DEF CreateBucket, RunWorkload, SeedObject, StopNode, RestartNode, Verify, SkipAnalysis,
         PrintSummary
    <3>2. QED  BY <2>1, <3>1, Zenon DEF AiMoves
  <2>6. QED  BY <1>3, <2>1, <2>2, <2>3, <2>4, <2>5 DEF DemoWorks, DemoStep
<1>4. CASE DemoMishap
  BY <1>4 DEF DemoMishap, CutShort, DamageSeed, AiMoves, DemoMoves, RaceMoves, MonitorMoves
<1>5. CASE MonitorRuns \/ RaceRuns
  BY <1>5 DEF MonitorRuns, RaceRuns, AiMoves, DemoMoves, RaceMoves, MonitorMoves
<1>6. CASE ClusterDeploy
  BY <1>6 DEF ClusterDeploy, AiMoves, DemoMoves, RaceMoves, MonitorMoves
<1>7. CASE UNCHANGED programs
  BY <1>7 DEF programs, AiMoves, DemoMoves, RaceMoves, MonitorMoves
<1>8. QED  BY <1>1, <1>2, <1>3, <1>4, <1>5, <1>6, <1>7 DEF Next

\* A program that takes a step is running or has the prompt.
LEMMA OneAtATimeStill ==
  ASSUME SessionInvariant, [Next]_programs
  PROVE  OneAtATime'
<1> USE DEF OneAtATime
<1>1. OneAtATime /\ (late => phase # "none") /\ (race = "none" => \A t \in Racers : racer[t] = "asleep")
  BY DEF SessionInvariant, MonitorInvariant, MonitorTidy, RaceInvariant, InTurn
<1>2. CASE Ai
  BY <1>2 DEF Ai, monitorVars, raceVars
<1>3. CASE AiWorks
  <2>1. at # "idle"
    BY <1>3 DEF AiWorks, Answering, CheckAvailable, GenerateFails, ModelReplies, Read
  <2>2. QED  BY <1>1, <1>3, <2>1 DEF AiWorks, monitorVars, raceVars
<1>4. CASE StartsDemo \/ ClusterDeploy
  BY <1>4 DEF StartsDemo, ClusterDeploy, Idle, monitorVars, raceVars
<1>5. CASE DemoWorks \/ DemoMishap
  <2>1. CASE step # "none"
    BY <1>1, <1>5, <2>1 DEF DemoWorks, DemoMishap, monitorVars, raceVars
  <2>2. CASE step = "none"
    <3>1. DamageSeed /\ UNCHANGED <<monitorVars, raceVars>>
      BY <1>5, <2>2 DEF DemoWorks, DemoMishap, CutShort, DemoStep, CreateBucket, RunWorkload, SeedObject,
         StopNode, RestartNode, Verify, SkipAnalysis, AnalyzeLogs, PrintAnalysis, Narrate, DropNarrative,
         PrintSummary
    <3>2. QED  BY <1>1, <3>1 DEF DamageSeed, aiVars, monitorVars, raceVars
  <2>3. QED  BY <2>1, <2>2
<1>6. CASE MonitorRuns
  <2>1. CASE Idle
    BY <1>6, <2>1 DEF MonitorRuns, Idle, aiVars, demoVars, raceVars
  <2>2. CASE MonitorStep
    <3>1. phase # "none"
      BY <1>1, <2>2 DEF MonitorStep, CreateMonitorBucket, Put, Get, DeleteProbe, LeaveLoop, PutLands, CleanUp,
         List, Clear, DropBucket, CleanUpStops, MonitorGone
    <3>2. QED  BY <1>1, <1>6, <3>1 DEF MonitorRuns, aiVars, demoVars, raceVars
  <2>3. QED  BY <1>6, <2>1, <2>2 DEF MonitorRuns
<1>7. CASE RaceRuns
  <2>1. CASE Idle
    BY <1>7, <2>1 DEF RaceRuns, Idle, aiVars, demoVars, monitorVars
  <2>2. CASE RaceStep
    <3>1. race # "none"
      BY <1>1, <2>2 DEF RaceStep, Stamp, Note, Answered, Fails, Join, Download, Classify, RaceGone
    <3>2. QED  BY <1>1, <1>7, <3>1 DEF RaceRuns, aiVars, demoVars, monitorVars
  <2>3. QED  BY <1>7, <2>1, <2>2 DEF RaceRuns
<1>8. CASE Environment \/ UNCHANGED programs
  BY <1>1, <1>8 DEF Environment, OllamaChanges, programs, aiVars, demoVars, monitorVars, raceVars
<1>9. QED  BY <1>2, <1>3, <1>4, <1>5, <1>6, <1>7, <1>8 DEF Next

THEOREM SessionInvariantHolds == Spec => []SessionInvariant
<1>1. Init => SessionInvariant
  <2>1. Init => MonitorTidy /\ OneAtATime
    BY DEF Init, MonitorInit, AiInit, DemoInit, RaceInit, MonitorTidy, LeavesNothing, OneAtATime
  <2>2. QED  BY <2>1, AiBegins, DemoBegins, RaceBegins, CountsBegin DEF Init, SessionInvariant, MonitorInvariant
<1>2. SessionInvariant /\ [Next]_programs => SessionInvariant'
  <2>1. SUFFICES ASSUME SessionInvariant, [Next]_programs PROVE SessionInvariant'
    OBVIOUS
  <2>2. AiMoves /\ DemoMoves /\ RaceMoves /\ MonitorMoves
    BY <2>1, EachMovesByItself
  <2>3. AiInvariant' /\ DemoInvariant' /\ RaceInvariant'
    BY <2>1, <2>2, AiPreserved, DemoPreserved, RacePreserved DEF SessionInvariant
  <2>4. MonitorCounts'
    BY <2>1, <2>2, CountsPreserved DEF SessionInvariant, MonitorInvariant, MonitorTidy
  <2>5. MonitorTidy'
    BY <2>1, <2>2, TidyPreserved DEF SessionInvariant, MonitorInvariant
  <2>6. QED  BY <2>1, <2>3, <2>4, <2>5, OneAtATimeStill DEF SessionInvariant, MonitorInvariant
<1>3. QED  BY <1>1, <1>2, PTL DEF Spec

-----------------------------------------------------------------------------
\* Every variable stays in its domain and one program runs at a time: no demo, monitor
\* or race begins before the other has given the prompt back.
THEOREM SessionTypeCorrect == Spec => []TypeOK
<1>1. SessionInvariant => TypeOK
  <2>1. SUFFICES ASSUME SessionInvariant PROVE TypeOK
    OBVIOUS
  <2>2. AiTypeOK /\ DemoTypeOK
    BY <2>1 DEF SessionInvariant, AiInvariant, DemoInvariant
  <2>3. MonitorTypeOK
    <3>1. errors \in 0 .. probe /\ kept \in 0 .. probe
      BY <2>1, MonitorAssumption DEF SessionInvariant, MonitorInvariant, MonitorCounts
    <3>2. QED  BY <2>1, <3>1 DEF MonitorTypeOK, SessionInvariant, MonitorInvariant, MonitorCounts, MonitorTidy, InLoop
  <2>4. RaceTypeOK
    <3>1. body \in Contents
      BY <2>1 DEF SessionInvariant, RaceInvariant, BodyFits, Payloads, Contents
    <3>2. seen \in Contents \cup {"nothing", "refused"}
      <4>1. CASE scenario = "overwrite read"
        BY <2>1, <4>1 DEF SessionInvariant, RaceInvariant, SeenFits, Contents
      <4>2. CASE scenario # "overwrite read"
        BY <2>1, <3>1, <4>2 DEF SessionInvariant, RaceInvariant, SeenFits
      <4>3. QED  BY <4>1, <4>2
    <3>3. order \in Seq(Racers) /\ Len(order) <= 2
      <4>1. order \in {<<>>, <<"A">>, <<"B">>, <<"A", "B">>, <<"B", "A">>}
        BY <2>1 DEF SessionInvariant, RaceInvariant, EachOnce
      <4>2. "A" \in Racers /\ "B" \in Racers
        BY DEF Racers
      <4>3. /\ \A a \in Racers : <<a>> \in Seq(Racers) /\ Len(<<a>>) = 1
            /\ \A a, b \in Racers : <<a, b>> \in Seq(Racers) /\ Len(<<a, b>>) = 2
            /\ <<>> \in Seq(Racers) /\ Len(<<>>) = 0
        OBVIOUS
      <4>4. CASE order = <<>>
        BY <4>3, <4>4
      <4>5. CASE order = <<"A">>
        BY <4>2, <4>3, <4>5
      <4>6. CASE order = <<"B">>
        BY <4>2, <4>3, <4>6
      <4>7. CASE order = <<"A", "B">>
        BY <4>2, <4>3, <4>7
      <4>8. CASE order = <<"B", "A">>
        BY <4>2, <4>3, <4>8
      <4>9. QED  BY <4>1, <4>4, <4>5, <4>6, <4>7, <4>8
    <3>4. QED  BY <2>1, <3>1, <3>2, <3>3 DEF RaceTypeOK, SessionInvariant, RaceInvariant, RaceTyped, InPlay
  <2>5. QED  BY <2>1, <2>2, <2>3, <2>4 DEF TypeOK, SessionInvariant, OneAtATime
<1>2. QED  BY <1>1, SessionInvariantHolds, PTL

\* No AI feature raises, whatever Ollama does and the model says, but the one that is
\* given a timeline that never saw the cluster healthy (storguard/ai).
THEOREM AlwaysFallsBack == Spec => []FallsBack
<1>1. SessionInvariant => FallsBack
  BY DEF SessionInvariant, AiInvariant
<1>2. QED  BY <1>1, SessionInvariantHolds, PTL

\* An answer is marked as the model's only if the model replied in that very call.
THEOREM ClaimIsAlwaysTrue == Spec => []ClaimIsTrue
<1>1. SessionInvariant => ClaimIsTrue
  BY DEF SessionInvariant, AiInvariant
<1>2. QED  BY <1>1, SessionInvariantHolds, PTL

\* LogAnalyzer.analyze calls a log with any number of bad patterns healthy only on the
\* word of the model.
THEOREM HealthyIsAlwaysFounded == Spec => []HealthyIsFounded
<1>1. SessionInvariant => HealthyIsFounded
  BY DEF SessionInvariant, AiInvariant
<1>2. QED  BY <1>1, SessionInvariantHolds, PTL

\* Only a demo that was cut short while it had the node down leaves it down.
THEOREM StrandedOnlyAfterACut == Spec => []StrandedOnlyIfCut
<1>1. SessionInvariant => StrandedOnlyIfCut
  BY DEF SessionInvariant, DemoInvariant, StrandedOnlyIfCut
<1>2. QED  BY <1>1, SessionInvariantHolds, PTL

\* The demo prints MATCH of a whole object and MISMATCH of one that is not, or was
\* refused.
THEOREM VerdictIsAlwaysFounded == Spec => []VerdictIsFounded
<1>1. SessionInvariant => VerdictIsFounded
  BY DEF SessionInvariant, DemoInvariant
<1>2. QED  BY <1>1, SessionInvariantHolds, PTL

\* However many probes the monitor makes, what it leaves in its bucket while it runs is
\* counted.
THEOREM ProbesAreAlwaysCleared == Spec => []ProbesAreCleared
<1>1. SessionInvariant => ProbesAreCleared
  BY ProbesAreCounted DEF SessionInvariant, MonitorInvariant
<1>2. QED  BY <1>1, SessionInvariantHolds, PTL

\* A clean-up that was let do its work leaves no bucket, however the loop ended.
THEOREM CleanUpLeavesNothing == Spec => []LeavesNothing
<1>1. SessionInvariant => LeavesNothing
  BY DEF SessionInvariant, MonitorInvariant, MonitorTidy
<1>2. QED  BY <1>1, SessionInvariantHolds, PTL

\* run_race returns both racers, in the order of their start times, however long after
\* its start each came to note itself.
THEOREM OrderIsAlwaysByStart == Spec => []OrderIsByStart
<1>1. SessionInvariant => OrderIsByStart
  BY DEF SessionInvariant, RaceInvariant
<1>2. QED  BY <1>1, SessionInvariantHolds, PTL

\* A race whose result could be had is classified as forbidden exactly when bytes were
\* torn, whoever came first and whichever one request failed (test_race_conditions.py).
THEOREM ForbiddenAlwaysMeansTorn == Spec => []ForbiddenMeansTorn
<1>1. SessionInvariant => ForbiddenMeansTorn
  BY DEF SessionInvariant, RaceInvariant
<1>2. QED  BY <1>1, SessionInvariantHolds, PTL

\* A race classified as allowed is over and has left no torn object.
THEOREM AllowedIsAlwaysWhole == Spec => []AllowedIsWhole
<1>1. SessionInvariant => AllowedIsWhole
  BY DEF SessionInvariant, RaceInvariant
<1>2. QED  BY <1>1, SessionInvariantHolds, PTL

=============================================================================
