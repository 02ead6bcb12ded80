------------------------------ MODULE RaceRunner ------------------------------
(***************************************************************************)
(* run_race (storguard/concurrency/race_runner.py) and the three scenarios *)
(* of tests/race_conditions that race two requests for one key: each racer *)
(* sleeps for an offset, takes the time, notes it in the order and sends   *)
(* its request; the caller waits for both, sorts the order and classifies  *)
(* what the server was left with, or what the reader saw.                  *)
(*                                                                         *)
(* The seed fixes the offsets, which decide nothing the model can see: the *)
(* threads may pass each other whatever they are.                          *)
(***************************************************************************)
EXTENDS Naturals, Sequences

Racers    == {"A", "B"}
Scenarios == {"write delete", "overwrite read", "concurrent write"}

VARIABLES
  race,      \* "none", "racing", "classify", "classified" or "error"
  scenario,
  racer,     \* racer[t]: "asleep", "stamped", "sent", "ended" or "raised"
  clock,     \* time.monotonic
  stamp,     \* stamp[t]: when t started, as t took it
  order,     \* the entries appended, then the order returned
  body,      \* the object: "absent", "original", a payload, or "torn"
  seen,      \* what the reader got, or the caller's download at the end
  outcome,   \* RaceOutcome, "none" before
  failures   \* history: racers whose request failed

raceVars == <<race, scenario, racer, clock, stamp, order, body, seen, outcome, failures>>

RaceInit == /\ race = "none" /\ scenario = "write delete"
            /\ racer = [t \in Racers |-> "asleep"] /\ clock = 0 /\ stamp = [t \in Racers |-> 0]
            /\ order = <<>> /\ body = "absent" /\ seen = "nothing" /\ outcome = "none"
            /\ failures = {}

\* What racer t asks for: an upload, by its payload, or another request.
Request(t) == CASE scenario = "write delete"     -> IF t = "A" THEN "updated" ELSE "delete"
                [] scenario = "overwrite read"   -> IF t = "A" THEN "read" ELSE "updated"
                [] scenario = "concurrent write" -> IF t = "A" THEN "payload A" ELSE "payload B"

StartRace == /\ race = "none" /\ race' = "racing"
             /\ scenario' \in Scenarios
             /\ body' = IF scenario' = "concurrent write" THEN "absent" ELSE "original"
             /\ UNCHANGED <<racer, clock, stamp, order, seen, outcome, failures>>

-----------------------------------------------------------------------------
(* _wrapped.                                                               *)

\* The clock may not have moved since the other racer read it.
Stamp(t) == /\ race = "racing" /\ racer[t] = "asleep"
            /\ clock' \in {clock, clock + 1}
            /\ stamp' = [stamp EXCEPT ![t] = clock']
            /\ racer' = [racer EXCEPT ![t] = "stamped"]
            /\ UNCHANGED <<race, scenario, order, body, seen, outcome, failures>>

Note(t) == /\ racer[t] = "stamped"
           /\ order' = Append(order, t)
           /\ racer' = [racer EXCEPT ![t] = "sent"]
           /\ UNCHANGED <<race, scenario, clock, stamp, body, seen, outcome, failures>>

\* What the server does, each request at one moment; a write it may leave half done,
\* which is what the scenarios are there to find.
Effect(t) == CASE Request(t) = "read"   -> seen' \in {body, "torn"} /\ UNCHANGED body
               [] Request(t) = "delete" -> body' = "absent" /\ UNCHANGED seen
               [] OTHER                 -> body' \in {Request(t), "torn"} /\ UNCHANGED seen

Answered(t) == /\ racer[t] = "sent"
               /\ Effect(t)
               /\ racer' = [racer EXCEPT ![t] = "ended"]
               /\ UNCHANGED <<race, scenario, clock, stamp, order, outcome, failures>>

\* An error answer, which the racer drops (a read's is kept), or none, which it raises.
Fails(t) == /\ racer[t] = "sent"
            /\ \/ UNCHANGED <<body, seen>>
               \/ Request(t) # "read" /\ Effect(t)
            /\ racer' \in {[racer EXCEPT ![t] = "ended"], [racer EXCEPT ![t] = "raised"]}
            /\ failures' = failures \cup {t}
            /\ UNCHANGED <<race, scenario, clock, stamp, order, outcome>>

-----------------------------------------------------------------------------
(* The caller.                                                             *)

Over(t) == racer[t] \in {"ended", "raised"}

\* Mutant: in the order in which the racers came to note themselves.
AsNoted == order

\* sorted() by start time, which keeps entries of one time as they came.
SortedByTime == IF Len(order) = 2 /\ stamp[order[2]] < stamp[order[1]]
                  THEN <<order[2], order[1]>> ELSE order

\* Mutant: the second racer is not waited for.
JoinsFirst == /\ race = "racing" /\ Over("A")
              /\ race' = IF racer["A"] = "raised" THEN "error" ELSE "classify"
              /\ order' = SortedByTime
              /\ UNCHANGED <<scenario, racer, clock, stamp, body, seen, outcome, failures>>

\* Both are waited for, also when the first one raised.
Join == /\ race = "racing"
        /\ \A t \in Racers : Over(t)
        /\ IF \E t \in Racers : racer[t] = "raised" THEN race' = "error" /\ UNCHANGED order
                                                    ELSE race' = "classify" /\ order' = SortedByTime
        /\ UNCHANGED <<scenario, racer, clock, stamp, body, seen, outcome, failures>>

\* The caller's download; in the scenario with a reader there is none.
Download == /\ race = "classify" /\ scenario # "overwrite read" /\ seen = "nothing"
            /\ \/ seen' = body /\ UNCHANGED race
               \/ seen' = "refused" /\ UNCHANGED race
               \/ race' = "error" /\ UNCHANGED seen
            /\ UNCHANGED <<scenario, racer, clock, stamp, order, body, outcome, failures>>

\* Mutant: whatever can be read is allowed.
AnyBody == IF seen \in {"refused", "nothing"} THEN "forbidden" ELSE "allowed"

Classification ==
  CASE scenario = "write delete"     -> IF seen \in {"absent", "updated"} THEN "allowed" ELSE "forbidden"
    [] scenario = "concurrent write" -> IF seen \in {"payload A", "payload B"} THEN "allowed"
                                                                              ELSE "forbidden"
    [] scenario = "overwrite read"   -> IF seen \in {"original", "updated"} THEN "allowed"
                                        ELSE IF seen = "nothing" THEN "ambiguous" ELSE "forbidden"

Classify == /\ race = "classify" /\ (scenario = "overwrite read" \/ seen # "nothing")
            /\ outcome' = Classification /\ race' = "classified"
            /\ UNCHANGED <<scenario, racer, clock, stamp, order, body, seen, failures>>

RaceGone == /\ race \in {"classified", "error"} /\ race' = "none"
            /\ scenario' = "write delete"
            /\ racer' = [t \in Racers |-> "asleep"] /\ clock' = 0 /\ stamp' = [t \in Racers |-> 0]
            /\ order' = <<>> /\ body' = "absent" /\ seen' = "nothing" /\ outcome' = "none"
            /\ failures' = {}

RaceStep == \/ \E t \in Racers : Stamp(t) \/ Note(t) \/ Answered(t) \/ Fails(t)
            \/ Join \/ Download \/ Classify \/ RaceGone

-----------------------------------------------------------------------------
(* Properties.                                                             *)

Contents == {"absent", "original", "updated", "payload A", "payload B", "torn"}

RaceTypeOK ==
  /\ race \in {"none", "racing", "classify", "classified", "error"}
  /\ scenario \in Scenarios
  /\ racer \in [Racers -> {"asleep", "stamped", "sent", "ended", "raised"}]
  /\ clock \in Nat /\ stamp \in [Racers -> Nat]
  /\ order \in Seq(Racers) /\ Len(order) <= 2
  /\ body \in Contents /\ seen \in Contents \cup {"nothing", "refused"}
  /\ outcome \in {"none", "allowed", "forbidden", "ambiguous"}
  /\ failures \subseteq Racers

\* The order returned is that of the start times, whichever thread came to note its own
\* first, and has both racers in it.
OrderIsByStart == race \in {"classify", "classified"} =>
  Len(order) = 2 /\ order[1] # order[2] /\ stamp[order[1]] <= stamp[order[2]]

\* Where the download was answered and not both racers' requests failed, "forbidden"
\* means what RaceOutcome.FORBIDDEN says, bytes that are torn, and bytes that are torn
\* are forbidden: neither an operation that lost the race nor one failed request is
\* taken for a violation.  (The scenarios also say "forbidden" of a server that merely
\* answers nothing; that they do is no part of this.)
ForbiddenMeansTorn ==
  outcome # "none" /\ seen # "refused" /\ failures # Racers =>
    (outcome = "forbidden" <=> seen = "torn")

\* A verdict of "allowed" is final: no racer is left that could change the object, and
\* neither it nor what the reader got is torn.
AllowedIsWhole == outcome = "allowed" =>
  /\ \A t \in Racers : Over(t)
  /\ seen # "torn"
  /\ scenario # "overwrite read" => body # "torn"

=============================================================================
