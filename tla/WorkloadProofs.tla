----------------------------- MODULE WorkloadProofs -----------------------------
(***************************************************************************)
(* A workload and its verification, for any number of objects, threads and *)
(* failures and any limits: what a gate that passes says of the objects in *)
(* the bucket.                                                             *)
(***************************************************************************)
EXTENDS IntegrityValidator, FiniteSetTheorems, SequenceTheorems, TLAPS

-----------------------------------------------------------------------------
(* Figures.                                                                *)

LEMMA Quotient ==
  ASSUME NEW a \in Nat, NEW b \in Nat \ {0}
  PROVE  a \div b \in Nat /\ b * (a \div b) <= a /\ a < b * (a \div b) + b
  OBVIOUS

\* The gate counts as the run does.
LEMMA SameCount == \A S : Gate!Cardinality(S) = Cardinality(S)
  BY DEF Gate!Cardinality, Cardinality

\* A rounded error rate within the limit bounds the number of failures.
LEMMA RateBoundsFailures ==
  ASSUME NEW part \in Nat, NEW whole \in Nat, part <= whole, NEW limit \in Nat,
         ~(Gate!PercentOf(part, whole) > 100 * limit)
  PROVE  20000 * part <= (200 * limit + 1) * whole
<1>1. CASE whole = 0
  BY <1>1
<1>2. CASE whole # 0
  <2> DEFINE a == part * 20000 + whole
             b == 2 * whole
             q == a \div b
  <2>1. a \in Nat /\ b \in Nat \ {0}
    BY <1>2
  <2>2. Gate!PercentOf(part, whole) = q
    BY <1>2 DEF Gate!PercentOf
  <2>3. q \in Nat /\ a < b * q + b
    <3> HIDE DEF a, b
    <3> QED  BY <2>1, Quotient
  <2> HIDE DEF q
  <2>4. q <= 100 * limit
    BY <2>2, <2>3
  <2>5. b * q <= b * (100 * limit)
    <3>1. \A x, y, z \in Nat : x <= y => z * x <= z * y
      OBVIOUS
    <3>2. 100 * limit \in Nat
      OBVIOUS
    <3> HIDE DEF b
    <3>3. QED  BY <2>1, <2>3, <2>4, <3>1, <3>2
  <2>6. QED  BY <1>2, <2>3, <2>5
<1>3. QED  BY <1>1, <1>2

Result == [ok : BOOLEAN, us : Nat]

\* A result that comes in is one more, and one more that succeeded if it did.
LEMMA OneResultMore ==
  ASSUME NEW s \in Seq(Result), NEW r \in Result
  PROVE  /\ Append(s, r) \in Seq(Result) /\ Len(Append(s, r)) = Len(s) + 1
         /\ Gate!Succeeded(Append(s, r)) = IF r.ok THEN Gate!Succeeded(s) \cup {Len(s) + 1}
                                                   ELSE Gate!Succeeded(s)
         /\ Len(s) + 1 \notin Gate!Succeeded(s)
         /\ IsFiniteSet(Gate!Succeeded(s))
<1>1. /\ Append(s, r) \in Seq(Result) /\ Len(Append(s, r)) = Len(s) + 1
      /\ \A n \in 1 .. Len(s) : Append(s, r)[n] = s[n]
      /\ Append(s, r)[Len(s) + 1] = r
  BY AppendProperties
<1>2. Len(s) \in Nat /\ DOMAIN s = 1 .. Len(s) /\ DOMAIN Append(s, r) = 1 .. Len(s) + 1
  BY <1>1, LenProperties
<1>3. 1 .. Len(s) + 1 = (1 .. Len(s)) \cup {Len(s) + 1} /\ Len(s) + 1 \notin 1 .. Len(s)
  BY <1>2
<1>4. Gate!Succeeded(Append(s, r)) = IF r.ok THEN Gate!Succeeded(s) \cup {Len(s) + 1}
                                             ELSE Gate!Succeeded(s)
  BY <1>1, <1>2, <1>3 DEF Gate!Succeeded
<1>5. Gate!Succeeded(s) \in SUBSET (1 .. Len(s))
  BY <1>2 DEF Gate!Succeeded
<1>6. IsFiniteSet(1 .. Len(s))
  BY <1>2, FS_Interval
<1>7. QED  BY <1>1, <1>3, <1>4, <1>5, <1>6, FS_Subset

-----------------------------------------------------------------------------
(* The run.                                                                *)

Over == {"finished", "collected"}

Typed ==
  /\ operation \in AllOperations /\ stored \subseteq Index
  /\ task \in [Index -> {"queued"} \cup Requests \cup Over]
  /\ result \in [Index -> [kind : {"none", "ok", "error", "raised"}, us : Nat]]
  /\ results \in Seq(Result)

\* What the operation is to do with object i.
IsDone(i) == /\ operation \in {"upload", "download"} => i \in stored
             /\ operation = "delete" => i \notin stored
             /\ operation = "mixed" /\ i % 5 # 0 => i \in stored

\* A task sends the requests of its operation, and one whose result is ok has done what
\* it was to do.
OnCourse(i) ==
  /\ task[i] = "upload"    => operation \in {"upload", "mixed"}
  /\ task[i] = "download"  => operation = "download"
  /\ task[i] = "delete"    => operation = "delete"
  /\ task[i] = "read back" => operation = "mixed" /\ i \in stored
  /\ task[i] = "clean up"  => operation = "mixed" /\ i % 5 = 0
  /\ task[i] \in Over /\ result[i].kind = "ok" => IsDone(i)

Collected == {i \in Index : task[i] = "collected"}
Good      == {i \in Collected : result[i].kind = "ok"}

\* The results are those of the tasks collected, failure for failure.
InFigures ==
  /\ Len(results) = Cardinality(Collected)
  /\ Cardinality(Gate!Succeeded(results)) = Cardinality(Good)
  /\ Returned => Collected = Index /\ metrics = Gate!Metrics(results)

RunInvariant == Typed /\ (\A i \in Index : OnCourse(i)) /\ InFigures

LEMMA Sets ==
  /\ IsFiniteSet(Index) /\ Cardinality(Index) = Objects /\ Objects \in Nat
  /\ \A S \in SUBSET Index : IsFiniteSet(S) /\ Cardinality(S) \in Nat
<1>1. Objects \in Nat /\ Objects - 1 \in Int /\ 0 \in Int
  BY WorkloadAssumption
<1>2. IsFiniteSet(Index) /\ Cardinality(Index) = IF 0 > Objects - 1 THEN 0 ELSE (Objects - 1) - 0 + 1
  BY <1>1, FS_Interval DEF Index
<1>3. Cardinality(Index) = Objects
  BY <1>1, <1>2
<1>4. QED  BY <1>1, <1>2, <1>3, FS_Subset, FS_CardinalityType

LEMMA RunBegins == Init => RunInvariant
<1> SUFFICES ASSUME Init PROVE RunInvariant
  OBVIOUS
<1>1. operation \in AllOperations /\ stored \subseteq Index
  BY WorkloadAssumption DEF Init
<1>2. result \in [Index -> [kind : {"none", "ok", "error", "raised"}, us : Nat]]
  BY DEF Init, NoResult
<1>3. task \in [Index -> {"queued"} \cup Requests \cup Over]
  BY DEF Init
<1>4. results \in Seq(Result) /\ Len(results) = 0 /\ Gate!Succeeded(results) = {}
  BY EmptySeq DEF Init, Gate!Succeeded
<1>5. \A i \in Index : OnCourse(i)
  BY DEF Init, OnCourse, Over
<1>6. Collected = {} /\ Good = {}
  BY DEF Init, Collected, Good
<1>7. ~Returned
  BY DEF Init, Returned
<1>8. QED  BY <1>1, <1>2, <1>3, <1>4, <1>5, <1>6, <1>7, FS_EmptySet DEF RunInvariant, Typed, InFigures

\* What a step of task i may do: it leaves the other tasks and objects alone, and is not
\* for collecting results.
MovesAlone(i) ==
  /\ task[i] \notin Over /\ task'[i] # "collected"
  /\ \A j \in Index \ {i} : task'[j] = task[j] /\ result'[j] = result[j] /\ (j \in stored' <=> j \in stored)
  /\ UNCHANGED <<operation, results, metrics>>

\* The step as it is seen from the object: where the task goes, what its result becomes
\* and what becomes of the object.
TaskBecomes(i, where, kind) ==
  /\ task' = [task EXCEPT ![i] = where]
  /\ \/ UNCHANGED result
     \/ \E us \in Nat : result' = [result EXCEPT ![i] = [kind |-> kind, us |-> us]]
  /\ stored' \in {stored, stored \cup {i}, stored \ {i}}
  /\ UNCHANGED <<operation, results, metrics>>

LEMMA AloneAndTyped ==
  ASSUME Typed, NEW i \in Index, task[i] \notin Over,
         NEW where \in Requests \cup {"finished"}, NEW kind \in {"ok", "error", "raised"},
         TaskBecomes(i, where, kind)
  PROVE  MovesAlone(i) /\ Typed'
<1>1. where \in {"queued"} \cup Requests \cup Over /\ where # "collected"
  BY DEF Requests, Over
<1>2. task' \in [Index -> {"queued"} \cup Requests \cup Over]
  BY <1>1 DEF Typed, TaskBecomes
<1>3. result' \in [Index -> [kind : {"none", "ok", "error", "raised"}, us : Nat]]
  <2>1. CASE UNCHANGED result
    BY <2>1 DEF Typed
  <2>2. ASSUME NEW us \in Nat, result' = [result EXCEPT ![i] = [kind |-> kind, us |-> us]]
        PROVE  result' \in [Index -> [kind : {"none", "ok", "error", "raised"}, us : Nat]]
    <3>1. [kind |-> kind, us |-> us] \in [kind : {"none", "ok", "error", "raised"}, us : Nat]
      OBVIOUS
    <3>2. QED  BY <2>2, <3>1 DEF Typed
  <2>3. QED  BY <2>1, <2>2 DEF TaskBecomes
<1>4. \A j \in Index \ {i} : task'[j] = task[j] /\ result'[j] = result[j] /\ (j \in stored' <=> j \in stored)
  BY DEF Typed, TaskBecomes
<1>5. task'[i] # "collected"
  BY <1>1 DEF Typed, TaskBecomes
<1>6. QED  BY <1>2, <1>3, <1>4, <1>5 DEF Typed, TaskBecomes, MovesAlone

LEMMA TaskSteps ==
  ASSUME Typed, NEW i \in Index, OnCourse(i), StartTask(i) \/ Step(i)
  PROVE  MovesAlone(i) /\ Typed' /\ OnCourse(i)'
<1>1. /\ task[i] \notin Over /\ operation \in AllOperations /\ Latencies \subseteq Nat /\ result[i].us \in Nat
      /\ operation' = operation
  BY WorkloadAssumption DEF StartTask, Step, Uploaded, Downloaded, Deleted, ReadBack, CleanedUp,
     AnsweredError, Raises, RunGoesOn, Over, Requests, Typed
<1>2. ASSUME NEW where \in Requests \cup {"finished"}, NEW kind \in {"ok", "error", "raised"},
             TaskBecomes(i, where, kind)
      PROVE  MovesAlone(i) /\ Typed' /\ task'[i] = where /\ (UNCHANGED result \/ result'[i].kind = kind)
  <2>1. MovesAlone(i) /\ Typed'
    BY <1>1, <1>2, AloneAndTyped
  <2>2. QED  BY <1>2, <2>1 DEF Typed, TaskBecomes
<1>3. CASE StartTask(i)
  <2>1. TaskBecomes(i, FirstRequest, "ok") /\ FirstRequest \in Requests
        /\ FirstRequest = (IF operation = "mixed" THEN "upload" ELSE operation)
    BY <1>1, <1>3 DEF StartTask, TaskBecomes, FirstRequest, AllOperations, Requests
  <2>2. MovesAlone(i) /\ Typed' /\ task'[i] = FirstRequest
    BY <1>2, <2>1
  <2>3. QED  BY <1>1, <2>1, <2>2 DEF OnCourse, AllOperations, Over
<1>4. CASE Uploaded(i)
  <2>1. CASE operation = "mixed"
    <3>1. TaskBecomes(i, "read back", "ok") /\ i \in stored'
      BY <1>1, <1>4, <2>1 DEF Uploaded, Keep, TaskBecomes, RunGoesOn
    <3>2. MovesAlone(i) /\ Typed' /\ task'[i] = "read back"
      BY <1>2, <3>1 DEF Requests
    <3>3. QED  BY <1>1, <2>1, <3>1, <3>2 DEF OnCourse, Over
  <2>2. CASE operation # "mixed"
    <3>1. TaskBecomes(i, "finished", "ok") /\ i \in stored' /\ operation = "upload"
      BY <1>1, <1>4, <2>2 DEF Uploaded, EndTask, TaskBecomes, RunGoesOn, OnCourse
    <3>2. MovesAlone(i) /\ Typed' /\ task'[i] = "finished"
      BY <1>2, <3>1
    <3>3. QED  BY <1>1, <3>1, <3>2 DEF OnCourse, IsDone
  <2>3. QED  BY <2>1, <2>2
<1>5. CASE Downloaded(i)
  <2> DEFINE kind == IF i \in stored THEN "ok" ELSE "error"
  <2>1. /\ kind \in {"ok", "error", "raised"} /\ operation = "download" /\ stored' = stored
        /\ task' = [task EXCEPT ![i] = "finished"]
        /\ \E us \in Nat : result' = [result EXCEPT ![i] = [kind |-> kind, us |-> us]]
        /\ UNCHANGED <<operation, results, metrics>>
    BY <1>1, <1>5 DEF Downloaded, EndTask, RunGoesOn, OnCourse
  <2>2. TaskBecomes(i, "finished", kind)
    BY <2>1 DEF TaskBecomes
  <2>3. MovesAlone(i) /\ Typed' /\ task'[i] = "finished"
    BY <1>2, <2>1, <2>2
  <2>4. result'[i].kind = kind
    BY <2>1 DEF Typed
  <2>5. QED  BY <2>1, <2>3, <2>4 DEF OnCourse, IsDone
<1>6. CASE Deleted(i)
  <2>1. TaskBecomes(i, "finished", "ok") /\ i \notin stored' /\ operation = "delete"
    BY <1>1, <1>6 DEF Deleted, EndTask, TaskBecomes, RunGoesOn, OnCourse
  <2>2. MovesAlone(i) /\ Typed' /\ task'[i] = "finished"
    BY <1>2, <2>1
  <2>3. QED  BY <1>1, <2>1, <2>2 DEF OnCourse, IsDone
<1>7. CASE ReadBack(i)
  <2>1. operation = "mixed" /\ i \in stored /\ stored' = stored
    BY <1>7 DEF ReadBack, OnCourse
  <2>2. CASE i % 5 = 0
    <3>1. TaskBecomes(i, "clean up", "ok")
      BY <1>7, <2>2 DEF ReadBack, Goto, TaskBecomes, RunGoesOn
    <3>2. MovesAlone(i) /\ Typed' /\ task'[i] = "clean up"
      BY <1>2, <3>1 DEF Requests
    <3>3. QED  BY <1>1, <2>1, <2>2, <3>2 DEF OnCourse, Over
  <2>3. CASE i % 5 # 0
    <3>1. TaskBecomes(i, "finished", "ok")
      BY <1>1, <1>7, <2>3 DEF ReadBack, EndTask, TaskBecomes, RunGoesOn
    <3>2. MovesAlone(i) /\ Typed' /\ task'[i] = "finished"
      BY <1>2, <3>1
    <3>3. QED  BY <1>1, <2>1, <3>2 DEF OnCourse, IsDone
  <2>4. QED  BY <2>2, <2>3
<1>8. CASE CleanedUp(i)
  <2>1. TaskBecomes(i, "finished", "ok") /\ operation = "mixed" /\ i % 5 = 0
    BY <1>1, <1>8 DEF CleanedUp, EndTask, TaskBecomes, RunGoesOn, OnCourse
  <2>2. MovesAlone(i) /\ Typed' /\ task'[i] = "finished"
    BY <1>2, <2>1
  <2>3. QED  BY <1>1, <2>1, <2>2 DEF OnCourse, IsDone
<1>9. ASSUME NEW kind \in {"error", "raised"}, MayHaveHappened(i), EndTask(i, kind, 0), RunGoesOn
      PROVE  MovesAlone(i) /\ Typed' /\ OnCourse(i)'
  <2>1. TaskBecomes(i, "finished", kind) /\ result' = [result EXCEPT ![i] = [kind |-> kind, us |-> 0]]
    BY <1>9 DEF MayHaveHappened, EndTask, TaskBecomes, RunGoesOn
  <2>2. MovesAlone(i) /\ Typed' /\ task'[i] = "finished"
    BY <1>2, <2>1
  <2>3. result'[i].kind # "ok"
    BY <2>1 DEF Typed
  <2>4. QED  BY <2>2, <2>3 DEF OnCourse
<1>10. CASE AnsweredError(i) \/ Raises(i)
  BY <1>9, <1>10 DEF AnsweredError, Raises
<1>11. QED  BY <1>3, <1>4, <1>5, <1>6, <1>7, <1>8, <1>10 DEF Step

LEMMA RunKeeps ==
  ASSUME RunInvariant, NEW i \in Index, StartTask(i) \/ Step(i)
  PROVE  RunInvariant'
<1>1. MovesAlone(i) /\ Typed' /\ OnCourse(i)'
  BY TaskSteps DEF RunInvariant
<1>2. \A j \in Index : OnCourse(j)'
  <2>1. ASSUME NEW j \in Index, j # i PROVE OnCourse(j)'
    <3>1. /\ OnCourse(j) /\ operation' = operation
          /\ task'[j] = task[j] /\ result'[j] = result[j] /\ (j \in stored' <=> j \in stored)
      BY <1>1, <2>1 DEF RunInvariant, MovesAlone
    <3>2. IsDone(j)' <=> IsDone(j)
      BY <3>1 DEF IsDone
    <3>3. QED  BY <3>1, <3>2 DEF OnCourse
  <2>2. QED  BY <1>1, <2>1
<1>3. Collected' = Collected /\ Good' = Good
  BY <1>1 DEF MovesAlone, Collected, Good, Over
<1>4. InFigures'
  BY <1>1, <1>3 DEF RunInvariant, InFigures, MovesAlone, Returned
<1>5. QED  BY <1>1, <1>2, <1>4 DEF RunInvariant

LEMMA CollectKeeps ==
  ASSUME RunInvariant, NEW i \in Index, Collect(i)
  PROVE  RunInvariant'
<1>1. /\ task[i] = "finished" /\ task' = [task EXCEPT ![i] = "collected"]
      /\ results' = Append(results, AsResult(result[i]))
      /\ UNCHANGED <<operation, stored, result, metrics, faults>>
  BY DEF Collect
<1> DEFINE r == AsResult(result[i])
<1>2. r \in Result /\ (r.ok <=> result[i].kind = "ok")
  BY DEF RunInvariant, Typed, AsResult, Result
<1>3. Typed'
  <2>1. results' \in Seq(Result)
    <3> HIDE DEF r
    <3> QED  BY <1>1, <1>2, OneResultMore DEF r, RunInvariant, Typed
  <2>2. task' \in [Index -> {"queued"} \cup Requests \cup Over]
    BY <1>1 DEF RunInvariant, Typed, Over
  <2>3. QED  BY <1>1, <2>1, <2>2 DEF RunInvariant, Typed
<1>4. \A j \in Index : OnCourse(j)'
  BY <1>1 DEF RunInvariant, Typed, OnCourse, IsDone, Over
<1>5. ~Returned /\ ~Returned'
  BY <1>1 DEF RunInvariant, InFigures, Collected, Returned
<1>6. Collected' = Collected \cup {i} /\ i \notin Collected
  BY <1>1 DEF RunInvariant, Typed, Collected
<1>7. Good' = IF r.ok THEN Good \cup {i} ELSE Good
  BY <1>1, <1>2, <1>6 DEF Good
<1>8. IsFiniteSet(Collected) /\ IsFiniteSet(Good) /\ i \notin Good
  BY <1>6, Sets DEF Collected, Good
<1>9. Len(results') = Cardinality(Collected')
  <2>1. Cardinality(Collected') = Cardinality(Collected) + 1
    BY <1>6, <1>8, FS_AddElement
  <2>2. Len(results') = Len(results) + 1
    <3> HIDE DEF r
    <3> QED  BY <1>1, <1>2, OneResultMore DEF r, RunInvariant, Typed
  <2>3. QED  BY <2>1, <2>2 DEF RunInvariant, InFigures
<1>10. Cardinality(Gate!Succeeded(results')) = Cardinality(Good')
  <2> DEFINE new == Len(results) + 1
  <2>1. /\ Gate!Succeeded(results') = IF r.ok THEN Gate!Succeeded(results) \cup {new} ELSE Gate!Succeeded(results)
        /\ new \notin Gate!Succeeded(results) /\ IsFiniteSet(Gate!Succeeded(results))
    <3> HIDE DEF r
    <3> QED  BY <1>1, <1>2, OneResultMore DEF r, RunInvariant, Typed
  <2>2. CASE r.ok
    <3>1. Cardinality(Gate!Succeeded(results')) = Cardinality(Gate!Succeeded(results)) + 1
      BY <2>1, <2>2, FS_AddElement
    <3>2. Cardinality(Good') = Cardinality(Good) + 1
      BY <1>7, <1>8, <2>2, FS_AddElement
    <3>3. QED  BY <3>1, <3>2 DEF RunInvariant, InFigures
  <2>3. CASE ~r.ok
    BY <1>7, <2>1, <2>3 DEF RunInvariant, InFigures
  <2>4. QED  BY <2>2, <2>3
<1>11. QED  BY <1>3, <1>4, <1>5, <1>9, <1>10 DEF RunInvariant, InFigures

LEMMA ReturnKeeps ==
  ASSUME RunInvariant, Return
  PROVE  RunInvariant'
<1>1. Collected = Index
  BY DEF Return, Collected
<1>2. UNCHANGED <<operation, stored, task, result, results>> /\ metrics' = Gate!Metrics(results)
  BY DEF Return
<1>3. Collected' = Collected /\ Good' = Good /\ Typed'
  BY <1>2 DEF Collected, Good, RunInvariant, Typed
<1>4. \A j \in Index : OnCourse(j)'
  BY <1>2 DEF RunInvariant, OnCourse, IsDone
<1>5. InFigures'
  BY <1>1, <1>2, <1>3 DEF RunInvariant, InFigures, Gate!Metrics, Gate!Figures, Gate!Succeeded
<1>6. QED  BY <1>3, <1>4, <1>5 DEF RunInvariant

-----------------------------------------------------------------------------
(* The verification.                                                       *)

\* A report that passed is of an object that was there whole and still is: nothing
\* changes once the verification has begun.
VerificationInvariant ==
  /\ checking \in -1 .. Objects
  /\ checking # 0 => Returned
  /\ checking # -1 =>
       /\ reports \in Seq(BOOLEAN) /\ Len(reports) = checking
       /\ \A n \in 1 .. checking : reports[n] => n - 1 \in stored \ damaged

VerifiedInvariant == RunInvariant /\ VerificationInvariant

LEMMA VerificationBegins == VerifiedInit => VerificationInvariant
  BY WorkloadAssumption, EmptySeq DEF VerifiedInit, VerificationInvariant

\* Once run has returned, nothing of the run is left to happen.
LEMMA NothingMoves ==
  ASSUME RunInvariant, Returned
  PROVE  ~Next
<1>1. \A i \in Index : task[i] = "collected"
  BY DEF RunInvariant, InFigures, Collected
<1>2. QED  BY <1>1 DEF Next, Return, Returned, StartTask, Step, Uploaded, Downloaded, Deleted, ReadBack,
           CleanedUp, AnsweredError, Raises, Collect, Requests

LEMMA VerificationKeeps ==
  ASSUME VerifiedInvariant, VerifiedNext
  PROVE  VerificationInvariant'
<1> USE DEF VerifiedInvariant
<1>1. Objects \in Nat
  BY WorkloadAssumption
<1>2. CASE RunStep
  <2>1. checking = 0 /\ UNCHANGED <<damaged, checking, reports>>
    BY <1>2, NothingMoves DEF RunStep, VerificationInvariant, verification
  <2>2. QED  BY <2>1, <1>1 DEF VerificationInvariant
<1>3. ASSUME NEW i \in Index, Damage(i) PROVE VerificationInvariant'
  BY <1>1, <1>3 DEF Damage, VerificationInvariant
<1>4. CASE Verification
  <2>1. checking \in Index /\ Returned
    BY <1>4 DEF Verification
  <2>2. checking \in Nat /\ checking < Objects
    BY <1>1, <2>1 DEF Index
  <2>3. ASSUME NEW passed \in BOOLEAN, Report(passed), UNCHANGED <<stored, damaged, metrics>>,
               passed => checking \in stored \ damaged
        PROVE  VerificationInvariant'
    <3>1. reports \in Seq(BOOLEAN) /\ Len(reports) = checking
          /\ \A n \in 1 .. checking : reports[n] => n - 1 \in stored \ damaged
      BY <2>2 DEF VerificationInvariant
    <3>2. reports' = Append(reports, passed) /\ checking' = checking + 1
      BY <2>3 DEF Report
    <3>3. /\ reports' \in Seq(BOOLEAN) /\ Len(reports') = Len(reports) + 1
          /\ \A n \in 1 .. Len(reports) : reports'[n] = reports[n]
          /\ reports'[Len(reports) + 1] = passed
      BY <3>1, <3>2, AppendProperties
    <3>4. ASSUME NEW n \in 1 .. checking', reports'[n] PROVE n - 1 \in stored' \ damaged'
      <4>1. CASE n \in 1 .. checking
        BY <2>3, <3>1, <3>3, <3>4, <4>1
      <4>2. CASE n = checking + 1
        <5>1. n - 1 = checking
          BY <2>2, <4>2
        <5>2. QED  BY <2>3, <3>1, <3>3, <3>4, <4>2, <5>1
      <4>3. QED  BY <2>2, <3>2, <4>1, <4>2
    <3>5. checking' \in -1 .. Objects /\ Returned'
      BY <1>1, <2>1, <2>2, <2>3, <3>2 DEF Returned
    <3>6. QED  BY <3>1, <3>2, <3>3, <3>4, <3>5 DEF VerificationInvariant
  <2>4. CASE Compare(checking)
    <3>1. (checking \in stored \ damaged) \in BOOLEAN
      OBVIOUS
    <3>2. Report(checking \in stored \ damaged) /\ UNCHANGED <<stored, damaged, metrics>>
      BY <2>4 DEF Compare, vars
    <3>3. QED  BY <2>3, <3>1, <3>2, Zenon
  <2>5. CASE Refuse
    BY <2>3, <2>5 DEF Refuse
  <2>6. CASE VerifyRaises
    BY <1>1, <2>1, <2>6 DEF VerifyRaises, VerificationInvariant, Returned
  <2>7. QED  BY <1>4, <2>4, <2>5, <2>6 DEF Verification
<1>5. QED  BY <1>2, <1>3, <1>4 DEF VerifiedNext

THEOREM VerifiedInvariantHolds == VerifiedSpec => []VerifiedInvariant
<1>1. VerifiedInit => VerifiedInvariant
  BY RunBegins, VerificationBegins DEF VerifiedInit, VerifiedInvariant
<1>2. VerifiedInvariant /\ [VerifiedNext]_<<vars, verification>> => VerifiedInvariant'
  <2>1. SUFFICES ASSUME VerifiedInvariant, [VerifiedNext]_<<vars, verification>> PROVE VerifiedInvariant'
    OBVIOUS
  <2>2. CASE VerifiedNext
    <3>1. ASSUME RunStep PROVE RunInvariant'
      BY <2>1, <3>1, RunKeeps, CollectKeeps, ReturnKeeps DEF RunStep, Next, VerifiedInvariant
    <3>2. ASSUME UNCHANGED <<operation, stored, task, result, results, metrics>> PROVE RunInvariant'
      BY <2>1, <3>2 DEF VerifiedInvariant, RunInvariant, Typed, OnCourse, IsDone, InFigures, Collected,
         Good, Returned
    <3>3. RunInvariant'
      BY <2>2, <3>1, <3>2 DEF VerifiedNext, Damage, Verification, Compare, Refuse, VerifyRaises, vars
    <3>4. QED  BY <2>1, <2>2, <3>3, VerificationKeeps DEF VerifiedInvariant
  <2>3. CASE UNCHANGED <<vars, verification>>
    BY <2>1, <2>3 DEF vars, verification, VerifiedInvariant, RunInvariant, Typed, OnCourse, IsDone, InFigures,
       Collected, Good, Returned, VerificationInvariant
  <2>4. QED  BY <2>1, <2>2, <2>3
<1>3. QED  BY <1>1, <1>2, PTL DEF VerifiedSpec

-----------------------------------------------------------------------------
\* The figures of a run that has returned.
LEMMA FiguresOfRun ==
  ASSUME RunInvariant, Returned
  PROVE  /\ metrics.total = Objects
         /\ metrics.successful = Cardinality(Good)
         /\ metrics.failed = Objects - Cardinality(Good)
         /\ metrics.error_rate = Gate!PercentOf(Objects - Cardinality(Good), Objects)
         /\ Good \subseteq Index
<1>1. metrics = Gate!Metrics(results) /\ Collected = Index
  BY DEF RunInvariant, InFigures
<1>2. Len(results) = Objects /\ Cardinality(Gate!Succeeded(results)) = Cardinality(Good)
  BY <1>1, Sets DEF RunInvariant, InFigures
<1>3. /\ metrics.total = Len(results) /\ metrics.successful = Cardinality(Gate!Succeeded(results))
      /\ metrics.failed = Len(results) - Cardinality(Gate!Succeeded(results))
      /\ metrics.error_rate = Gate!PercentOf(Len(results) - Cardinality(Gate!Succeeded(results)), Len(results))
  BY <1>1, SameCount DEF Gate!Metrics, Gate!Figures
<1>4. Good \subseteq Index
  BY DEF Good, Collected
<1>5. QED  BY <1>2, <1>3, <1>4

\* Every object of a run is in its figures once, as a success or a failure, whether its
\* task returned, was answered with an error or raised (WorkloadEngine.run).
THEOREM EveryObjectAlwaysCounts == VerifiedSpec => []EveryObjectCounts
<1>1. RunInvariant => EveryObjectCounts
  <2>1. SUFFICES ASSUME RunInvariant, Returned
                 PROVE  metrics.total = Objects /\ metrics.successful + metrics.failed = Objects
    BY DEF EveryObjectCounts
  <2>2. Cardinality(Good) \in Nat /\ Objects \in Nat
    BY <2>1, FiguresOfRun, Sets
  <2>3. QED  BY <2>1, <2>2, FiguresOfRun
<1>2. QED  BY <1>1, VerifiedInvariantHolds, PTL DEF VerifiedInvariant

\* However many objects, threads and failures, a gate that passes a run bounds the share
\* of the objects that are not as the operation should have left them.
THEOREM PassAlwaysBoundsLoss == VerifiedSpec => []PassBoundsLoss
<1>1. RunInvariant => PassBoundsLoss
  <2>1. SUFFICES ASSUME RunInvariant, Returned,
                        Gate!Violations(metrics, 0, Gate!NoTimeline, Gate!NoBaseline) = {}
                 PROVE  20000 * Cardinality(Undone) <= (200 * Thresholds.error + 1) * Objects
    BY DEF PassBoundsLoss, Passed
  <2> DEFINE bad == Objects - Cardinality(Good)
  <2>2. Cardinality(Index \ Good) = bad /\ bad \in Nat /\ bad <= Objects
    <3>1. Good \subseteq Index /\ Index \cap Good = Good
      BY <2>1, FiguresOfRun
    <3>2. Cardinality(Index \ Good) = Cardinality(Index) - Cardinality(Good)
      BY <3>1, Sets, FS_Difference
    <3>3. Cardinality(Good) \in Nat /\ Cardinality(Index \ Good) \in Nat
      BY <3>1, Sets
    <3>4. QED  BY <3>2, <3>3, Sets
  <2>3. Undone \subseteq Index \ Good
    <3>1. \A i \in Good : IsDone(i) /\ operation \in AllOperations
      BY <2>1 DEF RunInvariant, Typed, OnCourse, Good, Collected, Over
    <3>2. Undone \subseteq Index
      BY <2>1 DEF Undone, RunInvariant, Typed, AllOperations
    <3>3. \A i \in Undone : ~IsDone(i)
      BY <2>1 DEF Undone, IsDone, RunInvariant, Typed, AllOperations
    <3>4. QED  BY <3>1, <3>2, <3>3
  <2>4. Cardinality(Undone) <= bad /\ Cardinality(Undone) \in Nat
    BY <2>2, <2>3, Sets, FS_Subset
  <2>5. Thresholds.error \in Nat
    BY LimitsAssumption DEF Gate!Limits
  <2>6. ~(Gate!PercentOf(bad, Objects) > 100 * Thresholds.error)
    BY <2>1, FiguresOfRun DEF Gate!Violations
  <2>7. 20000 * bad <= (200 * Thresholds.error + 1) * Objects
    <3> HIDE DEF bad
    <3> QED  BY <2>2, <2>5, <2>6, Sets, RateBoundsFailures
  <2>8. QED
    <3> HIDE DEF bad
    <3>1. 20000 * Cardinality(Undone) <= 20000 * bad
      BY <2>2, <2>4
    <3>2. (200 * Thresholds.error + 1) * Objects \in Nat
      BY <2>5, Sets
    <3>3. QED  BY <2>2, <2>4, <2>7, <3>1, <3>2
<1>2. QED  BY <1>1, VerifiedInvariantHolds, PTL DEF VerifiedInvariant

\* An upload run and its verification that pass with no corruption permitted vouch for
\* every object, whatever share of failures the gate permits (verify_batch).
THEOREM VerifiedPassIsAlwaysWhole == VerifiedSpec => []VerifiedPassIsWhole
<1>1. VerifiedInvariant => VerifiedPassIsWhole
  <2>1. SUFFICES ASSUME VerifiedInvariant, checking = Objects, Thresholds.corruption = 0,
                        Gate!Violations(metrics, CorruptionCount, Gate!NoTimeline, Gate!NoBaseline) = {}
                 PROVE  Index \subseteq stored \ damaged
    BY DEF VerifiedPassIsWhole
  <2>2. /\ reports \in Seq(BOOLEAN) /\ Len(reports) = Objects /\ Objects \in Nat
        /\ \A n \in 1 .. Objects : reports[n] => n - 1 \in stored \ damaged
    BY <2>1, Sets DEF VerifiedInvariant, VerificationInvariant
  <2> DEFINE failed == {n \in DOMAIN reports : ~reports[n]}
  <2>3. DOMAIN reports = 1 .. Objects
    BY <2>2, LenProperties
  <2>4. IsFiniteSet(failed) /\ Cardinality(failed) \in Nat
    <3>1. IsFiniteSet(1 .. Objects) /\ failed \in SUBSET (1 .. Objects)
      BY <2>2, <2>3, FS_Interval
    <3>2. QED  BY <3>1, FS_Subset, FS_CardinalityType
  <2>5. ~(CorruptionCount > 0)
    BY <2>1 DEF Gate!Violations
  <2>6. failed = {}
    <3>1. CorruptionCount = Cardinality(failed)
      BY DEF CorruptionCount
    <3> HIDE DEF failed
    <3>2. QED  BY <2>4, <2>5, <3>1, FS_EmptySet
  <2>7. ASSUME NEW i \in Index PROVE i \in stored \ damaged
    <3>1. i + 1 \in 1 .. Objects /\ (i + 1) - 1 = i
      BY <2>2 DEF Index
    <3>2. reports[i + 1]
      BY <2>3, <2>6, <3>1
    <3>3. QED  BY <2>2, <3>1, <3>2
  <2>8. QED  BY <2>7
<1>2. QED  BY <1>1, VerifiedInvariantHolds, PTL

=============================================================================
