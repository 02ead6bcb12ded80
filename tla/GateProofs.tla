------------------------------- MODULE GateProofs -------------------------------
(***************************************************************************)
(* The figures of a run and the verdict on them, for results of any number *)
(* and any latencies, and any limits: what the 95th percentile says of the *)
(* requests, and what a failed request more does to the verdict.           *)
(***************************************************************************)
EXTENDS GateCases, FiniteSetTheorems, NaturalsInduction, TLAPS

-----------------------------------------------------------------------------
(* Numbers.                                                                *)

LEMMA LeastNumber ==
  ASSUME NEW T, T \subseteq Nat, T # {}
  PROVE  \E n \in T : \A m \in T : n <= m
<1> DEFINE R == {p \in Nat \X Nat : p[1] < p[2]}
<1>1. IsWellFoundedOn(R, Nat)
  BY NatLessThanWellFounded DEF OpToRel
<1>2. \E n \in T : \A m \in T : ~(<<m, n>> \in R)
  <2> HIDE DEF R
  <2> QED  BY <1>1, WFMin
<1>3. PICK n \in T : \A m \in T : ~(<<m, n>> \in R)
  BY <1>2
<1>4. ASSUME NEW m \in T PROVE n <= m
  <2>1. m \in Nat /\ n \in Nat /\ ~(m < n)
    BY <1>3
  <2>2. QED  BY <2>1
<1>5. QED  BY <1>3, <1>4

LEMMA Quotient ==
  ASSUME NEW a \in Nat, NEW b \in Nat \ {0}
  PROVE  a \div b \in Nat /\ b * (a \div b) <= a /\ a < b * (a \div b) + b
  OBVIOUS

\* What rounds to more than a limit is half a hundredth of a millisecond above it.
LEMMA RoundedBeyond ==
  ASSUME NEW us \in Nat, NEW limit \in Nat
  PROVE  /\ Rounded(us) \in Nat
         /\ Rounded(us) > 100 * limit <=> us > 1000 * limit + 4
  BY DEF Rounded

LEMMA RateIsNumber ==
  ASSUME NEW f \in Nat, NEW n \in Nat
  PROVE  PercentOf(f, n) \in Nat
<1> DEFINE a == f * 20000 + n
           b == 2 * n
<1>1. CASE n # 0
  <2>1. a \in Nat /\ b \in Nat \ {0}
    BY <1>1
  <2>2. PercentOf(f, n) = a \div b
    BY <1>1 DEF PercentOf
  <2> HIDE DEF a, b
  <2>3. QED  BY <2>1, <2>2, Quotient
<1>2. QED  BY <1>1 DEF PercentOf

\* One more failed request does not lower the rounded rate.
LEMMA RateGrows ==
  ASSUME NEW f \in Nat, NEW n \in Nat, f <= n
  PROVE  PercentOf(f, n) <= PercentOf(f + 1, n + 1)
<1>1. CASE n = 0
  <2>1. f + 1 = 1 /\ n + 1 = 1
    BY <1>1
  <2>2. PercentOf(f, n) = 0 /\ PercentOf(f + 1, n + 1) = 20001 \div 2
    BY <1>1, <2>1 DEF PercentOf
  <2>3. QED  BY <2>2
<1>2. CASE n # 0
  <2> DEFINE a == f * 20000 + n
             c == (f + 1) * 20000 + (n + 1)
             b == 2 * n
             d == 2 * (n + 1)
             q == a \div b
             r == c \div d
  <2>1. PercentOf(f, n) = q /\ PercentOf(f + 1, n + 1) = r
    BY <1>2 DEF PercentOf
  <2>2. a \in Nat /\ c \in Nat /\ b \in Nat \ {0} /\ d \in Nat \ {0}
    BY <1>2
  <2>3. q \in Nat /\ b * q <= a
    <3> HIDE DEF a, b
    <3> QED  BY <2>2, Quotient
  <2>4. r \in Nat /\ c < d * r + d
    <3> HIDE DEF c, d
    <3> QED  BY <2>2, Quotient
  <2> HIDE DEF q, r
  <2>5. q <= 10000
    BY <1>2, <2>3
  <2>6. q <= r
    BY <2>3, <2>4, <2>5
  <2>7. QED  BY <2>1, <2>6
<1>3. QED  BY <1>1, <1>2

-----------------------------------------------------------------------------
(* Places in the sorted list.                                              *)

Below(us, results, timed)  == {n \in timed : results[n].us < us}
Within(us, results, timed) == {n \in timed : results[n].us <= us}

Timed(results, timed) == IsFiniteSet(timed) /\ \A n \in timed : results[n].us \in Nat

LEMMA Counted ==
  ASSUME NEW results, NEW timed, Timed(results, timed), NEW us
  PROVE  /\ Cardinality(timed) \in Nat
         /\ Cardinality(Below(us, results, timed)) \in Nat
         /\ Cardinality(Within(us, results, timed)) \in Nat
         /\ Cardinality(Within(us, results, timed)) <= Cardinality(timed)
<1>1. IsFiniteSet(timed) /\ Below(us, results, timed) \in SUBSET timed /\ Within(us, results, timed) \in SUBSET timed
  BY DEF Timed, Below, Within
<1>2. QED  BY <1>1, FS_Subset, FS_CardinalityType

\* Some latency is the greatest.
LEMMA AllWithin ==
  ASSUME NEW results, NEW timed, Timed(results, timed)
  PROVE  \E us \in Nat : Within(us, results, timed) = timed
<1> DEFINE Above(us) == timed \ Within(us, results, timed)
           D == {d \in Nat : \E us \in Nat : d = Cardinality(Above(us))}
<1>1. \A us : IsFiniteSet(Above(us)) /\ Cardinality(Above(us)) \in Nat
  BY FS_Subset, FS_CardinalityType DEF Timed
<1>2. Cardinality(Above(0)) \in D
  BY <1>1
<1>3. PICK d \in D : \A e \in D : d <= e
  <2> HIDE DEF D
  <2>1. D # {}
    BY <1>2
  <2>2. D \subseteq Nat
    BY DEF D
  <2>3. QED  BY <2>1, <2>2, LeastNumber
<1>4. PICK us \in Nat : d = Cardinality(Above(us))
  OBVIOUS
<1>5. SUFFICES ASSUME Above(us) # {} PROVE FALSE
  BY DEF Within
<1>6. PICK n \in timed : results[n].us \in Nat /\ us < results[n].us
  BY <1>5 DEF Timed, Within
<1>7. Above(results[n].us) \subseteq Above(us) /\ n \in Above(us) /\ n \notin Above(results[n].us)
  BY <1>6 DEF Timed, Within
<1>8. Cardinality(Above(results[n].us)) < Cardinality(Above(us))
  <2> HIDE DEF Above
  <2>1. Cardinality(Above(results[n].us)) <= Cardinality(Above(us))
        /\ Cardinality(Above(results[n].us)) # Cardinality(Above(us))
    BY <1>1, <1>7, FS_Subset
  <2>2. QED  BY <2>1, <1>1
<1>9. Cardinality(Above(results[n].us)) \in D
  BY <1>1, <1>6
<1>10. d <= Cardinality(Above(results[n].us))
  BY <1>3, <1>9
<1>11. QED
  <2> HIDE DEF Above
  <2>1. QED  BY <1>1, <1>4, <1>8, <1>10

\* For every place there is a latency that stands at it ...
LEMMA PlaceIsTaken ==
  ASSUME NEW results, NEW timed, Timed(results, timed),
         NEW place \in Nat, place < Cardinality(timed)
  PROVE  \E us \in {results[n].us : n \in timed} : StandsAt(place, us, results, timed)
<1> DEFINE Reach == {us \in Nat : place < Cardinality(Within(us, results, timed))}
<1>1. Reach # {}
  BY AllWithin
<1>2. PICK us \in Reach : \A m \in Reach : us <= m
  <2> HIDE DEF Reach
  <2>1. Reach \subseteq Nat
    BY DEF Reach
  <2>2. QED  BY <1>1, <2>1, LeastNumber
<1>3. Cardinality(Below(us, results, timed)) <= place
  <2>1. CASE us = 0
    <3>1. Below(us, results, timed) = {}
      BY <2>1 DEF Below, Timed
    <3>2. QED  BY <3>1, FS_EmptySet
  <2>2. CASE us # 0
    <3>1. us - 1 \in Nat /\ us - 1 \notin Reach
      BY <1>2, <2>2
    <3>2. Below(us, results, timed) = Within(us - 1, results, timed)
      BY <2>2 DEF Below, Within, Timed
    <3>3. Cardinality(Within(us - 1, results, timed)) \in Nat
      BY Counted
    <3>4. QED  BY <3>1, <3>2, <3>3
  <2>3. QED  BY <2>1, <2>2
<1>4. StandsAt(place, us, results, timed)
  BY <1>2, <1>3 DEF StandsAt, Below, Within
<1>5. \E n \in timed : results[n].us = us
  <2>1. SUFFICES ASSUME \A n \in timed : results[n].us # us PROVE FALSE
    OBVIOUS
  <2>2. Below(us, results, timed) = Within(us, results, timed)
    BY <2>1 DEF Below, Within, Timed
  <2>3. Cardinality(Within(us, results, timed)) \in Nat /\ place < Cardinality(Within(us, results, timed))
    BY <1>2, Counted
  <2>4. QED  BY <1>3, <2>2, <2>3
<1>6. QED  BY <1>4, <1>5

\* ... and only one.
LEMMA PlaceIsTakenOnce ==
  ASSUME NEW results, NEW timed, Timed(results, timed), NEW place \in Nat,
         NEW a \in Nat, NEW b \in Nat,
         StandsAt(place, a, results, timed), StandsAt(place, b, results, timed)
  PROVE  a = b
<1>1. ASSUME NEW c \in Nat, NEW d \in Nat, c < d,
             StandsAt(place, c, results, timed), StandsAt(place, d, results, timed)
      PROVE  FALSE
  <2>1. Within(c, results, timed) \in SUBSET Below(d, results, timed)
    BY <1>1 DEF Within, Below, Timed
  <2>2. IsFiniteSet(Below(d, results, timed))
    BY FS_Subset DEF Below, Timed
  <2>3. Cardinality(Within(c, results, timed)) <= Cardinality(Below(d, results, timed))
    BY <2>1, <2>2, FS_Subset
  <2>4. place < Cardinality(Within(c, results, timed)) /\ Cardinality(Below(d, results, timed)) <= place
    BY <1>1 DEF StandsAt, Within, Below
  <2>5. Cardinality(Within(c, results, timed)) \in Nat /\ Cardinality(Below(d, results, timed)) \in Nat
    BY Counted
  <2>6. QED  BY <2>3, <2>4, <2>5
<1>2. QED  BY <1>1

\* The index percentile() reads is one of the list's.
LEMMA IndexInList ==
  ASSUME NEW n \in Nat \ {0}, NEW p \in 0 .. 100
  PROVE  /\ PercentileIndex(n, p) \in Nat /\ PercentileIndex(n, p) < n
         /\ 100 * PercentileIndex(n, p) <= n * p
         /\ n * p <= 100 * (PercentileIndex(n, p) + 1)
<1> DEFINE a == n * p
<1>1. a \in Nat /\ a <= 100 * n
  OBVIOUS
<1> HIDE DEF a
<1>2. a \div 100 \in Nat /\ 100 * (a \div 100) <= a /\ a < 100 * (a \div 100) + 100
  BY <1>1
<1>3. PercentileIndex(n, p) = IF a \div 100 < n - 1 THEN a \div 100 ELSE n - 1
  BY DEF PercentileIndex, a
<1>4. /\ PercentileIndex(n, p) \in Nat /\ PercentileIndex(n, p) < n
      /\ 100 * PercentileIndex(n, p) <= a /\ a <= 100 * (PercentileIndex(n, p) + 1)
  BY <1>1, <1>2, <1>3
<1>5. QED  BY <1>4 DEF a

LEMMA PercentileStands ==
  ASSUME NEW results, NEW timed, Timed(results, timed), timed # {}, NEW p \in 0 .. 100
  PROVE  /\ Percentile(results, timed, p) \in Nat
         /\ StandsAt(PercentileIndex(Cardinality(timed), p), Percentile(results, timed, p), results, timed)
<1> DEFINE place == PercentileIndex(Cardinality(timed), p)
<1>1. Cardinality(timed) \in Nat \ {0}
  BY FS_CardinalityType, FS_EmptySet DEF Timed
<1>2. place \in Nat /\ place < Cardinality(timed)
  BY <1>1, IndexInList
<1>3. \E us \in {results[n].us : n \in timed} : StandsAt(place, us, results, timed)
  <2> HIDE DEF place
  <2> QED  BY <1>2, PlaceIsTaken
<1>4. /\ Percentile(results, timed, p) \in {results[n].us : n \in timed}
      /\ StandsAt(place, Percentile(results, timed, p), results, timed)
  BY <1>3 DEF Percentile
<1>5. QED  BY <1>4 DEF Timed

-----------------------------------------------------------------------------
(* The 95th percentile.                                                    *)

Result == [ok : BOOLEAN, us : Nat]

\* A percentile within a limit, and one beyond it.
LEMMA ShareOfTimed ==
  ASSUME NEW results, NEW timed, Timed(results, timed), NEW limit \in Nat
  PROVE  LET within == Cardinality({n \in timed : results[n].us <= limit})
             beyond == Cardinality({n \in timed : results[n].us > limit})
         IN IF Percentile(results, timed, 95) > limit THEN 100 * beyond >= 5 * Cardinality(timed)
                                                      ELSE 100 * within >= 95 * Cardinality(timed)
<1> DEFINE within == Within(limit, results, timed)
           beyond == {n \in timed : results[n].us > limit}
           all    == Cardinality(timed)
           p95    == Percentile(results, timed, 95)
<1>1. Cardinality(within) \in Nat /\ Cardinality(beyond) \in Nat /\ all \in Nat
  BY Counted, FS_Subset, FS_CardinalityType DEF Timed
<1>2. CASE timed = {}
  <2>1. p95 = 0 /\ all = 0
    BY <1>2, FS_EmptySet DEF Percentile
  <2>2. QED  BY <1>1, <2>1 DEF Within
<1>3. CASE timed # {}
  <2> DEFINE place == PercentileIndex(all, 95)
  <2>1. p95 \in Nat /\ Cardinality(Below(p95, results, timed)) <= place
        /\ place < Cardinality(Within(p95, results, timed))
    <3>1. 95 \in 0 .. 100
      OBVIOUS
    <3>2. p95 \in Nat /\ StandsAt(place, p95, results, timed)
      BY <1>3, <3>1, PercentileStands
    <3> HIDE DEF place, p95
    <3>3. QED  BY <3>2 DEF StandsAt, Below, Within
  <2>2. place \in Nat /\ 100 * place <= all * 95 /\ all * 95 <= 100 * (place + 1)
    <3>1. all \in Nat \ {0}
      BY <1>3, FS_CardinalityType, FS_EmptySet DEF Timed
    <3>2. 95 \in 0 .. 100
      OBVIOUS
    <3> HIDE DEF all
    <3>3. QED  BY <3>1, <3>2, IndexInList
  <2>3. Cardinality(Below(p95, results, timed)) \in Nat /\ Cardinality(Within(p95, results, timed)) \in Nat
    BY Counted
  <2>4. CASE p95 <= limit
    <3>1. Within(p95, results, timed) \in SUBSET within
      BY <2>1, <2>4 DEF Within, Timed
    <3>2. Cardinality(Within(p95, results, timed)) <= Cardinality(within)
      BY <3>1, FS_Subset DEF Timed, Within
    <3>3. 100 * Cardinality(within) >= 95 * all
      <4> HIDE DEF within, all, place, p95
      <4> QED  BY <1>1, <2>1, <2>2, <2>3, <3>2
    <3>4. QED  BY <2>1, <2>4, <3>3 DEF Within
  <2>5. CASE p95 > limit
    <3>1. timed \ Below(p95, results, timed) \in SUBSET beyond
      BY <2>1, <2>5 DEF Below, Timed
    <3>2. Cardinality(timed \ Below(p95, results, timed)) <= Cardinality(beyond)
      BY <3>1, FS_Subset DEF Timed
    <3>3. Cardinality(timed \ Below(p95, results, timed)) = all - Cardinality(Below(p95, results, timed))
      <4>1. Below(p95, results, timed) \subseteq timed /\ IsFiniteSet(timed)
        BY DEF Below, Timed
      <4>2. timed \cap Below(p95, results, timed) = Below(p95, results, timed)
        BY <4>1
      <4>3. QED  BY <4>1, <4>2, FS_Difference
    <3>4. 100 * Cardinality(beyond) >= 5 * all
      <4> HIDE DEF beyond, all, place, p95
      <4> QED  BY <1>1, <2>1, <2>2, <2>3, <3>2, <3>3
    <3>5. QED  BY <2>1, <2>5, <3>4
  <2>6. QED  BY <2>1, <2>4, <2>5
<1>4. QED  BY <1>2, <1>3

\* In the figures of any results, however many and of whatever latencies, a p95 within
\* a limit of so many milliseconds says that 95% of the successful requests take less
\* than the limit and half a hundredth, and one beyond it that one in twenty takes as
\* much or more (percentile and rounding in _compute_metrics, the comparison in evaluate).
THEOREM PercentileIsAShare ==
  ASSUME NEW results, NEW timed, Timed(results, timed), NEW limit \in Nat
  PROVE  LET within == Cardinality({n \in timed : results[n].us < 1000 * limit + 5})
             beyond == Cardinality({n \in timed : results[n].us >= 1000 * limit + 5})
         IN IF Figures(results, timed).p95 > 100 * limit
              THEN 100 * beyond >= 5 * Cardinality(timed)
              ELSE 100 * within >= 95 * Cardinality(timed)
<1> DEFINE p95 == Percentile(results, timed, 95)
           most == 1000 * limit + 4
<1>1. most \in Nat
  OBVIOUS
<1>2. p95 \in Nat
  <2>1. CASE timed = {}
    BY <2>1 DEF Percentile
  <2>2. CASE timed # {}
    <3>1. 95 \in 0 .. 100
      OBVIOUS
    <3>2. QED  BY <2>2, <3>1, PercentileStands
  <2>3. QED  BY <2>1, <2>2
<1>3. Figures(results, timed).p95 > 100 * limit <=> p95 > most
  <2>1. Figures(results, timed).p95 = Rounded(p95)
    BY DEF Figures
  <2> HIDE DEF p95
  <2>2. QED  BY <1>2, <2>1, RoundedBeyond
<1>4. /\ {n \in timed : results[n].us < 1000 * limit + 5} = {n \in timed : results[n].us <= most}
      /\ {n \in timed : results[n].us >= 1000 * limit + 5} = {n \in timed : results[n].us > most}
  BY DEF Timed
<1>5. LET within == Cardinality({n \in timed : results[n].us <= most})
          beyond == Cardinality({n \in timed : results[n].us > most})
      IN IF p95 > most THEN 100 * beyond >= 5 * Cardinality(timed)
                       ELSE 100 * within >= 95 * Cardinality(timed)
  <2> HIDE DEF most
  <2> QED  BY <1>1, ShareOfTimed
<1>6. QED
  <2> HIDE DEF most, p95
  <2> QED  BY <1>3, <1>4, <1>5

-----------------------------------------------------------------------------
(* The cases.                                                              *)

Counters == fast \in Nat /\ slow \in Nat /\ failed \in Nat

LEMMA IntervalFrom == \A a, n \in Nat : IsFiniteSet(a + 1 .. a + n) /\ Cardinality(a + 1 .. a + n) = n
<1> SUFFICES ASSUME NEW a \in Nat, NEW n \in Nat
             PROVE  IsFiniteSet(a + 1 .. a + n) /\ Cardinality(a + 1 .. a + n) = n
  OBVIOUS
<1>1. a + 1 \in Int /\ a + n \in Int
  OBVIOUS
<1>2. Cardinality(a + 1 .. a + n) = IF a + 1 > a + n THEN 0 ELSE (a + n) - (a + 1) + 1
  BY <1>1, FS_Interval
<1>3. QED  BY <1>1, <1>2, FS_Interval

\* Every case is a run whose first results succeeded and whose others did not.
CaseIsRun ==
  LET succeeded == 1 .. fast + slow
  IN /\ Succeeded(Results) = succeeded
     /\ \A n \in succeeded : Results[n].us = 1000 * Thresholds.p95 + (IF n <= fast THEN 4 ELSE 5)
     /\ Cardinality(succeeded) = fast + slow
     /\ Timed(Results, succeeded)

LEMMA CasesAreRuns == Counters => CaseIsRun
<1> SUFFICES ASSUME Counters PROVE CaseIsRun
  OBVIOUS
<1>1. DOMAIN Results = 1 .. fast + slow + failed
  BY DEF Results
<1>2. \A n \in 1 .. fast + slow + failed : Results[n].ok <=> n <= fast + slow
  BY DEF Results
<1>3. Succeeded(Results) = 1 .. fast + slow
  BY <1>1, <1>2 DEF Succeeded, Counters
<1>4. \A n \in 1 .. fast + slow : Results[n].us = 1000 * Thresholds.p95 + (IF n <= fast THEN 4 ELSE 5)
  BY DEF Results, Counters
<1>5. IsFiniteSet(1 .. fast + slow) /\ Cardinality(1 .. fast + slow) = fast + slow
  <2>1. fast + slow \in Nat /\ 0 \in Nat /\ 0 + 1 = 1 /\ 0 + (fast + slow) = fast + slow
    BY DEF Counters
  <2>2. QED  BY <2>1, IntervalFrom
<1>6. Thresholds.p95 \in Nat
  BY ThresholdsAssumption DEF Limits
<1>7. QED  BY <1>3, <1>4, <1>5, <1>6 DEF CaseIsRun, Timed

\* Only the percentile and the error rate can be violated.
VerdictIsOfBoth ==
  /\ "p95_latency" \in Verdict <=> Figures(Results, 1 .. fast + slow).p95 > 100 * Thresholds.p95
  /\ "error_rate" \in Verdict <=> PercentOf(failed, fast + slow + failed) > 100 * Thresholds.error
  /\ Verdict \subseteq {"p95_latency", "error_rate"}

LEMMA VerdictsAreOfBoth == Counters => VerdictIsOfBoth
<1> SUFFICES ASSUME Counters PROVE VerdictIsOfBoth
  OBVIOUS
<1>1. Len(Results) = fast + slow + failed
  BY DEF Results, Counters
<1>2. Succeeded(Results) = 1 .. fast + slow /\ Len(Results) - Cardinality(Succeeded(Results)) = failed
  BY <1>1, CasesAreRuns DEF CaseIsRun, Counters
<1>3. /\ Metrics(Results).p95 = Figures(Results, 1 .. fast + slow).p95
      /\ Metrics(Results).error_rate = PercentOf(failed, fast + slow + failed)
  BY <1>1, <1>2 DEF Metrics, Figures
<1>4. RecoveryTime(NoTimeline) = -1 /\ ~Slower(Metrics(Results), NoBaseline)
  BY DEF RecoveryTime, NoTimeline, Slower
<1>5. Thresholds.corruption \in Nat /\ Thresholds.recovery \in Nat
  BY ThresholdsAssumption DEF Limits
<1>6. ~(0 > Thresholds.corruption) /\ ~(RecoveryTime(NoTimeline) > Thresholds.recovery)
  BY <1>4, <1>5
<1>7. QED  BY <1>3, <1>4, <1>6 DEF Verdict, Violations, VerdictIsOfBoth

LEMMA P95OfCase == Counters => P95IsNinetyFivePercent
<1> SUFFICES ASSUME Counters PROVE P95IsNinetyFivePercent
  OBVIOUS
<1> DEFINE S == 1 .. fast + slow
           within == {n \in S : Results[n].us < 1000 * Thresholds.p95 + 5}
           beyond == {n \in S : Results[n].us >= 1000 * Thresholds.p95 + 5}
<1>1. Thresholds.p95 \in Nat
  BY ThresholdsAssumption DEF Limits
<1>2. CaseIsRun /\ VerdictIsOfBoth
  BY CasesAreRuns, VerdictsAreOfBoth
<1>3. within = 1 .. fast /\ beyond = fast + 1 .. fast + slow
  BY <1>1, <1>2 DEF Counters, CaseIsRun
<1>4. Cardinality(within) = fast /\ Cardinality(beyond) = slow
  <2>1. 0 + 1 = 1 /\ 0 + fast = fast
    BY DEF Counters
  <2> HIDE DEF within, beyond
  <2>2. QED  BY <1>3, <2>1, IntervalFrom DEF Counters
<1>5. IF Figures(Results, S).p95 > 100 * Thresholds.p95
        THEN 100 * Cardinality(beyond) >= 5 * Cardinality(S)
        ELSE 100 * Cardinality(within) >= 95 * Cardinality(S)
  <2>1. Timed(Results, S)
    BY <1>2 DEF CaseIsRun
  <2> HIDE DEF S
  <2>2. QED  BY <1>1, <2>1, PercentileIsAShare
<1>6. Cardinality(S) = fast + slow
  BY <1>2 DEF CaseIsRun
<1>7. QED
  <2> HIDE DEF within, beyond
  <2>1. QED  BY <1>2, <1>4, <1>5, <1>6 DEF P95IsNinetyFivePercent, VerdictIsOfBoth

LEMMA CountersHold == Spec => []Counters
<1>1. Init => Counters
  BY DEF Init, Counters
<1>2. Counters /\ [Next]_vars => Counters'
  BY DEF Counters, Next, AddFast, AddSlow, AddFailed, vars
<1>3. QED  BY <1>1, <1>2, PTL DEF Spec

\* The P95 limit, with what rounding adds to it, is one on 95% of the successful
\* requests, however many there are: a list too short or too long for the index to be
\* exact errs on neither side.
THEOREM P95IsAlwaysNinetyFivePercent == Spec => []P95IsNinetyFivePercent
  BY CountersHold, P95OfCase, PTL

\* One more failed request leaves the latencies as they were and the error rate no
\* better, for runs and limits of any size.
THEOREM FailuresNeverDoHelp == Spec => FailuresNeverHelp
<1>1. ASSUME Counters, Counters', Next, failed' = failed + 1
      PROVE  Verdict \subseteq Verdict'
  <2>1. fast' = fast /\ slow' = slow
    BY <1>1 DEF Next, AddFast, AddSlow, AddFailed, Counters
  <2> DEFINE S == 1 .. fast + slow
             a == Percentile(Results, S, 95)
             b == Percentile(Results', S, 95)
  <2>2. CaseIsRun /\ CaseIsRun' /\ VerdictIsOfBoth /\ VerdictIsOfBoth'
    BY <1>1, CasesAreRuns, VerdictsAreOfBoth, PTL
  <2>3. Timed(Results, S) /\ Timed(Results', S) /\ \A n \in S : Results'[n].us = Results[n].us
    BY <2>1, <2>2 DEF CaseIsRun
  <2>4. a = b
    <3>1. CASE S = {}
      BY <3>1 DEF Percentile
    <3>2. CASE S # {}
      <4> DEFINE place == PercentileIndex(Cardinality(S), 95)
      <4> HIDE DEF S
      <4>1. 95 \in 0 .. 100
        OBVIOUS
      <4>2. a \in Nat /\ b \in Nat /\ StandsAt(place, a, Results, S) /\ StandsAt(place, b, Results', S)
        BY <2>3, <3>2, <4>1, PercentileStands
      <4>3. /\ {n \in S : Results'[n].us < b} = {n \in S : Results[n].us < b}
            /\ {n \in S : Results'[n].us <= b} = {n \in S : Results[n].us <= b}
        BY <2>3
      <4>4. StandsAt(place, b, Results, S)
        BY <4>2, <4>3 DEF StandsAt
      <4>5. place \in Nat
        <5>1. Cardinality(S) \in Nat \ {0}
          BY <2>3, <3>2, FS_CardinalityType, FS_EmptySet DEF Timed
        <5>2. QED  BY <4>1, <5>1, IndexInList
      <4> HIDE DEF place, a, b
      <4>6. QED  BY <2>3, <4>2, <4>4, <4>5, PlaceIsTakenOnce
    <3>3. QED  BY <3>1, <3>2
  <2>5. PercentOf(failed, fast + slow + failed) <= PercentOf(failed', fast' + slow' + failed')
    <3> DEFINE n == fast + slow + failed
    <3>1. fast' + slow' + failed' = n + 1 /\ n \in Nat /\ failed \in Nat /\ failed <= n
      BY <1>1, <2>1 DEF Counters
    <3> HIDE DEF n
    <3>2. PercentOf(failed, n) <= PercentOf(failed + 1, n + 1)
      BY <3>1, RateGrows
    <3>3. QED  BY <1>1, <3>1, <3>2 DEF n
  <2>6. "p95_latency" \in Verdict => "p95_latency" \in Verdict'
    <3>1. Figures(Results, S).p95 = Figures(Results', S).p95
      BY <2>4 DEF Figures
    <3>2. QED  BY <2>1, <2>2, <3>1 DEF VerdictIsOfBoth
  <2>7. "error_rate" \in Verdict => "error_rate" \in Verdict'
    <3>1. Thresholds.error \in Nat
      BY ThresholdsAssumption DEF Limits
    <3>2. PercentOf(failed, fast + slow + failed) \in Int
          /\ PercentOf(failed', fast' + slow' + failed') \in Int
      <4> DEFINE n == fast + slow + failed
                 m == fast' + slow' + failed'
      <4>1. n \in Nat /\ m \in Nat /\ failed \in Nat /\ failed' \in Nat
        BY <1>1, <2>1 DEF Counters
      <4> HIDE DEF n, m
      <4>2. PercentOf(failed, n) \in Int /\ PercentOf(failed', m) \in Int
        BY <4>1, RateIsNumber
      <4>3. QED  BY <4>2 DEF n, m
    <3>3. QED  BY <2>2, <2>5, <3>1, <3>2 DEF VerdictIsOfBoth
  <2>8. QED  BY <2>2, <2>6, <2>7 DEF VerdictIsOfBoth
<1>2. Counters /\ Counters' /\ [Next]_vars => [failed' = failed + 1 => Verdict \subseteq Verdict']_vars
  BY <1>1
<1>3. QED  BY <1>2, CountersHold, PTL DEF Spec, FailuresNeverHelp

=============================================================================
