------------------------------ MODULE ChaosProofs ------------------------------
(***************************************************************************)
(* The controller's list of faults against the faults in effect, for any   *)
(* number of containers, faults, nested contexts and mishaps.              *)
(***************************************************************************)
EXTENDS Chaos, WellFoundedInduction, TLAPS

-----------------------------------------------------------------------------
(* Induction, for the list comprehension of node_stopped.                  *)

LEMMA LeastNumber ==
  ASSUME NEW T, T \subseteq Nat, T # {}
  PROVE  \E n \in T : \A m \in T : n <= m
<1> DEFINE R == {p \in Nat \X Nat : p[1] < p[2]}
<1>1. IsWellFoundedOn(R, Nat)
  BY NatLessThanWellFounded DEF OpToRel
<1>2. \E n \in T : \A m \in T : ~(<<m, n>> \in R)
  <2> HIDE DEF R
  <2> QED  BY <1>1, WFMin
<1>3. PICK n \in T : \A m \in T : ~(<<m, n>> \in R)
  BY <1>2
<1>4. ASSUME NEW m \in T PROVE n <= m
  <2>1. m \in Nat /\ n \in Nat /\ ~(m < n)
    BY <1>3
  <2>2. QED  BY <2>1
<1>5. QED  BY <1>3, <1>4

LEMMA Induction ==
  ASSUME NEW A, 0 \in A, \A n \in Nat : n \in A => n + 1 \in A
  PROVE  Nat \subseteq A
<1> SUFFICES ASSUME Nat \ A # {} PROVE FALSE
  OBVIOUS
<1>1. PICK n \in Nat \ A : \A m \in Nat \ A : n <= m
  <2> DEFINE T == Nat \ A
  <2> HIDE DEF T
  <2>1. T \subseteq Nat /\ T # {}
    BY DEF T
  <2>2. PICK n \in T : \A m \in T : n <= m
    BY <2>1, LeastNumber
  <2>3. QED  BY <2>2 DEF T
<1>2. n - 1 \in Nat /\ n - 1 \notin Nat \ A
  BY <1>1
<1>3. QED  BY <1>1, <1>2

-----------------------------------------------------------------------------
(* The list without the stops of one container.                            *)

\* kept, entry by entry.
Entry(faults, c, kept, n) ==
  IF n = 0 THEN <<>>
  ELSE IF IsStopOf(faults[n], c) THEN kept[n - 1]
  ELSE Append(kept[n - 1], faults[n])

Keeps(faults, c, m, kept) == kept = [n \in 0 .. m |-> Entry(faults, c, kept, n)]

LEMMA KeptExists ==
  ASSUME NEW faults, NEW c, NEW m \in Nat
  PROVE  \E kept : Keeps(faults, c, m, kept)
<1> DEFINE A == {k \in Nat : \E kept : Keeps(faults, c, k, kept)}
<1>1. 0 \in A
  <2> DEFINE none == [n \in 0 .. 0 |-> <<>>]
  <2>1. none = [n \in 0 .. 0 |-> Entry(faults, c, none, n)]
    BY DEF Entry
  <2>2. QED  BY <2>1 DEF Keeps
<1>2. ASSUME NEW k \in Nat, k \in A PROVE k + 1 \in A
  <2>1. PICK kept : Keeps(faults, c, k, kept)
    BY <1>2
  <2> DEFINE more == [n \in 0 .. k + 1 |-> IF n = k + 1 THEN Entry(faults, c, kept, k + 1) ELSE kept[n]]
  <2>2. \A n \in 0 .. k : kept[n] = Entry(faults, c, kept, n)
    BY <2>1 DEF Keeps
  <2>3. \A n \in 0 .. k + 1 : Entry(faults, c, more, n) = Entry(faults, c, kept, n)
    BY DEF Entry
  <2>4. \A n \in 0 .. k + 1 : more[n] = Entry(faults, c, more, n)
    BY <2>2, <2>3
  <2>5. more = [n \in 0 .. k + 1 |-> Entry(faults, c, more, n)]
    BY <2>4
  <2>6. Keeps(faults, c, k + 1, more)
    BY <2>5 DEF Keeps
  <2>7. QED  BY <2>6
<1>3. Nat \subseteq A
  <2> HIDE DEF A
  <2> QED  BY <1>1, <1>2, Induction
<1>4. QED  BY <1>3

\* What is in the list and is not a stop of c stays in it.
LEMMA OthersStayListed ==
  ASSUME NEW faults \in Seq(FaultConfig), NEW c
  PROVE  /\ WithoutStops(faults, c) \in Seq(FaultConfig)
         /\ \A n \in DOMAIN faults : ~IsStopOf(faults[n], c) =>
              \E m \in DOMAIN WithoutStops(faults, c) : WithoutStops(faults, c)[m] = faults[n]
<1> DEFINE kept == CHOOSE kept : Keeps(faults, c, Len(faults), kept)
<1>1. Keeps(faults, c, Len(faults), kept)
  BY KeptExists
<1>2. WithoutStops(faults, c) = kept[Len(faults)]
  BY DEF WithoutStops, Keeps, Entry
<1> HIDE DEF kept
<1>3. \A n \in 0 .. Len(faults) : kept[n] = Entry(faults, c, kept, n)
  BY <1>1 DEF Keeps
<1> DEFINE Good(n) == /\ kept[n] \in Seq(FaultConfig)
                      /\ \A k \in 1 .. n : ~IsStopOf(faults[k], c) =>
                           \E m \in DOMAIN kept[n] : kept[n][m] = faults[k]
           A == {n \in Nat : n <= Len(faults) => Good(n)}
<1>4. 0 \in A
  <2>1. kept[0] = <<>>
    BY <1>3 DEF Entry
  <2>2. Good(0)
    BY <2>1
  <2>3. QED  BY <2>2
<1>5. ASSUME NEW n \in Nat, n \in A PROVE n + 1 \in A
  <2> SUFFICES ASSUME n + 1 <= Len(faults) PROVE Good(n + 1)
    OBVIOUS
  <2>1. Good(n) /\ faults[n + 1] \in FaultConfig
    BY <1>5
  <2>2. kept[n + 1] = IF IsStopOf(faults[n + 1], c) THEN kept[n] ELSE Append(kept[n], faults[n + 1])
    BY <1>3 DEF Entry
  <2>3. CASE IsStopOf(faults[n + 1], c)
    BY <2>1, <2>2, <2>3
  <2>4. CASE ~IsStopOf(faults[n + 1], c)
    <3> DEFINE k == kept[n]  l == kept[n + 1]
    <3>1. k \in Seq(FaultConfig) /\ l = Append(k, faults[n + 1])
      BY <2>1, <2>2, <2>4
    <3> HIDE DEF k, l
    <3>2. /\ l \in Seq(FaultConfig) /\ Len(k) + 1 \in DOMAIN l /\ l[Len(k) + 1] = faults[n + 1]
          /\ \A m \in DOMAIN k : m \in DOMAIN l /\ l[m] = k[m]
      BY <2>1, <3>1
    <3>3. ASSUME NEW j \in 1 .. n + 1, ~IsStopOf(faults[j], c)
          PROVE  \E m \in DOMAIN l : l[m] = faults[j]
      <4>1. CASE j = n + 1
        BY <3>2, <4>1
      <4>2. CASE j # n + 1
        <5>1. PICK m \in DOMAIN k : k[m] = faults[j]
          BY <2>1, <3>3, <4>2 DEF k
        <5>2. QED  BY <3>2, <5>1
      <4>3. QED  BY <4>1, <4>2
    <3>4. QED  BY <3>2, <3>3 DEF l
  <2>5. QED  BY <2>3, <2>4
<1>6. Nat \subseteq A
  <2> HIDE DEF A
  <2> QED  BY <1>4, <1>5, Induction
<1>7. Good(Len(faults))
  BY <1>6
<1>8. QED  BY <1>2, <1>7

-----------------------------------------------------------------------------
(* The invariant: what the list does for the controller, the entries still *)
(* to be dealt with do for restore_all.                                    *)

In(list, types, c) == \E n \in DOMAIN list :
                        list[n].fault_type \in types /\ list[n].target_container = c

\* Every fault in effect on a container nothing went wrong on is in the list.
Covers(list, c) == /\ ~running[c] => In(list, {"NODE_STOP"}, c)
                   /\ netem[c] # "none" => In(list, Traffic, c)
                   /\ filler[c] => In(list, {"DISK_PRESSURE"}, c)
Tracks(list) == \A c \in Containers \ excused : Covers(list, c)

ChaosInvariant ==
  /\ TypeOK
  /\ Tracks(active)
  /\ pc = "restoring" => Tracks(pending)
  /\ RestoredIsHealthy

\* What the cluster's operations do to types.
LEMMA ClusterTyped ==
  ASSUME TypeOK, NEW c \in Containers
  PROVE  LET Typed == /\ running' \in [Containers -> BOOLEAN]
                      /\ netem' \in [Containers -> {"none", "delay", "loss"}]
                      /\ filler' \in [Containers -> BOOLEAN]
         IN  /\ StopContainer(c) => Typed
             /\ StartContainer(c) => Typed /\ mishaps' \in Nat /\ excused' \subseteq Containers
             /\ \A type \in Traffic : AddRule(c, type) => Typed
             /\ FillDisk(c) \/ ClearRules(c) \/ ReleaseDisk(c) => Typed
<1> USE DEF TypeOK
<1> DEFINE Typed == /\ running' \in [Containers -> BOOLEAN]
                    /\ netem' \in [Containers -> {"none", "delay", "loss"}]
                    /\ filler' \in [Containers -> BOOLEAN]
<1>1. StopContainer(c) => Typed
  BY DEF StopContainer
<1>2. StartContainer(c) => Typed /\ excused' \subseteq Containers
  BY <1>1 DEF StartContainer
<1>3. StartContainer(c) => mishaps' \in Nat
  BY DEF StartContainer, Mishap
<1>4. ASSUME NEW type \in Traffic, AddRule(c, type) PROVE Typed
  <2>1. TcRule[type] \in {"delay", "loss"}
    BY DEF Traffic, TcRule
  <2>2. QED  BY <1>4, <2>1 DEF AddRule
<1>5. FillDisk(c) \/ ClearRules(c) \/ ReleaseDisk(c) => Typed
  BY DEF FillDisk, ClearRules, ReleaseDisk
<1>6. QED  BY <1>1, <1>2, <1>3, <1>4, <1>5

LEMMA EffectTyped ==
  ASSUME TypeOK, NEW c \in Containers, NEW type \in FaultTypes, Effect(type, c)
  PROVE  /\ running' \in [Containers -> BOOLEAN]
         /\ netem' \in [Containers -> {"none", "delay", "loss"}]
         /\ filler' \in [Containers -> BOOLEAN]
  BY ClusterTyped DEF Effect

\* A new entry covers what it stands for, and the others still cover what they did.
LEMMA AppendCovers ==
  ASSUME NEW list \in Seq(FaultConfig), NEW f \in FaultConfig
  PROVE  /\ Append(list, f) \in Seq(FaultConfig)
         /\ \A types, c : In(list, types, c) => In(Append(list, f), types, c)
         /\ \A types : f.fault_type \in types => In(Append(list, f), types, f.target_container)
<1> DEFINE more == Append(list, f)
<1>1. /\ more \in Seq(FaultConfig) /\ Len(list) + 1 \in DOMAIN more /\ more[Len(list) + 1] = f
      /\ \A n \in DOMAIN list : n \in DOMAIN more /\ more[n] = list[n]
  OBVIOUS
<1> HIDE DEF more
<1>2. QED  BY <1>1 DEF In, more

LEMMA FaultTyped ==
  ASSUME NEW type \in FaultTypes \cup {"NODE_STOP"}, NEW c \in Containers
  PROVE  Fault(type, c) \in FaultConfig /\ Fault(type, c).fault_type = type
         /\ Fault(type, c).target_container = c
  BY ChaosAssumption DEF Fault, FaultConfig, AllFaultTypes

LEMMA InjectKeeps ==
  ASSUME ChaosInvariant, NEW c \in Containers, NEW type \in FaultTypes \cup {"NODE_STOP"},
         Effect(type, c), active' = Append(active, Fault(type, c)), UNCHANGED excused
  PROVE  active' \in Seq(FaultConfig) /\ Tracks(active)'
<1> USE DEF ChaosInvariant
<1> DEFINE f == Fault(type, c)
<1>1. f \in FaultConfig /\ f.fault_type = type /\ f.target_container = c
  BY FaultTyped
<1> HIDE DEF f
<1>2. /\ active' \in Seq(FaultConfig)
      /\ \A types, d : In(active, types, d) => In(active', types, d)
      /\ \A types : type \in types => In(active', types, c)
  BY <1>1, AppendCovers DEF TypeOK, f
<1>3. ASSUME NEW d \in Containers \ excused PROVE Covers(active, d)'
  <2>1. Covers(active, d)
    BY DEF Tracks
  <2>2. CASE d # c
    <3>1. running'[d] = running[d] /\ netem'[d] = netem[d] /\ filler'[d] = filler[d]
      BY <2>2 DEF Effect, StopContainer, AddRule, FillDisk, TypeOK
    <3>2. QED  BY <1>2, <2>1, <3>1 DEF Covers
  <2>3. CASE d = c
    <3>1. CASE type = "NODE_STOP" /\ StopContainer(c)
      <4>1. netem'[c] = "none" /\ filler'[c] = filler[c]
        BY <3>1 DEF StopContainer, TypeOK
      <4>2. QED  BY <1>2, <2>1, <2>3, <3>1, <4>1 DEF Covers
    <3>2. CASE type \in Traffic /\ AddRule(c, type)
      <4>1. running'[c] = running[c] /\ filler'[c] = filler[c]
        BY <3>2 DEF AddRule
      <4>2. QED  BY <1>2, <2>1, <2>3, <3>2, <4>1 DEF Covers
    <3>3. CASE type = "DISK_PRESSURE" /\ FillDisk(c)
      <4>1. running'[c] = running[c] /\ netem'[c] = netem[c]
        BY <3>3 DEF FillDisk
      <4>2. QED  BY <1>2, <2>1, <2>3, <3>3, <4>1 DEF Covers
    <3>4. QED  BY <3>1, <3>2, <3>3 DEF Effect
  <2>4. QED  BY <2>2, <2>3
<1>4. QED  BY <1>2, <1>3 DEF Tracks

\* A container that is started again, and the list without its stops.
LEMMA StartKeeps ==
  ASSUME ChaosInvariant, NEW c \in Containers, StartContainer(c),
         active' \in {active, WithoutStops(active, c)}
  PROVE  active' \in Seq(FaultConfig) /\ Tracks(active)'
<1> USE DEF ChaosInvariant
<1>1. active' \in Seq(FaultConfig)
  BY OthersStayListed DEF TypeOK
<1>2. \A n \in DOMAIN active : ~IsStopOf(active[n], c) =>
         \E m \in DOMAIN active' : active'[m] = active[n]
  BY OthersStayListed DEF TypeOK
<1>3. ASSUME NEW d, NEW types, In(active, types, d), d # c \/ "NODE_STOP" \notin types
      PROVE  In(active', types, d)
  <2>1. PICK n \in DOMAIN active : active[n].fault_type \in types /\ active[n].target_container = d
    BY <1>3 DEF In
  <2>2. ~IsStopOf(active[n], c)
    BY <1>3, <2>1 DEF IsStopOf, Fault
  <2>3. QED  BY <1>2, <2>1, <2>2 DEF In
<1>4. ASSUME NEW d \in Containers \ excused' PROVE Covers(active, d)'
  <2>1. d \in Containers \ excused
    BY DEF StartContainer
  <2>2. Covers(active, d) /\ netem'[d] = netem[d] /\ filler'[d] = filler[d]
        /\ running'[d] = IF d = c THEN TRUE ELSE running[d]
    BY <1>4, <2>1 DEF Tracks, StartContainer, StopContainer, TypeOK
  <2>3. "NODE_STOP" \notin Traffic
    BY DEF Traffic, TcRule
  <2>4. QED  BY <1>3, <2>2, <2>3 DEF Covers
<1>5. QED  BY <1>1, <1>4 DEF Tracks

\* An entry dealt with is no longer needed: its fault is gone.
LEMMA RestoreKeeps ==
  ASSUME ChaosInvariant, RestoreOne \/ RestoreOneRaises
  PROVE  /\ pending' \in Seq(FaultConfig)
         /\ running' \in [Containers -> BOOLEAN]
         /\ netem' \in [Containers -> {"none", "delay", "loss"}]
         /\ filler' \in [Containers -> BOOLEAN]
         /\ mishaps' \in Nat /\ excused' \subseteq Containers
         /\ Tracks(active)' /\ Tracks(pending)'
<1> USE DEF ChaosInvariant
<1> DEFINE f == pending[1]  c == f.target_container
<1>1. f \in FaultConfig /\ c \in Containers /\ pending' \in Seq(FaultConfig) /\ Tracks(pending)
  <2>1. pending \in Seq(FaultConfig) /\ pending # <<>> /\ pending' = Tail(pending) /\ Tracks(pending)
    BY DEF RestoreOne, RestoreOneRaises, TypeOK
  <2>2. f \in FaultConfig /\ pending' \in Seq(FaultConfig)
    BY <2>1
  <2>3. QED  BY <2>1, <2>2 DEF FaultConfig
<1>2. \A n \in DOMAIN pending : n # 1 => n - 1 \in DOMAIN pending' /\ pending'[n - 1] = pending[n]
  <2>1. pending \in Seq(FaultConfig) /\ pending # <<>> /\ pending' = Tail(pending)
    BY DEF RestoreOne, RestoreOneRaises, TypeOK
  <2>2. QED  BY <2>1
<1> HIDE DEF f
<1>3. ASSUME NEW d, NEW types, In(pending, types, d), d # c \/ f.fault_type \notin types
      PROVE  In(pending', types, d)
  <2>1. PICK n \in DOMAIN pending : pending[n].fault_type \in types /\ pending[n].target_container = d
    BY <1>3 DEF In
  <2>2. n # 1
    BY <1>3, <2>1 DEF f
  <2>3. QED  BY <1>2, <2>1, <2>2 DEF In
<1>4. CASE RestoreOneRaises
  <2>1. UNCHANGED <<cluster, active>> /\ excused' = excused \cup {c}
    BY <1>4 DEF RestoreOneRaises, f
  <2>2. mishaps' \in Nat
    BY <1>4 DEF RestoreOneRaises, Mishap, TypeOK
  <2>3. \A d \in Containers \ excused' : Covers(pending, d)'
    BY <1>1, <1>3, <2>1 DEF Tracks, Covers, cluster
  <2>4. Tracks(active)'
    BY <2>1 DEF Tracks, Covers, cluster
  <2>5. QED  BY <1>1, <2>1, <2>2, <2>3, <2>4 DEF Tracks, TypeOK, cluster
<1>5. CASE RestoreOne
  <2>1. RemoveFault(f) /\ UNCHANGED active
    BY <1>5 DEF RestoreOne, f
  <2>2. CASE f.fault_type = "NODE_STOP" /\ StartContainer(c)
    <3>1. ASSUME NEW d \in Containers \ excused' PROVE Covers(pending, d)'
      <4>1. d \in Containers \ excused
        BY <2>2 DEF StartContainer
      <4>2. Covers(pending, d) /\ netem'[d] = netem[d] /\ filler'[d] = filler[d]
            /\ running'[d] = IF d = c THEN TRUE ELSE running[d]
        BY <1>1, <2>2, <3>1, <4>1 DEF Tracks, StartContainer, StopContainer, TypeOK
      <4>3. "NODE_STOP" \notin Traffic
        BY DEF Traffic, TcRule
      <4>4. QED  BY <1>3, <2>2, <4>2, <4>3 DEF Covers
    <3>2. Tracks(active)'
      BY <1>1, <2>1, <2>2, StartKeeps
    <3>3. QED  BY <1>1, <2>2, <3>1, <3>2, ClusterTyped DEF Tracks
  <2>3. CASE f.fault_type \in Traffic /\ running[c] /\ ClearRules(c) /\ UNCHANGED <<mishaps, excused>>
    <3>1. ASSUME NEW d \in Containers \ excused PROVE Covers(pending, d)' /\ Covers(active, d)'
      <4>1. Covers(pending, d) /\ Covers(active, d) /\ filler'[d] = filler[d] /\ running'[d] = running[d]
            /\ netem'[d] = IF d = c THEN "none" ELSE netem[d]
        BY <1>1, <2>3, <3>1 DEF Tracks, ClearRules, TypeOK
      <4>2. f.fault_type \notin {"NODE_STOP", "DISK_PRESSURE"}
        BY <2>3 DEF Traffic, TcRule
      <4>3. Covers(pending, d)'
        BY <1>3, <2>3, <4>1, <4>2 DEF Covers
      <4>4. QED  BY <2>1, <4>1, <4>3 DEF Covers
    <3>2. QED  BY <1>1, <2>3, <3>1, ClusterTyped DEF Tracks, TypeOK
  <2>4. CASE /\ f.fault_type \notin Traffic \cup {"NODE_STOP"} /\ running[c] /\ ReleaseDisk(c)
             /\ UNCHANGED <<mishaps, excused>>
    <3>1. ASSUME NEW d \in Containers \ excused PROVE Covers(pending, d)' /\ Covers(active, d)'
      <4>1. Covers(pending, d) /\ Covers(active, d) /\ netem'[d] = netem[d] /\ running'[d] = running[d]
            /\ filler'[d] = IF d = c THEN FALSE ELSE filler[d]
        BY <1>1, <2>4, <3>1 DEF Tracks, ReleaseDisk, TypeOK
      <4>2. Covers(pending, d)'
        BY <1>3, <2>4, <4>1 DEF Covers
      <4>3. QED  BY <2>1, <4>1, <4>2 DEF Covers
    <3>2. QED  BY <1>1, <2>4, <3>1, ClusterTyped DEF Tracks, TypeOK
  <2>5. QED  BY <2>1, <2>2, <2>3, <2>4 DEF RemoveFault
<1>6. QED  BY <1>4, <1>5

LEMMA ChaosPreserved ==
  ASSUME ChaosInvariant, [Next]_vars
  PROVE  ChaosInvariant'
<1> USE DEF ChaosInvariant
<1>1. ASSUME NEW c \in Containers, RestartNode(c) PROVE ChaosInvariant'
  <2>1. active' \in Seq(FaultConfig) /\ Tracks(active)'
    BY <1>1, StartKeeps DEF RestartNode, controller
  <2>2. TypeOK'
    BY <1>1, ClusterTyped DEF RestartNode, controller, TypeOK
  <2>3. QED  BY <1>1, <2>1, <2>2 DEF RestartNode, controller, RestoredIsHealthy
<1>2. ASSUME NEW c \in Containers, EnterNodeStopped(c) PROVE ChaosInvariant'
  <2>1. Effect("NODE_STOP", c)
    BY <1>2 DEF EnterNodeStopped, Effect
  <2>2. active' \in Seq(FaultConfig) /\ Tracks(active)'
    BY <1>2, <2>1, InjectKeeps DEF EnterNodeStopped
  <2>3. TypeOK'
    BY <1>2, <2>2, ClusterTyped DEF EnterNodeStopped, TypeOK
  <2>4. QED  BY <1>2, <2>2, <2>3 DEF EnterNodeStopped, RestoredIsHealthy
<1>3. ASSUME NEW c \in Containers, NEW type \in FaultTypes, Inject(type, c) PROVE ChaosInvariant'
  <2>1. active' \in Seq(FaultConfig) /\ Tracks(active)'
    BY <1>3, InjectKeeps DEF Inject
  <2>2. TypeOK'
    BY <1>3, <2>1, EffectTyped DEF Inject, TypeOK
  <2>3. QED  BY <1>3, <2>1, <2>2 DEF Inject, RestoredIsHealthy
<1>4. ASSUME NEW c \in Containers, NEW type \in FaultTypes, InjectRaises(type, c) PROVE ChaosInvariant'
  <2>1. mishaps' \in Nat
    BY <1>4 DEF InjectRaises, Mishap, TypeOK
  <2>2. TypeOK'
    BY <1>4, <2>1, EffectTyped DEF InjectRaises, TypeOK, cluster, controller
  <2>3. \A d \in Containers \ {c} : running'[d] = running[d] /\ netem'[d] = netem[d] /\ filler'[d] = filler[d]
    BY <1>4 DEF InjectRaises, Effect, StopContainer, AddRule, FillDisk, TypeOK, cluster
  <2>4. Tracks(active)'
    BY <1>4, <2>3 DEF InjectRaises, controller, Tracks, Covers
  <2>5. QED  BY <1>4, <2>2, <2>4 DEF InjectRaises, controller, RestoredIsHealthy
<1>5. ASSUME LeaveNodeStopped PROVE ChaosInvariant'
  <2>1. PICK c \in Containers : StartContainer(c) /\ active' = WithoutStops(active, c)
    BY <1>5 DEF LeaveNodeStopped, Last, TypeOK
  <2>2. active' \in Seq(FaultConfig) /\ Tracks(active)'
    BY <2>1, StartKeeps
  <2>3. scopes' \in Seq(Containers)
    BY <1>5 DEF LeaveNodeStopped, Front, TypeOK
  <2>4. TypeOK'
    BY <1>5, <2>1, <2>2, <2>3, ClusterTyped DEF LeaveNodeStopped, TypeOK
  <2>5. QED  BY <1>5, <2>2, <2>4 DEF LeaveNodeStopped, RestoredIsHealthy
<1>6. ASSUME LeaveRaises PROVE ChaosInvariant'
  <2>1. scopes' \in Seq(Containers)
    BY <1>6 DEF LeaveRaises, Front, TypeOK
  <2>2. mishaps' \in Nat
    BY <1>6 DEF LeaveRaises, Mishap, TypeOK
  <2>3. TypeOK'
    BY <1>6, <2>1, <2>2 DEF LeaveRaises, TypeOK, cluster
  <2>4. QED  BY <1>6, <2>3 DEF LeaveRaises, cluster, Tracks, Covers, RestoredIsHealthy
<1>7. ASSUME RestoreOne \/ RestoreOneRaises PROVE ChaosInvariant'
  <2>1. UNCHANGED <<active, scopes, pc>> /\ errors' \in BOOLEAN /\ pc = "restoring"
    BY <1>7 DEF RestoreOne, RestoreOneRaises, TypeOK
  <2>2. TypeOK'
    BY <1>7, <2>1, RestoreKeeps DEF TypeOK
  <2>3. QED  BY <1>7, <2>1, <2>2, RestoreKeeps DEF RestoredIsHealthy
<1>8. ASSUME BeginRestoreAll PROVE ChaosInvariant'
  BY <1>8 DEF BeginRestoreAll, cluster, TypeOK, Tracks, Covers, RestoredIsHealthy
<1>9. ASSUME EndRestoreAll PROVE ChaosInvariant'
  <2>1. TypeOK'
    BY <1>9 DEF EndRestoreAll, cluster, TypeOK
  <2>2. \A c \in Containers \ excused : Free(c)
    BY <1>9 DEF EndRestoreAll, Tracks, Covers, In, Free
  <2>3. QED  BY <1>9, <2>1, <2>2 DEF EndRestoreAll, cluster, Tracks, Covers, RestoredIsHealthy, Free
<1>10. ASSUME AfterRestoreAll PROVE ChaosInvariant'
  BY <1>10 DEF AfterRestoreAll, cluster, TypeOK, Tracks, Covers, RestoredIsHealthy
<1>11. CASE UNCHANGED vars
  BY <1>11 DEF vars, cluster, controller, TypeOK, Tracks, Covers, RestoredIsHealthy, Free
<1>12. QED
  BY <1>1, <1>2, <1>3, <1>4, <1>5, <1>6, <1>7, <1>8, <1>9, <1>10, <1>11 DEF Next

LEMMA ChaosSafe == Spec => []ChaosInvariant
<1>1. Init => ChaosInvariant
  <2>1. Init => TypeOK
    <3>1. Init => /\ running \in [Containers -> BOOLEAN] /\ filler \in [Containers -> BOOLEAN]
                  /\ errors \in BOOLEAN
      BY DEF Init
    <3>2. Init => /\ netem \in [Containers -> {"none", "delay", "loss"}]
                  /\ pc \in {"test", "restoring", "returned", "raised"}
                  /\ excused \subseteq Containers /\ mishaps \in Nat
      BY DEF Init
    <3>3. Init => active \in Seq(FaultConfig) /\ pending \in Seq(FaultConfig) /\ scopes \in Seq(Containers)
      BY DEF Init
    <3>4. QED  BY <3>1, <3>2, <3>3 DEF TypeOK
  <2>2. Init => Tracks(active) /\ pc = "test"
    BY DEF Init, Tracks, Covers
  <2>3. QED  BY <2>1, <2>2 DEF ChaosInvariant, RestoredIsHealthy
<1>2. ChaosInvariant /\ [Next]_vars => ChaosInvariant'
  BY ChaosPreserved
<1>3. QED  BY <1>1, <1>2, PTL DEF Spec

\* Type correctness of the chaos controller.
THEOREM ChaosTypeCorrect == Spec => []TypeOK
  BY ChaosSafe, PTL DEF ChaosInvariant

\* No fault is lost track of, however contexts nest and calls raise.
THEOREM FaultsAreAlwaysTracked == Spec => []FaultsAreTracked
<1>1. ChaosInvariant => FaultsAreTracked
  BY DEF ChaosInvariant, Tracks, Covers, In, FaultsAreTracked, Listed
<1>2. QED  BY <1>1, ChaosSafe, PTL

\* restore_all frees every container nothing went wrong on, whatever its faults
\* were, and whatever it met on other containers.
THEOREM RestoredIsAlwaysHealthy == Spec => []RestoredIsHealthy
  BY ChaosSafe, PTL DEF ChaosInvariant

=============================================================================
