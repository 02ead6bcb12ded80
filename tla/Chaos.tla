-------------------------------- MODULE Chaos --------------------------------
(***************************************************************************)
(* ChaosController (storguard/chaos/controller.py) over DockerClient: the  *)
(* list of active faults it keeps in memory against the faults the         *)
(* containers are really under.  One test thread injects, restarts, nests  *)
(* node_stopped contexts and calls restore_all in any order; Docker calls  *)
(* may raise and a container may exit by itself.                           *)
(*                                                                         *)
(* What a container does with a fault is external: a stopped container     *)
(* loses its traffic rules and keeps its disk; a command cannot be run in  *)
(* it (exec raises); a command that fails inside a running container only  *)
(* sets an exit code, which the controller does not read.                  *)
(***************************************************************************)
EXTENDS Naturals, Sequences, SequencesExt

CONSTANTS
  Containers,
  FaultTypes,    \* the faults a test injects, a subset of AllFaultTypes
  MaxActive,     \* bound: length of the list of active faults
  MaxNesting,    \* bound: node_stopped contexts open at once
  MishapKinds,   \* what goes wrong by itself, a subset of AllMishaps
  MaxMishaps     \* bound: how often

AllFaultTypes == {"NODE_STOP", "NETWORK_LATENCY", "PACKET_LOSS", "DISK_PRESSURE"}
AllMishaps    == {"start_raises", "inject_raises", "exits"}

ASSUME ChaosAssumption ==
  /\ FaultTypes \subseteq AllFaultTypes /\ MishapKinds \subseteq AllMishaps
  /\ MaxActive \in Nat /\ MaxNesting \in Nat /\ MaxMishaps \in Nat

VARIABLES
  running,   \* running[c]: Docker has c running
  netem,     \* netem[c]: the rule on c's interface, "none" if there is none
  filler,    \* filler[c]: storguard_filler.bin is on c's disk
  active,    \* _active_faults
  scopes,    \* the containers of the open node_stopped contexts, innermost last
  pending,   \* restore_all: the copy of the list, less what it has dealt with
  errors,    \* restore_all: whether one of its removals raised
  pc,        \* "test" outside restore_all, "restoring" in it, "returned" or "raised" at its end
  mishaps,   \* mishaps so far
  excused    \* history: containers on which a call failed to do or undo its work

cluster    == <<running, netem, filler>>
controller == <<active, scopes, pending, errors, pc>>
vars       == <<cluster, controller, mishaps, excused>>

FaultConfig == [fault_type : AllFaultTypes, target_container : Containers]
\* Mutant: the fault type alone goes into the list.
TypeAlone(type, c) == [fault_type |-> type]
Fault(type, c) == [fault_type |-> type, target_container |-> c]
TcRule  == [NETWORK_LATENCY |-> "delay", PACKET_LOSS |-> "loss"]
Traffic == DOMAIN TcRule

Init ==
  /\ running = [c \in Containers |-> TRUE]
  /\ netem   = [c \in Containers |-> "none"]
  /\ filler  = [c \in Containers |-> FALSE]
  /\ active = <<>> /\ scopes = <<>> /\ pending = <<>>
  /\ errors = FALSE
  /\ pc = "test"
  /\ mishaps = 0
  /\ excused = {}

-----------------------------------------------------------------------------
(* External: Docker and the containers.                                    *)

Mishap(kind) == /\ kind \in MishapKinds
                /\ mishaps < MaxMishaps
                /\ mishaps' = mishaps + 1

StopContainer(c) == /\ running' = [running EXCEPT ![c] = FALSE]
                    /\ netem'   = [netem EXCEPT ![c] = "none"]
                    /\ UNCHANGED filler

\* A start, and wait_until_running; what the wait found is not looked at.
StartContainer(c) ==
  \/ /\ running' = [running EXCEPT ![c] = TRUE]
     /\ UNCHANGED <<netem, filler, mishaps, excused>>
  \/ /\ Mishap("exits")
     /\ StopContainer(c)
     /\ excused' = excused \cup {c}

\* "tc qdisc add ... root" fails inside the container when there is a root rule.
AddRule(c, type) == /\ netem' = [netem EXCEPT ![c] = IF @ = "none" THEN TcRule[type] ELSE @]
                    /\ UNCHANGED <<running, filler>>

\* Allocating the filler may fail inside the container, for want of space.
FillDisk(c) == /\ filler' \in {filler, [filler EXCEPT ![c] = TRUE]}
               /\ UNCHANGED <<running, netem>>

ClearRules(c)  == netem' = [netem EXCEPT ![c] = "none"] /\ UNCHANGED <<running, filler>>
ReleaseDisk(c) == filler' = [filler EXCEPT ![c] = FALSE] /\ UNCHANGED <<running, netem>>

\* What an injection does to the cluster; only a stop can be done to a container
\* that is not running, and does nothing then.
Effect(type, c) ==
  \/ type = "NODE_STOP" /\ StopContainer(c)
  \/ type \in Traffic /\ running[c] /\ AddRule(c, type)
  \/ type = "DISK_PRESSURE" /\ running[c] /\ FillDisk(c)

-----------------------------------------------------------------------------
(* The controller.                                                         *)

\* stop_node, add_latency, add_packet_loss, apply_disk_pressure: the effect
\* first, then the entry in the list.
Inject(type, c) ==
  /\ pc = "test"
  /\ Len(active) < MaxActive
  /\ Effect(type, c)
  /\ active' = Append(active, Fault(type, c))
  /\ UNCHANGED <<scopes, pending, errors, pc, mishaps, excused>>

\* The call raises, with or without effect, and nothing is listed.
InjectRaises(type, c) ==
  /\ pc = "test"
  /\ Mishap("inject_raises")
  /\ Effect(type, c) \/ UNCHANGED cluster
  /\ excused' = excused \cup {c}
  /\ UNCHANGED controller

\* restart_node leaves the list alone.
RestartNode(c) ==
  /\ pc = "test"
  /\ StartContainer(c)
  /\ UNCHANGED controller

\* with node_stopped(c): stop_node, and the body begins.
EnterNodeStopped(c) ==
  /\ pc = "test"
  /\ Len(scopes) < MaxNesting /\ Len(active) < MaxActive
  /\ StopContainer(c)
  /\ active' = Append(active, Fault("NODE_STOP", c))
  /\ scopes' = Append(scopes, c)
  /\ UNCHANGED <<pending, errors, pc, mishaps, excused>>

IsStopOf(f, c) == f = Fault("NODE_STOP", c)

\* Mutant: every fault of the container goes.
ForgetsContainer(faults, c) == SelectSeq(faults, LAMBDA f : f.target_container # c)

\* kept[n]: what is kept of the first n entries.
WithoutStops(faults, c) ==
  LET kept[n \in 0 .. Len(faults)] ==
        IF n = 0 THEN <<>>
        ELSE IF IsStopOf(faults[n], c) THEN kept[n - 1]
        ELSE Append(kept[n - 1], faults[n])
  IN kept[Len(faults)]

\* The body ends, normally or not: restart_node, then the entries go.
LeaveNodeStopped ==
  /\ pc = "test" /\ scopes # <<>>
  /\ LET c == Last(scopes) IN
       /\ StartContainer(c)
       /\ active' = WithoutStops(active, c)
  /\ scopes' = Front(scopes)
  /\ UNCHANGED <<pending, errors, pc>>

\* The restart raises, and the rest of the finally block is not run.
LeaveRaises ==
  /\ pc = "test" /\ scopes # <<>>
  /\ Mishap("start_raises")
  /\ scopes' = Front(scopes)
  /\ UNCHANGED <<cluster, active, pending, errors, pc, excused>>

-----------------------------------------------------------------------------
(* restore_all, one entry of the copied list at a time.                    *)

BeginRestoreAll ==
  /\ pc = "test"
  /\ pc' = "restoring"
  /\ pending' = active
  /\ errors' = FALSE
  /\ UNCHANGED <<cluster, active, scopes, mishaps, excused>>

\* _restore_one, when it does not raise.
RemoveFault(f) ==
  LET c == f.target_container IN
    \/ f.fault_type = "NODE_STOP" /\ StartContainer(c)
    \/ /\ f.fault_type # "NODE_STOP" /\ running[c]
       /\ IF f.fault_type \in Traffic THEN ClearRules(c) ELSE ReleaseDisk(c)
       /\ UNCHANGED <<mishaps, excused>>

RestoreOne ==
  /\ pc = "restoring" /\ pending # <<>>
  /\ RemoveFault(pending[1])
  /\ pending' = Tail(pending)
  /\ UNCHANGED <<active, scopes, errors, pc>>

\* Mutant: the first error ends the loop.
StopsAtError ==
  /\ pc = "restoring" /\ pending # <<>>
  /\ LET f == pending[1] IN
       /\ \/ f.fault_type = "NODE_STOP" /\ Mishap("start_raises")
          \/ f.fault_type # "NODE_STOP" /\ ~running[f.target_container] /\ UNCHANGED mishaps
       /\ excused' = excused \cup {f.target_container}
  /\ errors' = TRUE
  /\ pending' = <<>>
  /\ UNCHANGED <<cluster, active, scopes, pc>>

\* It raises: a command in a container that is not running, or a failed start.
\* The error is kept and the loop goes on.
RestoreOneRaises ==
  /\ pc = "restoring" /\ pending # <<>>
  /\ LET f == pending[1] IN
       /\ \/ f.fault_type = "NODE_STOP" /\ Mishap("start_raises")
          \/ f.fault_type # "NODE_STOP" /\ ~running[f.target_container] /\ UNCHANGED mishaps
       /\ excused' = excused \cup {f.target_container}
  /\ errors' = TRUE
  /\ pending' = Tail(pending)
  /\ UNCHANGED <<cluster, active, scopes, pc>>

\* The list is cleared whatever happened; with errors a RuntimeError is raised.
EndRestoreAll ==
  /\ pc = "restoring" /\ pending = <<>>
  /\ active' = <<>>
  /\ pc' = IF errors THEN "raised" ELSE "returned"
  /\ UNCHANGED <<cluster, scopes, pending, errors, mishaps, excused>>

\* The test goes on.
AfterRestoreAll ==
  /\ pc \in {"returned", "raised"}
  /\ pc' = "test"
  /\ UNCHANGED <<cluster, active, scopes, pending, errors, mishaps, excused>>

-----------------------------------------------------------------------------
Next ==
  \/ \E c \in Containers :
       \/ RestartNode(c)
       \/ "NODE_STOP" \in FaultTypes /\ EnterNodeStopped(c)
       \/ \E type \in FaultTypes : Inject(type, c) \/ InjectRaises(type, c)
  \/ LeaveNodeStopped \/ LeaveRaises
  \/ BeginRestoreAll \/ RestoreOne \/ RestoreOneRaises \/ EndRestoreAll \/ AfterRestoreAll

Spec == Init /\ [][Next]_vars

-----------------------------------------------------------------------------
(* Properties.                                                             *)

\* Type invariant: every variable stays in its domain.
TypeOK ==
  /\ running \in [Containers -> BOOLEAN]
  /\ netem \in [Containers -> {"none", "delay", "loss"}]
  /\ filler \in [Containers -> BOOLEAN]
  /\ active \in Seq(FaultConfig) /\ pending \in Seq(FaultConfig)
  /\ scopes \in Seq(Containers)
  /\ errors \in BOOLEAN
  /\ excused \subseteq Containers
  /\ pc \in {"test", "restoring", "returned", "raised"}
  /\ mishaps \in Nat

Listed(types, c) == \E n \in DOMAIN active :
                      active[n].fault_type \in types /\ active[n].target_container = c

Free(c) == running[c] /\ netem[c] = "none" /\ ~filler[c]

\* No fault is in effect that the controller does not have in its list: nested
\* contexts, repeated faults and restarts that raise never lose one.  Excused are
\* containers whose call raised or did nothing without the controller noticing.
FaultsAreTracked ==
  \A c \in Containers \ excused :
    /\ ~running[c] => Listed({"NODE_STOP"}, c)
    /\ netem[c] # "none" => Listed(Traffic, c)
    /\ filler[c] => Listed({"DISK_PRESSURE"}, c)

\* restore_all frees every container on which nothing went wrong, in whatever order
\* its faults were injected: an error on one container does not keep another one
\* under its faults.
RestoredIsHealthy ==
  pc \in {"returned", "raised"} => \A c \in Containers \ excused : Free(c)

\* "restore_all() in every fixture teardown: cluster is always healthy after any
\* test, pass or fail - no leaked faults" (README.md), errors or no errors.
NoLeakedFaults == pc \in {"returned", "raised"} => \A c \in Containers : Free(c)

=============================================================================
