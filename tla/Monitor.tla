-------------------------------- MODULE Monitor --------------------------------
(***************************************************************************)
(* ClusterMonitor.run (storguard/dashboard/monitor.py): a bucket of its    *)
(* own, in which it puts, gets and deletes one small object after another  *)
(* until the user interrupts it or a request goes without an answer; then  *)
(* it clears the bucket and deletes it.                                    *)
(*                                                                         *)
(* The panels are left out: they ask Docker and Ollama for their state and *)
(* take every failure for "unknown" or "offline".                          *)
(***************************************************************************)
EXTENDS Naturals, FiniteSets

CONSTANT MaxProbes  \* bound: probes of one run

ASSUME MonitorAssumption == MaxProbes \in Nat

VARIABLES
  phase,      \* where run is, "none" when no monitor runs, "ended" when it has just ended
  probe,      \* _probe_n
  errors,     \* _errors
  hasBucket,  \* its bucket exists
  held,       \* the probes whose object is in it
  listed,     \* the clean-up's listing, what is left of it
  late,       \* the last PUT was given up and may yet be stored
  kept,       \* history: deletes in the loop that failed
  slip        \* history: something went wrong with the clean-up

monitorVars == <<phase, probe, errors, hasBucket, held, listed, late, kept, slip>>

MonitorInit == /\ phase = "none" /\ probe = 0 /\ errors = 0
               /\ hasBucket = FALSE /\ held = {} /\ listed = {}
               /\ late = FALSE /\ kept = 0 /\ slip = FALSE

StartMonitor == /\ phase = "none" /\ phase' = "create"
                /\ UNCHANGED <<probe, errors, hasBucket, held, listed, late, kept, slip>>

\* Errors are swallowed, whether the bucket is there or not.  An interrupt is not, and
\* the clean-up is not yet in force.
CreateMonitorBucket ==
  /\ phase = "create"
  /\ hasBucket' \in BOOLEAN
  /\ \/ phase' = "put" /\ UNCHANGED slip
     \/ phase' = "ended" /\ slip' = TRUE
  /\ UNCHANGED <<probe, errors, held, listed, late, kept>>

-----------------------------------------------------------------------------
(* _probe: what became of each request is shown; only a failed PUT is      *)
(* counted as an error, and ends the probe.                                *)

Stored(n) == IF hasBucket THEN held \cup {n} ELSE held

Put == /\ phase = "put" /\ probe < MaxProbes
       /\ probe' = probe + 1
       /\ \/ /\ hasBucket /\ held' = Stored(probe') /\ phase' = "get"
             /\ UNCHANGED errors
          \/ /\ held' \in {held, Stored(probe')}
             /\ errors' = errors + 1
             /\ UNCHANGED phase
       /\ UNCHANGED <<hasBucket, listed, late, kept, slip>>

\* Mutant: the object is deleted only when it could be read.
GetThenDelete == /\ phase = "get" /\ phase' \in {"delete", "put"}
                 /\ UNCHANGED <<probe, errors, hasBucket, held, listed, late, kept, slip>>

\* Answered or refused.
Get == /\ phase = "get" /\ phase' = "delete"
       /\ UNCHANGED <<probe, errors, hasBucket, held, listed, late, kept, slip>>

DeleteProbe == /\ phase = "delete" /\ phase' = "put"
               /\ \/ held' = held \ {probe} /\ UNCHANGED kept
                  \/ held' \in {held, held \ {probe}} /\ kept' = kept + 1
               /\ UNCHANGED <<probe, errors, hasBucket, listed, late, slip>>

\* Mutant: only an interrupt is followed by the clean-up.
LeavesUnclean == /\ phase \in {"put", "get", "delete"} /\ phase' \in {"list", "ended"}
                 /\ UNCHANGED <<probe, errors, hasBucket, held, listed, late, kept, slip>>

\* A request without an answer, or an interrupt, in a request or between two: the
\* finally begins.  The request may have been carried out, a PUT also later.
LeaveLoop ==
  /\ phase \in {"put", "get", "delete"} /\ phase' = "list"
  /\ \/ UNCHANGED <<probe, held, late>>
     \/ /\ phase = "put" /\ probe < MaxProbes
        /\ probe' = probe + 1
        /\ \/ held' = Stored(probe') /\ UNCHANGED late
           \/ late' = hasBucket /\ UNCHANGED held
     \/ phase = "delete" /\ held' = held \ {probe} /\ UNCHANGED <<probe, late>>
  /\ UNCHANGED <<errors, hasBucket, listed, kept, slip>>

\* The given-up PUT is carried out; after the listing that spoils the clean-up.
PutLands == /\ late /\ late' = FALSE
            /\ held' = Stored(probe)
            /\ slip' = (slip \/ (phase # "list" /\ hasBucket))
            /\ UNCHANGED <<phase, probe, errors, hasBucket, listed, kept>>

-----------------------------------------------------------------------------
(* _cleanup.                                                               *)

List == /\ phase = "list"
        /\ IF hasBucket THEN phase' = "clear" /\ listed' = held
                        ELSE phase' = "ended" /\ UNCHANGED listed
        /\ UNCHANGED <<probe, errors, hasBucket, held, late, kept, slip>>

\* A refused delete is not noticed.
Clear == /\ phase = "clear"
         /\ \E n \in listed :
              /\ listed' = listed \ {n}
              /\ \/ held' = held \ {n} /\ UNCHANGED slip
                 \/ UNCHANGED held /\ slip' = TRUE
         /\ UNCHANGED <<phase, probe, errors, hasBucket, late, kept>>

\* A bucket that is not empty is not deleted.
DropBucket == /\ phase = "clear" /\ listed = {}
              /\ phase' = "ended"
              /\ \/ hasBucket' = (held # {}) /\ UNCHANGED slip
                 \/ UNCHANGED hasBucket /\ slip' = TRUE
              /\ UNCHANGED <<probe, errors, held, listed, late, kept>>

\* A request without an answer is swallowed, a second interrupt not: either ends it.
CleanUpStops == /\ phase \in {"list", "clear"}
                /\ phase' = "ended" /\ slip' = TRUE
                /\ UNCHANGED <<probe, errors, hasBucket, held, listed, late, kept>>

CleanUp == List \/ Clear \/ DropBucket \/ CleanUpStops

\* Mutant: the count of errors is the class's.
KeepsErrors == /\ phase = "ended" /\ phase' = "none"
               /\ probe' = 0 /\ hasBucket' = FALSE /\ held' = {} /\ listed' = {}
               /\ late' = FALSE /\ kept' = 0 /\ slip' = FALSE /\ UNCHANGED errors

\* The next monitor has another bucket.
MonitorGone == /\ phase = "ended" /\ phase' = "none"
               /\ probe' = 0 /\ errors' = 0 /\ hasBucket' = FALSE /\ held' = {} /\ listed' = {}
               /\ late' = FALSE /\ kept' = 0 /\ slip' = FALSE

MonitorStep == \/ CreateMonitorBucket \/ Put \/ Get \/ DeleteProbe \/ LeaveLoop \/ PutLands
               \/ CleanUp \/ MonitorGone

-----------------------------------------------------------------------------
(* Properties.                                                             *)

MonitorTypeOK ==
  /\ phase \in {"none", "create", "put", "get", "delete", "list", "clear", "ended"}
  /\ probe \in 0 .. MaxProbes /\ errors \in 0 .. probe /\ kept \in 0 .. probe
  /\ held \subseteq 1 .. probe /\ listed \subseteq 1 .. probe
  /\ hasBucket \in BOOLEAN /\ late \in BOOLEAN /\ slip \in BOOLEAN

\* However many probes there are, the bucket holds no more objects than the one in
\* hand, one for each error the panel counts and one for each refused delete.
ProbesAreCleared == Cardinality(held) <= errors + kept + 1

\* However the loop ended, its bucket is gone, as long as the clean-up was let do its
\* work: no interrupt, no failed request in it and no PUT carried out behind its back.
LeavesNothing == phase = "ended" /\ ~slip => ~hasBucket

\* Once the loop is left the monitor ends.
MonitorEnds == (phase \in {"list", "clear"}) ~> (phase \in {"ended", "none"})

=============================================================================
