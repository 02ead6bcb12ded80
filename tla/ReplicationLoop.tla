---------------------------- MODULE ReplicationLoop ----------------------------
(***************************************************************************)
(* The background loop of ReplicationWorker: start, stop, and the daemon   *)
(* thread that calls sync_once, tests the stop event and waits.  The steps *)
(* of sync_once are those of ReplicationSync; its Syncers are here the     *)
(* threads start creates.  A thread that has ended may stand for a new one.*)
(*                                                                         *)
(* One thread of the program owns the worker and calls start and stop in   *)
(* any order; the loop, that thread and the clients interleave freely.     *)
(*                                                                         *)
(* join(timeout=5) may return while the thread is in the middle of a sync  *)
(* (one request alone may take longer), and stop() does not ask why it     *)
(* returned.  Without a clock, it may so return at any time.               *)
(***************************************************************************)
EXTENDS ReplicationSync

CONSTANT NoThread  \* what _thread holds when it is None

ASSUME LoopAssumption == NoThread \notin Syncers

VARIABLES stopSet,  \* _stop.is_set()
          thread,   \* _thread
          owner,    \* "idle", or "joining" inside stop()
          loop,     \* loop[t]: where thread t is in _loop; "none" if not alive
          orphans   \* history: threads a stop() gave up waiting for

control  == <<stopSet, thread, owner, loop, orphans>>
loopVars == <<vars, control>>

Alive(t) == loop[t] # "none"

LoopInit == /\ Init
            /\ stopSet = FALSE
            /\ thread  = NoThread
            /\ owner   = "idle"
            /\ loop    = [t \in Syncers |-> "none"]
            /\ orphans = {}

-----------------------------------------------------------------------------
(* The owner.                                                              *)

\* start() when no loop is known to run: a new thread, the event cleared.
StartThread == /\ stopSet' = FALSE
               /\ \E t \in Syncers : /\ ~Alive(t)
                                     /\ thread' = t
                                     /\ loop' = [loop EXCEPT ![t] = "test"]
                                     /\ orphans' = orphans \ {t}
               /\ UNCHANGED <<vars, owner>>

\* Mutants: start() that does not look for a live thread; that does not clear
\* the event.
StartsAgain == owner = "idle" /\ StartThread
StartsStopped == /\ owner = "idle" /\ thread = NoThread
                 /\ \E t \in Syncers : /\ ~Alive(t)
                                       /\ thread' = t
                                       /\ loop' = [loop EXCEPT ![t] = "test"]
                                       /\ orphans' = orphans \ {t}
                 /\ UNCHANGED <<vars, stopSet, owner>>

Start == /\ owner = "idle"
         /\ thread # NoThread => ~Alive(thread)
         /\ StartThread

\* Mutant: stop() joins without setting the event.
StopForgets == /\ owner = "idle"
               /\ owner' = IF thread # NoThread THEN "joining" ELSE "idle"
               /\ UNCHANGED <<vars, stopSet, thread, loop, orphans>>

\* stop() sets the event, and joins the thread if it has one.
Stop == /\ owner = "idle"
        /\ stopSet' = TRUE
        /\ owner' = IF thread # NoThread THEN "joining" ELSE "idle"
        /\ UNCHANGED <<vars, thread, loop, orphans>>

\* Mutant: no wait at all.
JoinSkipped == TRUE

\* What join waits for.
ThreadEnded == ~Alive(thread)

\* join returns as the thread has ended.
JoinEnds == /\ owner = "joining"
            /\ ThreadEnded
            /\ thread' = NoThread
            /\ owner' = "idle"
            /\ UNCHANGED <<vars, stopSet, loop, orphans>>

\* join returns as five seconds have passed: stop() drops a thread that is alive.
JoinGivesUp == /\ owner = "joining"
               /\ Alive(thread)
               /\ thread' = NoThread
               /\ owner' = "idle"
               /\ orphans' = orphans \cup {thread}
               /\ UNCHANGED <<vars, stopSet, loop>>

Joined == JoinEnds \/ JoinGivesUp

-----------------------------------------------------------------------------
(* The thread.                                                             *)

\* while not self._stop.is_set()
LoopTest(t) == /\ loop[t] = "test"
               /\ loop' = [loop EXCEPT ![t] = IF stopSet THEN "none" ELSE "sync"]
               /\ UNCHANGED <<vars, stopSet, thread, owner, orphans>>

\* Inside sync_once; its statements do not look at the event.
LoopSyncs(t) == /\ loop[t] = "sync"
                /\ Begin(t) \/ Inside(t)
                /\ UNCHANGED control

\* sync_once returned: wait for the interval or the event.  It raised: nothing
\* in _loop catches the exception and the thread ends.
LoopReturns(t) == /\ loop[t] = "sync"
                  /\ Collect(t)
                  /\ loop' = [loop EXCEPT ![t] = IF pc[t] = "done" THEN "wait" ELSE "none"]
                  /\ UNCHANGED <<stopSet, thread, owner, orphans>>

\* The wait is over: the interval has passed or the event is set.
LoopWakes(t) == /\ loop[t] = "wait"
                /\ loop' = [loop EXCEPT ![t] = "test"]
                /\ UNCHANGED <<vars, stopSet, thread, owner, orphans>>

LoopStep(t) == LoopTest(t) \/ LoopSyncs(t) \/ LoopReturns(t) \/ LoopWakes(t)

-----------------------------------------------------------------------------
LoopNext == \/ Client /\ UNCHANGED control
            \/ Start \/ Stop \/ Joined
            \/ \E t \in Syncers : LoopStep(t)

LoopSafety == LoopInit /\ [][LoopNext]_loopVars

\* Threads are scheduled, requests are answered (or time out) and waits end, so
\* every loop keeps taking steps; join returns, at the latest when its time is up.
\* Nobody has to call start or stop, and clients owe nothing.
LoopFairness == /\ \A t \in Syncers : WF_loopVars(LoopStep(t))
                /\ WF_loopVars(Joined)

LoopSpec == LoopSafety /\ LoopFairness

-----------------------------------------------------------------------------
(* Properties.                                                             *)

\* The test at the head of start() and the join in stop() keep a worker to one
\* loop: of the threads stop() has not given up on, at most one is alive.
AtMostOneLoop == \A t, u \in Syncers \ orphans : Alive(t) /\ Alive(u) => t = u

\* Between the return of stop() and the next start() the secondary is left alone,
\* but for a loop that stop() gave up on; and that one begins no further sync.
StoppedIsQuiet ==
  [][thread = NoThread =>
       /\ \A t \in Syncers : loop[t] # "sync" => loop'[t] # "sync"
       /\ (\A t \in orphans : ~Alive(t)) => UNCHANGED secondary]_loopVars

\* A worker that stays stopped comes to have no thread: stop() sets the event even
\* for a loop it does not wait for, and no later start() or stop() forgets it.
LoopsEnd == <>[](thread = NoThread /\ owner = "idle") => <>[](\A t \in Syncers : ~Alive(t))

\* Once clients rest, a worker that was started and not stopped brings the
\* secondary to the primary's content: the unreplicated window is bounded by the
\* sync interval (test_replication.py, the RPO test).  This is said of a worker of
\* which no two calls of sync_once overlap: a loop stop() gave up on, going on under
\* the next start(), may put an earlier content over a later one that the table has.
Replicated == \A k \in Keys : Exists(k) => secondary[k] = primary[k].body
Converges  == []OneCall /\ <>[](thread # NoThread /\ owner = "idle") => <>[]Replicated

=============================================================================
