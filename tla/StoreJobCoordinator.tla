------------------------- MODULE StoreJobCoordinator -------------------------
(***************************************************************************)
(* StoreJobCoordinator (src/services/storeJobCoordinator.ts): the promise  *)
(* queue that serializes every job mutating the shared intelligence store, *)
(* the per-timer guard that coalesces ticks, and the shutdown drain.       *)
(*                                                                         *)
(* Each call of run() chains one job on the promise held in "tail".  A job *)
(* is numbered when it is chained; prev[j] is the job whose promise it     *)
(* waits for (0: the resolved promise the coordinator starts with).        *)
(* schedule() and close() are synchronous, so they can fall between the    *)
(* settlement of a job and the microtask that resumes its drain loop.      *)
(*                                                                         *)
(* An operator introduced as a "Variant" is a plausible slip in the        *)
(* operator that follows it; no action uses it.                            *)
(***************************************************************************)
EXTENDS Naturals, FiniteSets

CONSTANTS
  Names,    \* names of the timer jobs given to schedule(): 'ingestion', 'monitor'
  Caller,   \* owner of a job chained by a direct call of run()
  MaxJobs   \* bound on the jobs chained in a behaviour

ASSUME CoordinatorAssumption == MaxJobs \in Nat /\ Caller \notin Names

JobId == 1 .. MaxJobs
JobStatus == {"none", "queued", "active", "succeeded", "failed", "stopped"}

VARIABLES
  born,           \* jobs chained so far
  prev,           \* prev[j]: the promise job j was chained on
  owner,          \* who chained job j
  status,         \* progress of job j
  tail,           \* this.tail
  guard,          \* names present in this.scheduled
  pending,        \* names whose guard has pending = true
  closed,         \* this.closed
  closeTail,      \* the tail captured by close()
  closeResolved   \* the promise returned by close() has resolved

vars == <<born, prev, owner, status, tail, guard, pending, closed, closeTail, closeResolved>>

TypeOK ==
  /\ born \in 0 .. MaxJobs
  /\ prev \in [JobId -> 0 .. MaxJobs]
  /\ owner \in [JobId -> Names \cup {Caller}]
  /\ status \in [JobId -> JobStatus]
  /\ tail \in 0 .. MaxJobs
  /\ guard \subseteq Names
  /\ pending \subseteq guard
  /\ closed \in BOOLEAN
  /\ closeTail \in 0 .. MaxJobs
  /\ closeResolved \in BOOLEAN

Init ==
  /\ born = 0
  /\ prev = [j \in JobId |-> 0]
  /\ owner = [j \in JobId |-> Caller]
  /\ status = [j \in JobId |-> "none"]
  /\ tail = 0
  /\ guard = {}
  /\ pending = {}
  /\ closed = FALSE
  /\ closeTail = 0
  /\ closeResolved = FALSE

Settled(j) == j > 0 => status[j] \in {"succeeded", "failed", "stopped"}

\* A behaviour may still chain a job: one slot is kept for every pending follow-up.
Room == born + Cardinality(pending) < MaxJobs

\* run(): chain a job of owner o on the tail, which it becomes.
Chain(o) ==
  /\ born' = born + 1
  /\ prev' = [prev EXCEPT ![born + 1] = tail]
  /\ owner' = [owner EXCEPT ![born + 1] = o]
  /\ status' = [status EXCEPT ![born + 1] = "queued"]
  /\ tail' = born + 1

\* A direct run(); a call after close() is rejected and changes nothing.
Run ==
  /\ ~closed
  /\ Room
  /\ Chain(Caller)
  /\ UNCHANGED <<guard, pending, closed, closeTail, closeResolved>>

Unscheduled(n) == n \notin guard

\* schedule(n) with no outstanding job: set the guard and enter the drain loop,
\* whose first run() is called before schedule() returns.
ScheduleFirst(n) ==
  /\ ~closed
  /\ Unscheduled(n)
  /\ Room
  /\ guard' = guard \cup {n}
  /\ Chain(n)
  /\ UNCHANGED <<pending, closed, closeTail, closeResolved>>

Unmarked(n) == n \in guard \ pending

\* schedule(n) while n's job is outstanding: remember one follow-up.
ScheduleCoalesced(n) ==
  /\ ~closed
  /\ Unmarked(n)
  /\ Room
  /\ pending' = pending \cup {n}
  /\ UNCHANGED <<born, prev, owner, status, tail, guard, closed, closeTail, closeResolved>>

\* Variant: the work is started without waiting for the tail.
ReadyAtOnce(j) == j \in JobId
Ready(j) == Settled(prev[j])

\* The callback given to tail.then(): close() is looked at again here.
Start(j) ==
  /\ status[j] = "queued"
  /\ Ready(j)
  /\ status' = [status EXCEPT ![j] = IF closed THEN "stopped" ELSE "active"]
  /\ UNCHANGED <<born, prev, owner, tail, guard, pending, closed, closeTail, closeResolved>>

\* The job's work settles, one way or the other.
Finish(j) ==
  /\ status[j] = "active"
  /\ \E outcome \in {"succeeded", "failed"} : status' = [status EXCEPT ![j] = outcome]
  /\ UNCHANGED <<born, prev, owner, tail, guard, pending, closed, closeTail, closeResolved>>

Outstanding(n) == \E j \in JobId : owner[j] = n /\ status[j] \in {"queued", "active"}

\* The drain loop of n resumes after its job settled: another round if a tick came
\* in meanwhile, otherwise the finally block drops the guard.
DrainAgain(n) ==
  /\ n \in guard /\ ~Outstanding(n)
  /\ ~closed /\ n \in pending
  /\ pending' = pending \ {n}
  /\ Chain(n)
  /\ UNCHANGED <<guard, closed, closeTail, closeResolved>>

\* Variants: a single round; a guard that is never dropped.
DrainedOnce(n) == n \in guard
Drained(n) == n \in pending => closed
GuardKept(n) == guard
GuardDropped(n) == guard \ {n}

DrainDone(n) ==
  /\ n \in guard /\ ~Outstanding(n)
  /\ Drained(n)
  /\ guard' = GuardDropped(n)
  /\ pending' = pending \ {n}
  /\ UNCHANGED <<born, prev, owner, status, tail, closed, closeTail, closeResolved>>

\* Variant: close() does not wait for the queue.
NoTail == 0
LastTail == tail

\* close(): later calls return the same promise.
Close ==
  /\ ~closed
  /\ closed' = TRUE
  /\ pending' = {}
  /\ closeTail' = LastTail
  /\ UNCHANGED <<born, prev, owner, status, tail, guard, closeResolved>>

CloseResolve ==
  /\ closed /\ ~closeResolved
  /\ Settled(closeTail)
  /\ closeResolved' = TRUE
  /\ UNCHANGED <<born, prev, owner, status, tail, guard, pending, closed, closeTail>>

Next ==
  \/ Run
  \/ \E n \in Names : ScheduleFirst(n) \/ ScheduleCoalesced(n) \/ DrainAgain(n) \/ DrainDone(n)
  \/ \E j \in JobId : Start(j) \/ Finish(j)
  \/ Close
  \/ CloseResolve

Spec == Init /\ [][Next]_vars

(***************************************************************************)
(* The event loop runs every ready callback, and the jobs given to the     *)
(* coordinator settle (their network calls carry timeouts).  Nothing       *)
(* obliges timers to tick, callers to call or the server to close.         *)
(***************************************************************************)
FairSpec ==
  /\ Spec
  /\ \A j \in JobId : WF_vars(Start(j)) /\ WF_vars(Finish(j))
  /\ \A n \in Names : WF_vars(DrainAgain(n)) /\ WF_vars(DrainDone(n))
  /\ WF_vars(CloseResolve)

------------------------------------------------------------------------------
\* Two jobs never work on the store at once, whatever mix of direct calls, timer
\* rounds, failures and shutdown chained them ("Serializes jobs", line 1).
SerialJobs == \A i, j \in JobId : status[i] = "active" /\ status[j] = "active" => i = j

\* When the promise of close() has resolved, no job is at work or waiting to start:
\* the server's onClose hook may tear the store down (app.ts 1493).
QuietAfterClose == closeResolved => \A j \in JobId : status[j] \notin {"queued", "active"}

\* The store has one writer at a time, and none once the server was told it is idle.
OneWriter == SerialJobs /\ QuietAfterClose

\* However many ticks arrive, a timer has at most one job outstanding at any time.
TimerCoalesced ==
  \A i, j \in JobId :
    /\ owner[i] = owner[j] /\ owner[i] \in Names
    /\ status[i] \in {"queued", "active"} /\ status[j] \in {"queued", "active"}
    => i = j

\* A tick that arrives while the timer's job is at work is not lost: a later job of
\* the same timer starts, unless the server closes first.
TickServed ==
  \A n \in Names, j \in JobId :
    (status[j] = "active" /\ owner[j] = n /\ n \in pending)
      ~> (closed \/ \E k \in JobId : k > j /\ owner[k] = n /\ status[k] = "active")

\* Shutdown terminates: close() resolves and no drain loop is left behind.
CloseDrains == closed ~> (closeResolved /\ guard = {})
==============================================================================
