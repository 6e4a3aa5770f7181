---------------------------- MODULE DatabaseCircuit ----------------------------
(***************************************************************************)
(* The circuit breaker every database operation of the process passes      *)
(* (src/persistence/databasePool.ts): pool.query() and pool.connect() with *)
(* the instrumented clients they hand out, errors of idle and checked out  *)
(* clients, and the recovery probe with its timer.                         *)
(*                                                                         *)
(* An action is what runs between two awaits or events.  Time is left to   *)
(* two events: nextProbeAt passes, and the timer fires.                    *)
(*                                                                         *)
(* An operator introduced as a "Variant" is a plausible slip in the        *)
(* operator that follows it; no action uses it.                            *)
(***************************************************************************)
EXTENDS Naturals, FiniteSets

CONSTANTS
  Queries,       \* operations of ordinary traffic under way at once
  Probes,        \* recovery probes under way at once
  OpenFailures,  \* CIRCUIT_OPEN_FAILURES
  MaxFailures,   \* bound on the failures counted
  MaxAsked       \* bound on probes asked for by startup and /health (app.ts 898, 1579)

ASSUME CircuitAssumption ==
  /\ Queries \cap Probes = {} /\ IsFiniteSet(Queries) /\ IsFiniteSet(Probes)
  /\ OpenFailures \in Nat \ {0} /\ MaxFailures \in Nat /\ OpenFailures <= MaxFailures
  /\ MaxAsked \in Nat

Operations == Queries \cup Probes

CircuitState == {"degraded", "healthy", "circuit_open", "recovering"}

\* An operation and the client it holds.  "once" is pool.query() or a probe, "held" a
\* client checked out with pool.connect().  dead: the connection is gone; broken: the
\* process knows; lost: how often the circuit counted it.
Operation == [kind : {"once", "held"}, phase : {"idle", "connecting", "resting", "querying"},
              dead : BOOLEAN, broken : BOOLEAN, lost : 0 .. 2]

Over == [kind |-> "once", phase |-> "idle", dead |-> FALSE, broken |-> FALSE, lost |-> 0]

VARIABLES
  state,      \* circuit.state
  failures,   \* circuit.consecutiveFailures
  due,        \* nextProbeAt is null or has passed
  timer,      \* recoveryProbeTimer is set
  inFlight,   \* recoveryProbeInFlight is set
  follow,     \* the timer's callback waits for the probe in flight
  op,         \* the operations under way
  idle,       \* clients idle in the pool, by whether their connection still lives
  asked,      \* probes asked for so far
  up          \* the database accepts connections and answers in time

circuit == <<state, failures, due>>
vars == <<state, failures, due, timer, inFlight, follow, op, idle, asked, up>>

CircuitTypeOK ==
  /\ state \in CircuitState
  /\ failures \in 0 .. MaxFailures
  /\ due \in BOOLEAN /\ timer \in BOOLEAN /\ inFlight \in BOOLEAN /\ follow \in BOOLEAN
  /\ op \in [Operations -> Operation]
  /\ idle \in [live : 0 .. Cardinality(Operations), dead : 0 .. Cardinality(Operations)]
  /\ asked \in 0 .. MaxAsked
  /\ up \in BOOLEAN

Init ==
  /\ state = "degraded" /\ failures = 0 /\ due = TRUE
  /\ timer = FALSE /\ inFlight = FALSE /\ follow = FALSE
  /\ op = [o \in Operations |-> Over]
  /\ idle = [live |-> 0, dead |-> 0]
  /\ asked = 0
  /\ up \in BOOLEAN

------------------------------------------------------------------------------
Capped(n) == IF n > MaxFailures THEN MaxFailures ELSE n

Opens == failures + 1 >= OpenFailures \/ state = "recovering"

\* recordFailure() for a connectivity error.
Failure ==
  /\ failures' = Capped(failures + 1)
  /\ state' = IF Opens THEN "circuit_open" ELSE "degraded"
  /\ due' = (due /\ ~Opens)

\* recordSuccess().
Success ==
  /\ state' = "healthy"
  /\ failures' = 0
  /\ due' = TRUE

\* scheduleRecoveryProbe(), called by a failure that leaves the circuit open.
ScheduledAfter(fails) == timer \/ (fails /\ Opens /\ ~inFlight)

\* Variant: the timer's callback does not look at the circuit again.
NoFollowUp(open) == FALSE
FollowUp(open) == follow /\ open

Ended(o) == op' = [op EXCEPT ![o] = Over]

\* The pool hands out an idle client, dead or alive, or opens a connection.
TakeClient(dead) ==
  \/ ~dead /\ idle.live > 0 /\ idle' = [idle EXCEPT !.live = @ - 1]
  \/ dead /\ idle.dead > 0 /\ idle' = [idle EXCEPT !.dead = @ - 1]
  \/ ~dead /\ idle.live + idle.dead = 0 /\ up /\ UNCHANGED idle

\* client.release(): the pool keeps a client it is not told is broken.
GiveClient(o) ==
  idle' = IF op[o].broken THEN idle
          ELSE IF op[o].dead THEN [idle EXCEPT !.dead = @ + 1] ELSE [idle EXCEPT !.live = @ + 1]

\* What remains when an operation ends on a failed (or not counted) connection or
\* query: a probe clears recoveryProbeInFlight, and the timer's callback, when it
\* waits for that probe, sets the timer again if the circuit is open.
Unwind(o, fails) ==
  IF o \in Probes
  THEN /\ inFlight' = FALSE /\ follow' = FALSE
       /\ timer' = (ScheduledAfter(fails) \/ FollowUp(state' = "circuit_open"))
  ELSE /\ timer' = ScheduledAfter(fails)
       /\ UNCHANGED <<inFlight, follow>>

------------------------------------------------------------------------------
(* pool.query() and pool.connect() of ordinary traffic.                      *)

\* beforeOperation('query' or 'connect'): refused while the circuit is open.
Begin(q, kind) ==
  /\ op[q].phase = "idle"
  /\ state # "circuit_open"
  /\ op' = [op EXCEPT ![q].phase = "connecting", ![q].kind = kind]
  /\ UNCHANGED <<circuit, timer, inFlight, follow, idle, asked, up>>

ConnectFails(o) ==
  /\ op[o].phase = "connecting"
  /\ ~up /\ idle.live + idle.dead = 0
  /\ Failure
  /\ Unwind(o, TRUE)
  /\ Ended(o)
  /\ UNCHANGED <<idle, asked, up>>

\* pool.connect() resolves with a client, which counts as a success.
CheckOut(q) ==
  /\ op[q].phase = "connecting" /\ op[q].kind = "held"
  /\ \E dead \in BOOLEAN : /\ TakeClient(dead)
                          /\ op' = [op EXCEPT ![q].phase = "resting", ![q].dead = dead]
  /\ Success
  /\ UNCHANGED <<timer, inFlight, follow, asked, up>>

\* Variant: the circuit is not looked at again once connected.
StillAllowedBefore == TRUE
StillAllowed == state # "circuit_open"

\* The client of pool.query() or of a probe is there: its query() asks the circuit
\* again, as the circuit may have opened meanwhile.
Connected(o) ==
  /\ op[o].phase = "connecting" /\ op[o].kind = "once"
  /\ StillAllowed
  /\ \E dead \in BOOLEAN : /\ TakeClient(dead)
                          /\ op' = [op EXCEPT ![o].phase = "querying", ![o].dead = dead]
  /\ UNCHANGED <<circuit, timer, inFlight, follow, asked, up>>

\* Then the client goes back unused, or stays idle in the pool.
ConnectedInVain(o) ==
  /\ op[o].phase = "connecting" /\ op[o].kind = "once"
  /\ ~StillAllowed
  /\ \/ idle.live + idle.dead > 0 /\ UNCHANGED idle
     \/ idle.live + idle.dead = 0 /\ up /\ idle' = [idle EXCEPT !.live = 1]
  /\ Ended(o)
  /\ UNCHANGED circuit
  /\ Unwind(o, FALSE)
  /\ UNCHANGED <<asked, up>>

\* query() on a checked out client; refused while the circuit is open or the client broken.
QueryHeld(q) ==
  /\ op[q].phase = "resting"
  /\ StillAllowed /\ ~op[q].broken
  /\ op' = [op EXCEPT ![q].phase = "querying"]
  /\ UNCHANGED <<circuit, timer, inFlight, follow, idle, asked, up>>

\* Where an operation goes after a query that leaves its client usable: a held client
\* stays with its owner, another one goes back to the pool.
Rest(o) ==
  IF op[o].kind = "held"
  THEN op' = [op EXCEPT ![o].phase = "resting"] /\ UNCHANGED idle
  ELSE Ended(o) /\ GiveClient(o)

QuerySucceeds(o) ==
  /\ op[o].phase = "querying" /\ ~op[o].dead
  /\ Success
  /\ Rest(o)
  /\ IF o \in Probes
     THEN timer' = FALSE /\ inFlight' = FALSE /\ follow' = FALSE
     ELSE UNCHANGED <<timer, inFlight, follow>>
  /\ UNCHANGED <<asked, up>>

\* An SQL error says nothing about the connection.
QueryRejected(o) ==
  /\ op[o].phase = "querying" /\ ~op[o].dead
  /\ UNCHANGED circuit
  /\ Rest(o)
  /\ Unwind(o, FALSE)
  /\ UNCHANGED <<asked, up>>

\* A query times out: a connectivity failure that leaves the client usable.
QueryTimesOut(o) ==
  /\ op[o].phase = "querying" /\ ~op[o].dead
  /\ ~up
  /\ Failure
  /\ Unwind(o, TRUE)
  /\ Rest(o)
  /\ UNCHANGED <<asked, up>>

\* Variant: the failure of a query counts although the client's error event did.
CountedAnyway(o) == op[o].phase # "idle"
Uncounted(o) == ~op[o].broken

Lost(o, phase) == [op EXCEPT ![o].phase = phase, ![o].broken = TRUE, ![o].lost = @ + 1]

\* The connection is gone under a query: counted unless the error event came first.
\* The client of a single query is discarded at once.
QueryBreaks(o) ==
  /\ op[o].phase = "querying" /\ op[o].dead
  /\ IF Uncounted(o) THEN Failure ELSE UNCHANGED circuit
  /\ Unwind(o, Uncounted(o))
  /\ CASE op[o].kind = "once" -> Ended(o)
       [] op[o].kind = "held" /\ Uncounted(o) -> op' = Lost(o, "resting")
       [] OTHER -> op' = [op EXCEPT ![o].phase = "resting"]
  /\ UNCHANGED <<idle, asked, up>>

\* A checked out client emits an error, under a query or between two.
ClientError(o) ==
  /\ op[o].phase \in {"resting", "querying"} /\ op[o].dead
  /\ Uncounted(o)
  /\ Failure
  /\ timer' = ScheduledAfter(TRUE)
  /\ op' = Lost(o, op[o].phase)
  /\ UNCHANGED <<inFlight, follow, idle, asked, up>>

\* The owner releases its client.
Release(q) ==
  /\ op[q].phase = "resting"
  /\ Ended(q)
  /\ GiveClient(q)
  /\ UNCHANGED <<circuit, timer, inFlight, follow, asked, up>>

\* recordDatabasePoolError(): the pool drops an idle client that emits an error.
IdleClientError ==
  /\ idle.dead > 0
  /\ idle' = [idle EXCEPT !.dead = @ - 1]
  /\ Failure
  /\ timer' = ScheduledAfter(TRUE)
  /\ UNCHANGED <<inFlight, follow, op, asked, up>>

------------------------------------------------------------------------------
(* probeDatabaseRecovery() and the timer.                                    *)

\* Variant: a second probe does not join the one in flight.
ProbeWanted == state \in {"circuit_open", "degraded"}
ProbeFree == ~inFlight /\ state \in {"circuit_open", "degraded"}

\* beforeOperation('recovery_probe') refuses a probe that comes early.
\* Variant: it refuses every operation.
AlwaysEarly == state = "circuit_open"
Early == state = "circuit_open" /\ ~due

StartProbe(p) ==
  /\ op[p].phase = "idle"
  /\ ProbeFree /\ ~Early
  /\ state' = IF state = "circuit_open" THEN "recovering" ELSE state
  /\ op' = [op EXCEPT ![p].phase = "connecting"]
  /\ inFlight' = TRUE
  /\ UNCHANGED <<failures, due, idle, up>>

\* Startup and GET /health ask for a probe; one that is refused leaves no trace.
AskedProbe(p) ==
  /\ asked < MaxAsked
  /\ asked' = asked + 1
  /\ StartProbe(p)
  /\ UNCHANGED <<timer, follow>>

TimerProbes(p) ==
  /\ timer
  /\ timer' = FALSE
  /\ follow' = TRUE
  /\ StartProbe(p)
  /\ UNCHANGED asked

\* The timer fires beside a probe in flight, whose end its callback then awaits.
TimerJoins ==
  /\ timer /\ inFlight
  /\ timer' = FALSE
  /\ follow' = TRUE
  /\ UNCHANGED <<circuit, inFlight, op, idle, asked, up>>

\* The timer fires early, when its probe is refused and the timer set again,
\* or when the circuit is not open any more.
TimerIdles ==
  /\ timer /\ ~inFlight
  /\ ~ProbeFree \/ Early
  /\ timer' = Early
  /\ UNCHANGED <<circuit, inFlight, follow, op, idle, asked, up>>

DelayPasses ==
  /\ ~due
  /\ due' = TRUE
  /\ UNCHANGED <<state, failures, timer, inFlight, follow, op, idle, asked, up>>

\* The database goes down with every connection, or is overloaded, or is back.
Outage ==
  /\ up /\ up' = FALSE
  /\ idle' = [live |-> 0, dead |-> idle.live + idle.dead]
  /\ op' = [o \in Operations |->
              [op[o] EXCEPT !.dead = op[o].phase \in {"resting", "querying"}]]
  /\ UNCHANGED <<circuit, timer, inFlight, follow, asked>>

Overload == up /\ up' = FALSE /\ UNCHANGED <<circuit, timer, inFlight, follow, op, idle, asked>>
Restored == ~up /\ up' = TRUE /\ UNCHANGED <<circuit, timer, inFlight, follow, op, idle, asked>>

OperationEnds(o) ==
  \/ ConnectFails(o) \/ CheckOut(o) \/ Connected(o) \/ ConnectedInVain(o)
  \/ QuerySucceeds(o) \/ QueryRejected(o) \/ QueryTimesOut(o) \/ QueryBreaks(o)

TimerFires == TimerJoins \/ TimerIdles \/ \E p \in Probes : TimerProbes(p)

Next ==
  \/ \E q \in Queries, kind \in {"once", "held"} : Begin(q, kind)
  \/ \E q \in Queries : QueryHeld(q) \/ Release(q)
  \/ \E o \in Operations : OperationEnds(o) \/ ClientError(o)
  \/ IdleClientError
  \/ \E p \in Probes : AskedProbe(p)
  \/ TimerFires
  \/ DelayPasses
  \/ Outage \/ Overload \/ Restored

Spec == Init /\ [][Next]_vars

(***************************************************************************)
(* Operations end (the connection timeout, the server or the TCP stack     *)
(* ends them), owners release their clients, and timers fire.  Nobody has  *)
(* to call /health, and nothing obliges ordinary traffic to come.          *)
(***************************************************************************)
FairSpec ==
  /\ Spec
  /\ \A o \in Operations : WF_vars(OperationEnds(o))
  /\ \A q \in Queries : WF_vars(Release(q))
  /\ WF_vars(TimerFires) /\ WF_vars(DelayPasses)

------------------------------------------------------------------------------
\* Fifty callers, the timer and startup share one probe: the recovering database sees
\* one connection attempt at a time (recoveryProbeInFlight).
OneProbe == Cardinality({p \in Probes : op[p].phase # "idle"}) <= 1

\* The loss of a connection is one failure to the circuit, though it is reported by the
\* client's error event and by the query under way (recordCheckedOutClientFailure).
LossCountedOnce == \A o \in Operations : op[o].lost <= 1

\* No statement of ordinary traffic is sent while the circuit is open, not even on a
\* connection that was asked for, or checked out, before it opened.
FailsFast ==
  [][\A q \in Queries : op[q].phase # "querying" /\ op'[q].phase = "querying"
                        => state # "circuit_open"]_vars

\* Until somebody asks for a probe, an open circuit has its timer running or a probe of
\* its timer in flight (scheduleRecoveryProbe, lines 140 and 263-265).
OpenIsScheduled == state = "circuit_open" /\ asked = 0 => timer \/ inFlight

\* Recovery is supervised: at most one probe is at work, and there is always one to come.
RecoverySupervised == OneProbe /\ OpenIsScheduled

\* Once the database stays up, the circuit does not stay open, if only the timer probes.
RecoversByTimer == <>[]up /\ [](asked = 0) => <>[](state # "circuit_open")

\* "recovery does not depend on a visitor calling /health"
\* (docs/reviews/visitor-qualification-2026-11-03.md:40), whoever probed before.
RecoversUnattended == <>[]up => <>[](state # "circuit_open")
==============================================================================
