------------------------- MODULE DatabaseCircuitProofs -------------------------
(***************************************************************************)
(* Proofs about the circuit breaker, for any number of operations and of   *)
(* would-be probes and any thresholds.                                     *)
(*                                                                         *)
(* A probe at work is the one recoveryProbeInFlight stands for, and until  *)
(* somebody else asks for one it is the timer's, whose callback is going   *)
(* to look at the circuit when it ends.                                    *)
(***************************************************************************)
EXTENDS DatabaseCircuit, FiniteSetTheorems, TLAPS

\* Operations that hold a client, and all clients of the pool.
Held == {o \in Operations : op[o].phase \in {"resting", "querying"}}
PoolFits == idle.live + idle.dead + Cardinality(Held) <= Cardinality(Operations)

\* The circuit counts a loss when the process learns of it.
LossKnown == \A o \in Operations : op[o].lost = IF op[o].broken THEN 1 ELSE 0

AtWork(p) == op[p].phase # "idle"
ProbesSingle ==
  /\ \A p \in Probes : op[p].kind = "once" /\ (AtWork(p) => inFlight)
  /\ \A p, r \in Probes : AtWork(p) /\ AtWork(r) => p = r
  /\ inFlight /\ asked = 0 => follow

CircuitInv == CircuitTypeOK /\ PoolFits /\ LossKnown /\ ProbesSingle /\ OpenIsScheduled

-------------------------------------------------------------------------------
(* The clients of the pool *)

Holds(x) == IF x.phase \in {"resting", "querying"} THEN 1 ELSE 0
Clients == idle.live + idle.dead

LEMMA OperationsFinite ==
  /\ IsFiniteSet(Operations) /\ Cardinality(Operations) \in Nat
  /\ \A S \in SUBSET Operations : IsFiniteSet(S) /\ Cardinality(S) \in Nat
<1>1. IsFiniteSet(Operations)
  BY CircuitAssumption, FS_Union DEF Operations
<1> QED BY <1>1, FS_CardinalityType, FS_Subset

\* One operation moves, and with it at most the client it took or gives back.
LEMMA PoolMoves ==
  ASSUME op \in [Operations -> Operation], idle \in [live : Nat, dead : Nat], PoolFits,
         NEW o \in Operations, NEW x \in Operation, op' = [op EXCEPT ![o] = x],
         idle' \in [live : Nat, dead : Nat],
         \/ Clients' + Holds(x) <= Clients + Holds(op[o])
         \/ Clients = 0 /\ Clients' + Holds(x) <= 1
  PROVE  /\ PoolFits'
         /\ idle' \in [live : 0 .. Cardinality(Operations), dead : 0 .. Cardinality(Operations)]
<1> DEFINE S == Held \ {o}
<1>1. /\ Held = IF Holds(op[o]) = 1 THEN S \cup {o} ELSE S
      /\ Held' = IF Holds(x) = 1 THEN S \cup {o} ELSE S
  BY DEF Held, Holds
<1>2. S \in SUBSET Operations /\ o \notin S
  BY DEF Held
<1> HIDE DEF S
<1>3. IsFiniteSet(S) /\ Cardinality(S) \in Nat /\ Cardinality(Operations) \in Nat
  BY <1>2, OperationsFinite
<1>4. Cardinality(S \cup {o}) = Cardinality(S) + 1
  BY <1>2, <1>3, FS_AddElement
<1>5. Cardinality(S) + 1 <= Cardinality(Operations)
  <2>1. S \cup {o} \subseteq Operations
    BY <1>2
  <2>2. Cardinality(S \cup {o}) <= Cardinality(Operations)
    BY <2>1, OperationsFinite, FS_Subset
  <2> QED BY <1>4, <2>2
<1>6. Cardinality(Held) = Cardinality(S) + Holds(op[o]) /\ Cardinality(Held') = Cardinality(S) + Holds(x)
  BY <1>1, <1>3, <1>4 DEF Holds
<1>7. Holds(x) \in {0, 1} /\ Holds(op[o]) \in {0, 1}
  BY DEF Holds
<1>8. Clients' + Cardinality(Held') <= Cardinality(Operations)
  <2>1. Clients \in Nat /\ Clients' \in Nat /\ Clients + Cardinality(Held) <= Cardinality(Operations)
    BY DEF Clients, PoolFits
  <2> QED BY <1>3, <1>5, <1>6, <1>7, <2>1
<1>9. Cardinality(Held') \in Nat
  BY <1>3, <1>6, <1>7
<1> QED BY <1>3, <1>8, <1>9 DEF PoolFits, Clients

-------------------------------------------------------------------------------
(* One operation at a time *)

ProcessTypeOK ==
  /\ state \in CircuitState /\ failures \in 0 .. MaxFailures
  /\ due \in BOOLEAN /\ timer \in BOOLEAN /\ inFlight \in BOOLEAN /\ follow \in BOOLEAN

\* The step takes at most one client for operation o, which becomes x.
Traded(o, x) ==
  /\ idle' \in [live : Nat, dead : Nat]
  /\ \/ Clients' + Holds(x) <= Clients + Holds(op[o])
     \/ Clients = 0 /\ Clients' + Holds(x) <= 1

\* The probe in flight ends with its operation, and only then.
FlightEnds(o, over) ==
  IF o \in Probes /\ over THEN ~inFlight' ELSE UNCHANGED <<inFlight, follow>>

LossIs(x) == x.lost = IF x.broken THEN 1 ELSE 0

LEMMA OperationMoves ==
  ASSUME CircuitInv, NEW o \in Operations, NEW x \in Operation, op' = [op EXCEPT ![o] = x],
         Traded(o, x), LossIs(x), ProcessTypeOK', UNCHANGED <<asked, up>>,
         o \in Probes => x.kind = "once" /\ AtWork(o),
         FlightEnds(o, x.phase = "idle"), OpenIsScheduled'
  PROVE  CircuitInv'
<1>1. op'[o] = x /\ \A q \in Operations \ {o} : op'[q] = op[q]
  BY DEF CircuitInv, CircuitTypeOK
<1>2. idle \in [live : Nat, dead : Nat]
  BY OperationsFinite DEF CircuitInv, CircuitTypeOK
<1>3. PoolFits' /\ idle' \in [live : 0 .. Cardinality(Operations), dead : 0 .. Cardinality(Operations)]
  BY <1>2, PoolMoves DEF CircuitInv, CircuitTypeOK, Traded
<1>4. CircuitTypeOK'
  BY <1>3 DEF CircuitInv, CircuitTypeOK, ProcessTypeOK
<1>5. LossKnown'
  BY <1>1 DEF CircuitInv, LossKnown, LossIs
<1>6. Probes \subseteq Operations
  BY DEF Operations
<1>7. ProbesSingle'
  <2>1. CASE o \in Probes /\ x.phase = "idle"
    <3>1. \A p \in Probes : ~AtWork(p)'
      BY <1>1, <1>6, <2>1 DEF CircuitInv, ProbesSingle, AtWork
    <3>2. \A p \in Probes : op'[p].kind = "once"
      BY <1>1, <1>6 DEF CircuitInv, ProbesSingle
    <3> QED BY <2>1, <3>1, <3>2 DEF ProbesSingle, FlightEnds, AtWork
  <2>2. CASE ~(o \in Probes /\ x.phase = "idle")
    BY <1>1, <1>6, <2>2 DEF CircuitInv, ProbesSingle, AtWork, FlightEnds
  <2> QED BY <2>1, <2>2
<1> QED BY <1>3, <1>4, <1>5, <1>7 DEF CircuitInv

\* A failure that opens the circuit leaves a timer, unless a probe is in flight.
LEMMA FailureTyped ==
  ASSUME CircuitTypeOK, Failure
  PROVE  state' \in CircuitState /\ failures' \in 0 .. MaxFailures /\ due' \in BOOLEAN
         /\ (state' = "circuit_open" => Opens)
  BY CircuitAssumption DEF CircuitTypeOK, Failure, Capped, CircuitState

LEMMA SuccessTyped ==
  ASSUME Success
  PROVE  state' \in CircuitState /\ failures' \in 0 .. MaxFailures /\ due' \in BOOLEAN /\ state' # "circuit_open"
  BY CircuitAssumption DEF Success, CircuitState

\* However an operation ends, what it leaves is supervised.
LEMMA UnwindKeeps ==
  ASSUME CircuitInv, NEW o \in Operations, NEW fails \in BOOLEAN, Unwind(o, fails), UNCHANGED asked,
         IF fails THEN Failure ELSE UNCHANGED circuit, o \in Probes => AtWork(o)
  PROVE  /\ OpenIsScheduled' /\ ProcessTypeOK'
         /\ FlightEnds(o, TRUE)
<1>1. /\ state' \in CircuitState /\ failures' \in 0 .. MaxFailures /\ due' \in BOOLEAN
      /\ fails /\ state' = "circuit_open" => Opens
      /\ ~fails => state' = state
  BY FailureTyped DEF CircuitInv, circuit, CircuitTypeOK
<1>2. CASE o \in Probes
  <2>1. inFlight /\ (asked = 0 => follow)
    BY <1>2 DEF CircuitInv, ProbesSingle
  <2>2. timer' \in BOOLEAN /\ inFlight' = FALSE /\ follow' = FALSE
        /\ (follow /\ state' = "circuit_open" => timer')
    BY <1>2 DEF Unwind, FollowUp, ScheduledAfter
  <2> QED BY <1>1, <1>2, <2>1, <2>2 DEF OpenIsScheduled, ProcessTypeOK, FlightEnds
<1>3. CASE o \notin Probes
  <2>1. timer' = (timer \/ (fails /\ Opens /\ ~inFlight)) /\ UNCHANGED <<inFlight, follow>>
    BY <1>3 DEF Unwind, ScheduledAfter
  <2> QED BY <1>1, <1>3, <2>1 DEF CircuitInv, CircuitTypeOK, OpenIsScheduled, ProcessTypeOK, FlightEnds
<1> QED BY <1>2, <1>3

-------------------------------------------------------------------------------
(* The operations *)

\* What the invariant says of an operation.
LEMMA OperationIs ==
  ASSUME CircuitInv, NEW o \in Operations
  PROVE  /\ op \in [Operations -> Operation] /\ op[o] \in Operation /\ LossIs(op[o])
         /\ o \in Probes => op[o].kind = "once" /\ (AtWork(o) => inFlight)
         /\ idle \in [live : Nat, dead : Nat] /\ ProcessTypeOK /\ OpenIsScheduled
  BY OperationsFinite DEF CircuitInv, CircuitTypeOK, LossKnown, ProbesSingle, ProcessTypeOK, LossIs

LEMMA OverIs == Over \in Operation /\ Over.phase = "idle" /\ LossIs(Over) /\ Over.kind = "once" /\ Holds(Over) = 0
  BY DEF Over, Operation, LossIs, Holds

LEMMA QueriesAre == ASSUME NEW q \in Queries PROVE q \in Operations /\ q \notin Probes
  BY CircuitAssumption DEF Operations

\* A step that leaves the circuit and its supervision alone.
LEMMA Unsupervised ==
  ASSUME CircuitInv, UNCHANGED <<circuit, timer, inFlight, follow, asked>>
  PROVE  ProcessTypeOK' /\ OpenIsScheduled' /\ \A o \in Operations : FlightEnds(o, FALSE)
  BY DEF CircuitInv, CircuitTypeOK, ProcessTypeOK, OpenIsScheduled, circuit, FlightEnds

\* A step of an operation that begins or goes on, and leaves the pool alone.
LEMMA PoolAlone ==
  ASSUME CircuitInv, NEW o \in Operations, NEW x \in Operation, UNCHANGED idle, Holds(x) = Holds(op[o])
  PROVE  Traded(o, x)
<1>1. idle \in [live : Nat, dead : Nat] /\ Holds(x) \in Nat /\ Holds(op[o]) \in Nat
  BY OperationIs DEF Holds
<1>2. Clients' = Clients /\ Clients \in Nat
  BY <1>1 DEF Clients
<1> QED BY <1>1, <1>2 DEF Traded

LEMMA BeginKeeps ==
  ASSUME CircuitInv, NEW q \in Queries, NEW kind \in {"once", "held"}, Begin(q, kind) PROVE CircuitInv'
<1>1. op[q].phase = "idle" /\ UNCHANGED <<circuit, timer, inFlight, follow, idle, asked, up>>
  BY DEF Begin
<1>2. q \in Operations /\ q \notin Probes
  BY QueriesAre
<1>3. op \in [Operations -> Operation] /\ op[q] \in Operation /\ LossIs(op[q])
  BY <1>2, OperationIs
<1>4. PICK x \in Operation : x = [op[q] EXCEPT !.phase = "connecting", !.kind = kind]
  BY <1>3 DEF Operation
<1>5. x.phase = "connecting" /\ op' = [op EXCEPT ![q] = x] /\ LossIs(x)
  BY <1>3, <1>4 DEF Begin, Operation, LossIs
<1>6. Traded(q, x)
  <2>1. Holds(x) = Holds(op[q])
    BY <1>1, <1>5 DEF Holds
  <2> QED BY <1>1, <1>2, <2>1, PoolAlone
<1>7. ProcessTypeOK' /\ OpenIsScheduled' /\ FlightEnds(q, x.phase = "idle")
  BY <1>1, <1>2, <1>5, Unsupervised DEF FlightEnds
<1> QED BY <1>1, <1>2, <1>5, <1>6, <1>7, OperationMoves

LEMMA QueryHeldKeeps ==
  ASSUME CircuitInv, NEW q \in Queries, QueryHeld(q) PROVE CircuitInv'
<1>1. op[q].phase = "resting" /\ UNCHANGED <<circuit, timer, inFlight, follow, idle, asked, up>>
  BY DEF QueryHeld
<1>2. q \in Operations /\ q \notin Probes
  BY QueriesAre
<1>3. op \in [Operations -> Operation] /\ op[q] \in Operation /\ LossIs(op[q])
  BY <1>2, OperationIs
<1>4. PICK x \in Operation : x = [op[q] EXCEPT !.phase = "querying"]
  BY <1>3 DEF Operation
<1>5. x.phase = "querying" /\ op' = [op EXCEPT ![q] = x] /\ LossIs(x)
  BY <1>3, <1>4 DEF QueryHeld, Operation, LossIs
<1>6. Traded(q, x)
  <2>1. Holds(x) = Holds(op[q])
    BY <1>1, <1>5 DEF Holds
  <2> QED BY <1>1, <1>2, <2>1, PoolAlone
<1>7. ProcessTypeOK' /\ OpenIsScheduled' /\ FlightEnds(q, x.phase = "idle")
  BY <1>1, <1>2, <1>5, Unsupervised DEF FlightEnds
<1> QED BY <1>1, <1>2, <1>5, <1>6, <1>7, OperationMoves

\* A client goes back to the pool, or is discarded.
LEMMA GiveBack ==
  ASSUME CircuitInv, NEW o \in Operations, op[o].phase \in {"resting", "querying"}, GiveClient(o)
  PROVE  Traded(o, Over)
<1>1. idle \in [live : Nat, dead : Nat] /\ Holds(op[o]) = 1 /\ Holds(Over) = 0
  BY OperationIs, OverIs DEF Holds
<1>2. idle' \in [live : Nat, dead : Nat] /\ Clients' <= Clients + 1 /\ Clients \in Nat /\ Clients' \in Nat
  BY <1>1 DEF GiveClient, Clients
<1>3. Clients' + Holds(Over) <= Clients + Holds(op[o])
  BY <1>1, <1>2 DEF Clients
<1> QED BY <1>2, <1>3 DEF Traded

LEMMA ReleaseKeeps ==
  ASSUME CircuitInv, NEW q \in Queries, Release(q) PROVE CircuitInv'
<1>1. /\ op[q].phase = "resting" /\ GiveClient(q) /\ op' = [op EXCEPT ![q] = Over]
      /\ UNCHANGED <<circuit, timer, inFlight, follow, asked, up>>
  BY DEF Release, Ended
<1>2. q \in Operations /\ q \notin Probes
  BY QueriesAre
<1>3. Traded(q, Over)
  BY <1>1, <1>2, GiveBack
<1>4. ProcessTypeOK' /\ OpenIsScheduled' /\ FlightEnds(q, Over.phase = "idle")
  BY <1>1, <1>2, Unsupervised DEF FlightEnds
<1> QED BY <1>1, <1>2, <1>3, <1>4, OverIs, OperationMoves

\* A client is taken from the pool, or opened.
LEMMA TakeOne ==
  ASSUME CircuitInv, NEW o \in Operations, NEW x \in Operation, NEW dead \in BOOLEAN, TakeClient(dead),
         Holds(op[o]) = 0, Holds(x) = 1
  PROVE  Traded(o, x)
<1>1. idle \in [live : Nat, dead : Nat]
  BY OperationIs
<1> QED BY <1>1 DEF TakeClient, Clients, Traded

LEMMA ConnectsKeep ==
  ASSUME CircuitInv, NEW o \in Operations, CheckOut(o) \/ Connected(o) PROVE CircuitInv'
<1>1. PICK dead \in BOOLEAN : /\ op[o].phase = "connecting" /\ TakeClient(dead)
                              /\ \/ op[o].kind = "held" /\ op' = [op EXCEPT ![o].phase = "resting", ![o].dead = dead]
                                 \/ op[o].kind = "once" /\ op' = [op EXCEPT ![o].phase = "querying", ![o].dead = dead]
  BY DEF CheckOut, Connected
<1>2. PICK phase \in {"resting", "querying"} :
        op' = [op EXCEPT ![o].phase = phase, ![o].dead = dead]
  BY <1>1
<1>3. op \in [Operations -> Operation] /\ op[o] \in Operation /\ LossIs(op[o])
  BY OperationIs
<1>4. PICK x \in Operation : x = [op[o] EXCEPT !.phase = phase, !.dead = dead]
  BY <1>3 DEF Operation
<1>5. x.phase = phase /\ op' = [op EXCEPT ![o] = x] /\ x.kind = op[o].kind /\ LossIs(x)
  BY <1>2, <1>3, <1>4 DEF Operation, LossIs
<1>6. Holds(x) = 1 /\ Holds(op[o]) = 0
  BY <1>1, <1>5 DEF Holds
<1>7. Traded(o, x)
  BY <1>1, <1>6, TakeOne
<1>8. UNCHANGED <<timer, inFlight, follow, asked, up>>
  BY DEF CheckOut, Connected
<1>9. ProcessTypeOK' /\ OpenIsScheduled'
  <2>1. CASE CheckOut(o)
    <3>1. state' \in CircuitState /\ failures' \in 0 .. MaxFailures /\ due' \in BOOLEAN /\ state' # "circuit_open"
      BY <2>1, SuccessTyped DEF CheckOut
    <3> QED BY <1>8, <3>1 DEF CircuitInv, CircuitTypeOK, ProcessTypeOK, OpenIsScheduled
  <2>2. CASE Connected(o)
    BY <1>8, <2>2, Unsupervised DEF Connected
  <2> QED BY <2>1, <2>2
<1>10. o \in Probes => x.kind = "once" /\ AtWork(o)
  BY <1>1, <1>5, OperationIs DEF AtWork
<1>11. FlightEnds(o, x.phase = "idle")
  BY <1>5, <1>8 DEF FlightEnds
<1> QED BY <1>5, <1>7, <1>8, <1>9, <1>10, <1>11, OperationMoves

\* An operation that is over: its client is accounted for, its end was supervised.
LEMMA OverKeeps ==
  ASSUME CircuitInv, NEW o \in Operations, op' = [op EXCEPT ![o] = Over], AtWork(o), Traded(o, Over),
         UNCHANGED <<asked, up>>, OpenIsScheduled', ProcessTypeOK', FlightEnds(o, TRUE)
  PROVE  CircuitInv'
<1>1. FlightEnds(o, Over.phase = "idle")
  BY OverIs DEF FlightEnds
<1> QED BY <1>1, OverIs, OperationMoves

LEMMA ConnectFailsKeeps ==
  ASSUME CircuitInv, NEW o \in Operations, ConnectFails(o) PROVE CircuitInv'
<1>1. /\ op[o].phase = "connecting" /\ Failure /\ Unwind(o, TRUE) /\ op' = [op EXCEPT ![o] = Over]
      /\ UNCHANGED <<idle, asked, up>>
  BY DEF ConnectFails, Ended
<1>2. AtWork(o)
  BY <1>1 DEF AtWork
<1>3. OpenIsScheduled' /\ ProcessTypeOK' /\ FlightEnds(o, TRUE)
  BY <1>1, <1>2, UnwindKeeps
<1>4. Traded(o, Over)
  <2>1. Holds(Over) = Holds(op[o])
    BY <1>1, OverIs DEF Holds
  <2> QED BY <1>1, <2>1, OverIs, PoolAlone
<1> QED BY <1>1, <1>2, <1>3, <1>4, OverKeeps

LEMMA ConnectedInVainKeeps ==
  ASSUME CircuitInv, NEW o \in Operations, ConnectedInVain(o) PROVE CircuitInv'
<1>1. /\ op[o].phase = "connecting" /\ UNCHANGED circuit /\ Unwind(o, FALSE) /\ op' = [op EXCEPT ![o] = Over]
      /\ UNCHANGED <<asked, up>>
      /\ UNCHANGED idle \/ (idle.live + idle.dead = 0 /\ idle' = [idle EXCEPT !.live = 1])
  BY DEF ConnectedInVain, Ended
<1>2. AtWork(o)
  BY <1>1 DEF AtWork
<1>3. OpenIsScheduled' /\ ProcessTypeOK' /\ FlightEnds(o, TRUE)
  BY <1>1, <1>2, UnwindKeeps
<1>4. Traded(o, Over)
  <2>1. Holds(Over) = 0 /\ Holds(op[o]) = 0
    BY <1>1, OverIs DEF Holds
  <2>2. idle \in [live : Nat, dead : Nat]
    BY OperationIs
  <2>3. CASE UNCHANGED idle
    BY <2>1, <2>3, OverIs, PoolAlone
  <2>4. CASE idle.live + idle.dead = 0 /\ idle' = [idle EXCEPT !.live = 1]
    <3>1. idle' \in [live : Nat, dead : Nat] /\ idle'.live = 1 /\ idle'.dead = 0
      BY <2>2, <2>4
    <3> QED BY <2>1, <2>4, <3>1 DEF Traded, Clients
  <2> QED BY <1>1, <2>3, <2>4
<1> QED BY <1>1, <1>2, <1>3, <1>4, OverKeeps

\* After a query the client is where its owner has it, or back in the pool.
LEMMA RestKeeps ==
  ASSUME CircuitInv, NEW o \in Operations, op[o].phase = "querying", Rest(o), UNCHANGED <<asked, up>>,
         OpenIsScheduled', ProcessTypeOK', FlightEnds(o, TRUE)
  PROVE  CircuitInv'
<1>1. AtWork(o)
  BY DEF AtWork
<1>2. CASE op[o].kind = "held"
  <2>1. o \notin Probes
    BY <1>1, <1>2, OperationIs
  <2>2. op \in [Operations -> Operation] /\ op[o] \in Operation /\ LossIs(op[o])
    BY OperationIs
  <2>3. PICK x \in Operation : x = [op[o] EXCEPT !.phase = "resting"]
    BY <2>2 DEF Operation
  <2>4. x.phase = "resting" /\ op' = [op EXCEPT ![o] = x] /\ LossIs(x) /\ UNCHANGED idle
    BY <1>2, <2>2, <2>3 DEF Rest, Operation, LossIs
  <2>5. Traded(o, x)
    <3>1. Holds(x) = Holds(op[o])
      BY <2>4 DEF Holds
    <3> QED BY <2>4, <3>1, PoolAlone
  <2>6. FlightEnds(o, x.phase = "idle")
    BY <2>1 DEF FlightEnds
  <2> QED BY <2>1, <2>4, <2>5, <2>6, OperationMoves
<1>3. CASE op[o].kind # "held"
  <2>1. op' = [op EXCEPT ![o] = Over] /\ GiveClient(o)
    BY <1>3 DEF Rest, Ended
  <2>2. Traded(o, Over)
    BY <2>1, GiveBack
  <2> QED BY <1>1, <2>1, <2>2, OverKeeps
<1> QED BY <1>2, <1>3

LEMMA QueriesEndKeeps ==
  ASSUME CircuitInv, NEW o \in Operations, QuerySucceeds(o) \/ QueryRejected(o) \/ QueryTimesOut(o)
  PROVE  CircuitInv'
<1>1. op[o].phase = "querying" /\ Rest(o) /\ UNCHANGED <<asked, up>> /\ AtWork(o)
  BY DEF QuerySucceeds, QueryRejected, QueryTimesOut, AtWork
<1>2. CASE QuerySucceeds(o)
  <2>1. state' \in CircuitState /\ failures' \in 0 .. MaxFailures /\ due' \in BOOLEAN /\ state' # "circuit_open"
    BY <1>2, SuccessTyped DEF QuerySucceeds
  <2>2. timer' \in BOOLEAN /\ inFlight' \in BOOLEAN /\ follow' \in BOOLEAN /\ FlightEnds(o, TRUE)
    BY <1>2 DEF QuerySucceeds, CircuitInv, CircuitTypeOK, FlightEnds
  <2>3. OpenIsScheduled' /\ ProcessTypeOK'
    BY <2>1, <2>2 DEF OpenIsScheduled, ProcessTypeOK
  <2> QED BY <1>1, <2>2, <2>3, RestKeeps
<1>3. CASE QueryRejected(o)
  BY <1>1, <1>3, UnwindKeeps, RestKeeps DEF QueryRejected
<1>4. CASE QueryTimesOut(o)
  BY <1>1, <1>4, UnwindKeeps, RestKeeps DEF QueryTimesOut
<1> QED BY <1>2, <1>3, <1>4

LEMMA LostOne ==
  ASSUME NEW r \in Operation
  PROVE  /\ [r EXCEPT !.broken = TRUE, !.lost = 1] \in Operation
         /\ [r EXCEPT !.phase = "resting", !.broken = TRUE, !.lost = 1] \in Operation
<1>1. 1 \in 0 .. 2
  OBVIOUS
<1> DEFINE Losses == 0 .. 2
<1>2. Operation = [kind : {"once", "held"}, phase : {"idle", "connecting", "resting", "querying"},
                   dead : BOOLEAN, broken : BOOLEAN, lost : Losses]
  BY DEF Operation
<1> HIDE DEF Losses
<1>3. 1 \in Losses
  BY <1>1 DEF Losses
<1> QED BY <1>2, <1>3

\* A connection lost under a query.
LEMMA QueryBreaksKeeps ==
  ASSUME CircuitInv, NEW o \in Operations, QueryBreaks(o) PROVE CircuitInv'
<1>1. op[o].phase = "querying" /\ AtWork(o) /\ UNCHANGED <<idle, asked, up>>
  BY DEF QueryBreaks, AtWork
<1>2. OpenIsScheduled' /\ ProcessTypeOK' /\ FlightEnds(o, TRUE)
  <2>1. PICK fails \in BOOLEAN : fails = Uncounted(o)
    BY DEF Uncounted
  <2>2. Unwind(o, fails) /\ IF fails THEN Failure ELSE UNCHANGED circuit
    BY <2>1 DEF QueryBreaks
  <2> QED BY <1>1, <2>2, UnwindKeeps
<1>3. op \in [Operations -> Operation] /\ op[o] \in Operation /\ LossIs(op[o])
  BY OperationIs
<1>4. CASE op[o].kind = "once"
  <2>1. op' = [op EXCEPT ![o] = Over]
    BY <1>4 DEF QueryBreaks, Ended
  <2>2. Traded(o, Over)
    <3>1. idle \in [live : Nat, dead : Nat] /\ Holds(op[o]) = 1 /\ Holds(Over) = 0
      BY <1>1, OperationIs, OverIs DEF Holds
    <3> QED BY <1>1, <3>1 DEF Traded, Clients
  <2> QED BY <1>1, <1>2, <2>1, <2>2, OverKeeps
<1>5. CASE op[o].kind = "held"
  <2>1. o \notin Probes
    BY <1>1, <1>5, OperationIs
  <2>2. PICK x \in Operation : x.phase = "resting" /\ op' = [op EXCEPT ![o] = x] /\ LossIs(x)
    <3>1. CASE Uncounted(o)
      <4>1. op[o].lost = 0
        BY <1>3, <3>1 DEF Uncounted, LossIs
      <4>2. PICK x \in Operation : x = [op[o] EXCEPT !.phase = "resting", !.broken = TRUE, !.lost = 1]
        BY <1>3, LostOne
      <4>3. op' = [op EXCEPT ![o] = x]
        BY <1>3, <1>5, <3>1, <4>2 DEF QueryBreaks, Lost, Operation
      <4>4. x.phase = "resting" /\ LossIs(x)
        BY <1>3, <4>1, <4>2 DEF LossIs, Operation
      <4> QED BY <4>3, <4>4
    <3>2. CASE ~Uncounted(o)
      <4>1. PICK x \in Operation : x = [op[o] EXCEPT !.phase = "resting"]
        BY <1>3 DEF Operation
      <4>2. op' = [op EXCEPT ![o] = x] /\ x.phase = "resting" /\ LossIs(x)
        BY <1>3, <1>5, <3>2, <4>1 DEF QueryBreaks, LossIs, Operation
      <4> QED BY <4>2
    <3> QED BY <3>1, <3>2
  <2>3. Traded(o, x)
    <3>1. Holds(x) = Holds(op[o])
      BY <1>1, <2>2 DEF Holds
    <3> QED BY <1>1, <3>1, PoolAlone
  <2>4. FlightEnds(o, x.phase = "idle")
    BY <1>2, <2>1 DEF FlightEnds
  <2> QED BY <1>1, <1>2, <2>1, <2>2, <2>3, <2>4, OperationMoves
<1> QED BY <1>3, <1>4, <1>5 DEF Operation

\* A failure that no operation's end reports sets the timer itself.
LEMMA FailureKeeps ==
  ASSUME CircuitInv, Failure, timer' = ScheduledAfter(TRUE), UNCHANGED <<inFlight, follow, asked>>
  PROVE  OpenIsScheduled' /\ ProcessTypeOK'
  BY FailureTyped DEF CircuitInv, CircuitTypeOK, ScheduledAfter, OpenIsScheduled, ProcessTypeOK

LEMMA ClientErrorKeeps ==
  ASSUME CircuitInv, NEW o \in Operations, ClientError(o) PROVE CircuitInv'
<1>1. /\ op[o].phase \in {"resting", "querying"} /\ Uncounted(o) /\ AtWork(o)
      /\ UNCHANGED <<inFlight, follow, idle, asked, up>> /\ op' = Lost(o, op[o].phase)
  BY DEF ClientError, AtWork
<1>2. OpenIsScheduled' /\ ProcessTypeOK'
  BY <1>1, FailureKeeps DEF ClientError
<1>3. /\ op \in [Operations -> Operation] /\ op[o] \in Operation /\ op[o].lost = 0
      /\ o \in Probes => op[o].kind = "once"
  BY <1>1, OperationIs DEF Uncounted, LossIs
<1>4. PICK x \in Operation : x = [op[o] EXCEPT !.broken = TRUE, !.lost = 1]
  BY <1>3, LostOne
<1>5. op' = [op EXCEPT ![o] = x]
  BY <1>1, <1>3, <1>4 DEF Lost, Operation
<1>6. x.phase = op[o].phase /\ x.kind = op[o].kind /\ LossIs(x)
  BY <1>3, <1>4 DEF LossIs, Operation
<1>7. Traded(o, x)
  <2>1. Holds(x) = Holds(op[o])
    BY <1>6 DEF Holds
  <2> QED BY <1>1, <2>1, PoolAlone
<1>8. FlightEnds(o, x.phase = "idle")
  BY <1>1, <1>6 DEF FlightEnds
<1> QED BY <1>1, <1>2, <1>3, <1>5, <1>6, <1>7, <1>8, OperationMoves

LEMMA IdleClientErrorKeeps ==
  ASSUME CircuitInv, IdleClientError PROVE CircuitInv'
<1>1. idle.dead > 0 /\ idle' = [idle EXCEPT !.dead = @ - 1] /\ UNCHANGED <<inFlight, follow, op, asked, up>>
  BY DEF IdleClientError
<1>2. OpenIsScheduled' /\ ProcessTypeOK'
  BY <1>1, FailureKeeps DEF IdleClientError
<1>3. /\ idle \in [live : 0 .. Cardinality(Operations), dead : 0 .. Cardinality(Operations)]
      /\ Cardinality(Operations) \in Nat /\ PoolFits /\ Cardinality(Held) \in Nat
  BY OperationsFinite DEF CircuitInv, CircuitTypeOK, Held
<1>4. idle' \in [live : 0 .. Cardinality(Operations), dead : 0 .. Cardinality(Operations)]
  BY <1>1, <1>3
<1>5. PoolFits'
  <2>1. Held' = Held
    BY <1>1 DEF Held
  <2>2. idle'.live = idle.live /\ idle'.dead = idle.dead - 1
    BY <1>1, <1>3
  <2> QED BY <1>3, <2>1, <2>2 DEF PoolFits
<1>6. CircuitTypeOK'
  BY <1>1, <1>2, <1>4 DEF CircuitInv, CircuitTypeOK, ProcessTypeOK
<1>7. LossKnown' /\ ProbesSingle'
  BY <1>1 DEF CircuitInv, LossKnown, ProbesSingle, AtWork
<1> QED BY <1>2, <1>5, <1>6, <1>7 DEF CircuitInv

-------------------------------------------------------------------------------
(* The probe and the timer *)

\* A step of the circuit and its timer only.
LEMMA SupervisorKeeps ==
  ASSUME CircuitInv, ProcessTypeOK', UNCHANGED <<op, idle>>, asked' = asked, up' \in BOOLEAN,
         inFlight' = inFlight, follow => follow', OpenIsScheduled'
  PROVE  CircuitInv'
<1>1. CircuitTypeOK'
  BY DEF CircuitInv, CircuitTypeOK, ProcessTypeOK
<1>2. PoolFits' /\ LossKnown'
  <2>1. Held' = Held
    BY DEF Held
  <2> QED BY <2>1 DEF CircuitInv, PoolFits, LossKnown
<1>3. ProbesSingle'
  BY DEF CircuitInv, CircuitTypeOK, ProcessTypeOK, ProbesSingle, AtWork
<1> QED BY <1>1, <1>2, <1>3 DEF CircuitInv

\* The probe that starts is the only one at work, and belongs to the timer
\* until somebody else has asked for one.
LEMMA StartProbeKeeps ==
  ASSUME CircuitInv, NEW p \in Probes, StartProbe(p), asked' \in 0 .. MaxAsked, asked <= asked',
         timer' \in BOOLEAN, follow' \in BOOLEAN, asked' = 0 => follow'
  PROVE  CircuitInv'
<1>1. /\ op[p].phase = "idle" /\ ~inFlight /\ inFlight' = TRUE /\ UNCHANGED <<failures, due, idle, up>>
      /\ op' = [op EXCEPT ![p].phase = "connecting"] /\ state' \in {state, "recovering"}
  BY DEF StartProbe, ProbeFree
<1>2. p \in Operations /\ Probes \subseteq Operations
  BY DEF Operations
<1>3. op \in [Operations -> Operation] /\ op[p] \in Operation /\ idle \in [live : Nat, dead : Nat]
  BY <1>2, OperationIs
<1>4. PICK x \in Operation : x = [op[p] EXCEPT !.phase = "connecting"]
  BY <1>3 DEF Operation
<1>5. /\ op' = [op EXCEPT ![p] = x] /\ x.phase = "connecting" /\ x.kind = op[p].kind
      /\ x.lost = op[p].lost /\ x.broken = op[p].broken
  BY <1>1, <1>3, <1>4 DEF Operation
<1>6. PoolFits' /\ idle' \in [live : 0 .. Cardinality(Operations), dead : 0 .. Cardinality(Operations)]
  <2>1. Held' = Held
    BY <1>1, <1>2, <1>3, <1>5 DEF Held
  <2> QED BY <1>1, <2>1 DEF CircuitInv, CircuitTypeOK, PoolFits
<1>7. CircuitTypeOK'
  BY <1>1, <1>2, <1>5, <1>6 DEF CircuitInv, CircuitTypeOK, CircuitState
<1>8. LossKnown'
  BY <1>2, <1>3, <1>5 DEF CircuitInv, LossKnown
<1>9. \A r \in Probes : AtWork(r)' => r = p
  <2>1. \A r \in Probes : ~AtWork(r)
    BY <1>1 DEF CircuitInv, ProbesSingle
  <2> QED BY <1>2, <1>3, <1>5, <2>1 DEF AtWork
<1>10. op'[p].kind = "once"
  BY <1>2, <1>3, <1>5 DEF CircuitInv, ProbesSingle
<1>11. ProbesSingle'
  <2>1. \A r \in Probes : op'[r].kind = "once"
    BY <1>2, <1>3, <1>5, <1>10 DEF CircuitInv, ProbesSingle
  <2> QED BY <1>1, <1>9, <2>1 DEF ProbesSingle
<1> QED BY <1>1, <1>6, <1>7, <1>8, <1>11 DEF CircuitInv, OpenIsScheduled

LEMMA ProbesStartKeeps ==
  ASSUME CircuitInv, NEW p \in Probes, AskedProbe(p) \/ TimerProbes(p) PROVE CircuitInv'
<1>1. CASE AskedProbe(p)
  <2>1. asked' \in 0 .. MaxAsked /\ asked <= asked' /\ asked' # 0
    BY <1>1, CircuitAssumption DEF AskedProbe, CircuitInv, CircuitTypeOK
  <2>2. StartProbe(p) /\ timer' \in BOOLEAN /\ follow' \in BOOLEAN
    BY <1>1 DEF AskedProbe, CircuitInv, CircuitTypeOK
  <2> QED BY <2>1, <2>2, StartProbeKeeps
<1>2. CASE TimerProbes(p)
  <2>1. StartProbe(p) /\ timer' = FALSE /\ follow' = TRUE /\ asked' = asked /\ asked \in 0 .. MaxAsked
    BY <1>2 DEF TimerProbes, CircuitInv, CircuitTypeOK
  <2>2. timer' \in BOOLEAN /\ follow' \in BOOLEAN
    BY <2>1
  <2>3. asked' \in 0 .. MaxAsked /\ asked <= asked'
    BY <2>1
  <2> QED BY <2>1, <2>2, <2>3, StartProbeKeeps
<1> QED BY <1>1, <1>2

LEMMA TimerKeeps ==
  ASSUME CircuitInv, TimerJoins \/ TimerIdles \/ DelayPasses PROVE CircuitInv'
<1>1. /\ UNCHANGED <<op, idle>> /\ state' = state /\ failures' = failures
      /\ inFlight' = inFlight /\ asked' = asked /\ up' = up
  BY DEF TimerJoins, TimerIdles, DelayPasses, circuit
<1>2. timer' \in BOOLEAN /\ due' \in BOOLEAN /\ follow' \in BOOLEAN /\ (follow => follow')
  BY DEF TimerJoins, TimerIdles, DelayPasses, circuit, Early, CircuitInv, CircuitTypeOK
<1>3. OpenIsScheduled'
  <2>1. CASE TimerJoins
    BY <2>1 DEF TimerJoins, OpenIsScheduled
  <2>2. CASE TimerIdles
    BY <1>1, <2>2 DEF TimerIdles, OpenIsScheduled, Early, ProbeFree
  <2>3. CASE DelayPasses
    BY <2>3 DEF DelayPasses, OpenIsScheduled, CircuitInv
  <2> QED BY <2>1, <2>2, <2>3
<1>4. ProcessTypeOK' /\ up' \in BOOLEAN
  BY <1>1, <1>2 DEF ProcessTypeOK, CircuitInv, CircuitTypeOK
<1> QED BY <1>1, <1>2, <1>3, <1>4, SupervisorKeeps

LEMMA DatabaseKeeps ==
  ASSUME CircuitInv, Overload \/ Restored \/ UNCHANGED vars PROVE CircuitInv'
<1>1. UNCHANGED <<circuit, timer, inFlight, follow, op, idle, asked>> /\ up' \in BOOLEAN
  BY DEF Overload, Restored, vars, circuit, CircuitInv, CircuitTypeOK
<1>2. ProcessTypeOK' /\ OpenIsScheduled'
  BY <1>1, Unsupervised
<1> QED BY <1>1, <1>2, SupervisorKeeps

\* The connections die where they are: nobody gains or loses a client.
LEMMA OutageKeeps ==
  ASSUME CircuitInv, Outage PROVE CircuitInv'
<1>1. /\ UNCHANGED <<circuit, timer, inFlight, follow, asked>> /\ up' = FALSE
      /\ idle' = [live |-> 0, dead |-> idle.live + idle.dead]
      /\ op' = [o \in Operations |-> [op[o] EXCEPT !.dead = op[o].phase \in {"resting", "querying"}]]
  BY DEF Outage
<1>2. ProcessTypeOK' /\ OpenIsScheduled'
  BY <1>1, Unsupervised
<1>3. op \in [Operations -> Operation]
  BY DEF CircuitInv, CircuitTypeOK
<1>4. ASSUME NEW o \in Operations
      PROVE  /\ op'[o] \in Operation /\ op'[o].phase = op[o].phase /\ op'[o].kind = op[o].kind
             /\ op'[o].lost = op[o].lost /\ op'[o].broken = op[o].broken
  <2>1. op'[o] = [op[o] EXCEPT !.dead = op[o].phase \in {"resting", "querying"}]
    BY <1>1
  <2> DEFINE d == op[o].phase \in {"resting", "querying"}
  <2>2. d \in BOOLEAN
    OBVIOUS
  <2>3. op'[o] = [op[o] EXCEPT !.dead = d]
    BY <2>1
  <2> HIDE DEF d
  <2> QED BY <1>3, <2>2, <2>3 DEF Operation
<1>5. op' \in [Operations -> Operation]
  BY <1>1, <1>4
<1>6. Held' = Held
  BY <1>4 DEF Held
<1>7. PoolFits' /\ idle' \in [live : 0 .. Cardinality(Operations), dead : 0 .. Cardinality(Operations)]
  <2>1. /\ idle.live \in Nat /\ idle.dead \in Nat /\ idle'.live = 0 /\ idle'.dead = idle.live + idle.dead
        /\ Cardinality(Held) \in Nat /\ Cardinality(Operations) \in Nat
        /\ idle.live + idle.dead + Cardinality(Held) <= Cardinality(Operations)
    BY <1>1, OperationsFinite DEF CircuitInv, CircuitTypeOK, PoolFits, Held
  <2>2. idle'.live \in 0 .. Cardinality(Operations) /\ idle'.dead \in 0 .. Cardinality(Operations)
    BY <2>1
  <2> QED BY <1>1, <1>6, <2>1, <2>2 DEF PoolFits
<1>8. CircuitTypeOK'
  BY <1>1, <1>2, <1>5, <1>7 DEF CircuitTypeOK, ProcessTypeOK, CircuitInv
<1>9. LossKnown'
  BY <1>4 DEF CircuitInv, LossKnown
<1>10. ProbesSingle'
  <2>1. Probes \subseteq Operations
    BY DEF Operations
  <2>2. \A p \in Probes : op'[p].phase = op[p].phase /\ op'[p].kind = op[p].kind
    BY <1>4, <2>1
  <2> QED BY <1>1, <2>2 DEF CircuitInv, ProbesSingle, AtWork
<1> QED BY <1>2, <1>7, <1>8, <1>9, <1>10 DEF CircuitInv

-------------------------------------------------------------------------------
LEMMA InitHolds == Init => CircuitInv
<1> SUFFICES ASSUME Init PROVE CircuitInv
  OBVIOUS
<1>1. /\ \A o \in Operations : op[o] = Over /\ op[o] \in Operation
      /\ op \in [Operations -> Operation]
  BY OverIs DEF Init
<1>2. CircuitTypeOK
  <2>1. 0 \in 0 .. MaxFailures /\ 0 \in 0 .. MaxAsked /\ 0 \in 0 .. Cardinality(Operations)
    BY CircuitAssumption, OperationsFinite
  <2>2. idle \in [live : 0 .. Cardinality(Operations), dead : 0 .. Cardinality(Operations)]
    BY <2>1 DEF Init
  <2> QED BY <1>1, <2>1, <2>2 DEF Init, CircuitTypeOK, CircuitState
<1>3. Held = {}
  BY <1>1, OverIs DEF Held
<1>4. PoolFits
  BY <1>3, OperationsFinite, FS_EmptySet DEF PoolFits, Init
<1>5. LossKnown
  BY <1>1, OverIs DEF LossKnown, LossIs
<1>6. ProbesSingle
  <2>1. Probes \subseteq Operations
    BY DEF Operations
  <2> QED BY <1>1, <2>1, OverIs DEF ProbesSingle, AtWork, Init
<1> QED BY <1>2, <1>4, <1>5, <1>6 DEF CircuitInv, Init, OpenIsScheduled

LEMMA StepsKeep == CircuitInv /\ [Next]_vars => CircuitInv'
<1> SUFFICES ASSUME CircuitInv, [Next]_vars PROVE CircuitInv'
  OBVIOUS
<1>1. CASE \E q \in Queries, kind \in {"once", "held"} : Begin(q, kind)
  BY <1>1, BeginKeeps
<1>2. CASE \E q \in Queries : QueryHeld(q) \/ Release(q)
  BY <1>2, QueryHeldKeeps, ReleaseKeeps
<1>3. CASE \E o \in Operations : OperationEnds(o) \/ ClientError(o)
  <2>1. PICK o \in Operations : OperationEnds(o) \/ ClientError(o)
    BY <1>3
  <2>2. CASE OperationEnds(o)
    BY <2>2, ConnectFailsKeeps, ConnectsKeep, ConnectedInVainKeeps, QueriesEndKeeps, QueryBreaksKeeps
       DEF OperationEnds
  <2>3. CASE ClientError(o)
    BY <2>3, ClientErrorKeeps
  <2> QED BY <2>1, <2>2, <2>3
<1>4. CASE IdleClientError
  BY <1>4, IdleClientErrorKeeps
<1>5. CASE \E p \in Probes : AskedProbe(p) \/ TimerProbes(p)
  BY <1>5, ProbesStartKeeps
<1>6. CASE TimerJoins \/ TimerIdles \/ DelayPasses
  BY <1>6, TimerKeeps
<1>7. CASE Outage
  BY <1>7, OutageKeeps
<1>8. CASE Overload \/ Restored \/ UNCHANGED vars
  BY <1>8, DatabaseKeeps
<1> QED BY <1>1, <1>2, <1>3, <1>4, <1>5, <1>6, <1>7, <1>8 DEF Next, TimerFires

\* The invariant holds throughout.
THEOREM CircuitInvariant == Spec => []CircuitInv
<1> QED BY InitHolds, StepsKeep, PTL DEF Spec

\* The circuit, its timer, its operations and the pool stay in their domains: the pool
\* has no more clients than there are operations to hold them, however they come back.
THEOREM CircuitTypes == Spec => []CircuitTypeOK
<1>1. CircuitInv => CircuitTypeOK
  BY DEF CircuitInv
<1> QED BY <1>1, CircuitInvariant, PTL

\* A lost connection is one failure to the circuit, whichever of its client's error
\* event and its query's rejection comes first (recordCheckedOutClientFailure).
THEOREM LossIsOneFailure == Spec => []LossCountedOnce
<1>1. CircuitInv => LossCountedOnce
  BY DEF CircuitInv, LossKnown, LossCountedOnce
<1> QED BY <1>1, CircuitInvariant, PTL

\* At most one probe is at work, and an open circuit has its timer or its probe until
\* somebody else asks for one (probeDatabaseRecovery, scheduleRecoveryProbe).
THEOREM RecoveryIsSupervised == Spec => []RecoverySupervised
<1>1. CircuitInv => RecoverySupervised
  <2> SUFFICES ASSUME CircuitInv PROVE RecoverySupervised
    OBVIOUS
  <2> DEFINE W == {p \in Probes : op[p].phase # "idle"}
  <2>1. \A p, r \in W : p = r
    BY DEF CircuitInv, ProbesSingle, AtWork
  <2> HIDE DEF W
  <2>2. Cardinality(W) <= 1
    <3>1. CASE W = {}
      BY <3>1, FS_EmptySet
    <3>2. CASE W # {}
      <4>1. PICK p : p \in W
        BY <3>2
      <4>2. W = {p}
        BY <2>1, <4>1
      <4> QED BY <4>2, FS_Singleton
    <3> QED BY <3>1, <3>2
  <2> QED BY <2>2 DEF W, CircuitInv, RecoverySupervised, OneProbe
<1> QED BY <1>1, CircuitInvariant, PTL

\* No statement of ordinary traffic is sent while the circuit is open, on whatever
\* connection (beforeOperation in instrumentPoolClient).
THEOREM TrafficFailsFast == Spec => FailsFast
<1> DEFINE Fast == \A q \in Queries : op[q].phase # "querying" /\ op'[q].phase = "querying"
                                      => state # "circuit_open"
<1>1. CircuitInv /\ [Next]_vars => [Fast]_vars
  <2> SUFFICES ASSUME CircuitInv, Next, NEW q \in Queries, op[q].phase # "querying",
                      op'[q].phase = "querying", state = "circuit_open"
               PROVE  FALSE
    BY DEF vars
  <2>1. q \in Operations /\ q \notin Probes /\ op \in [Operations -> Operation]
    BY QueriesAre DEF CircuitInv, CircuitTypeOK
  <2>2. Over.phase = "idle" /\ op[q] \in Operation
    BY <2>1, OverIs
  \* Only Connected and QueryHeld send a statement, and both ask the circuit first.
  <2>3. ASSUME NEW o \in Operations, Ended(o) PROVE FALSE
    BY <2>1, <2>2, <2>3 DEF Ended
  <2>4. ASSUME NEW o \in Operations, Rest(o) PROVE FALSE
    BY <2>1, <2>2, <2>3, <2>4 DEF Rest, Operation
  <2>5. ASSUME NEW o \in Operations, op' = Lost(o, op[o].phase) \/ op' = Lost(o, "resting") PROVE FALSE
    BY <2>1, <2>2, <2>5 DEF Lost, Operation
  <2>6. op' # op
    OBVIOUS
  <2>7. CASE \E r \in Queries, kind \in {"once", "held"} : Begin(r, kind)
    BY <2>7 DEF Begin
  <2>8. CASE \E r \in Queries : QueryHeld(r) \/ Release(r)
    BY <2>3, <2>8, QueriesAre DEF QueryHeld, Release, StillAllowed
  <2>9. CASE \E o \in Operations : ConnectFails(o) \/ ConnectedInVain(o) \/ QuerySucceeds(o)
                                   \/ QueryRejected(o) \/ QueryTimesOut(o)
    BY <2>3, <2>4, <2>9 DEF ConnectFails, ConnectedInVain, QuerySucceeds, QueryRejected, QueryTimesOut
  <2>10. CASE \E o \in Operations : CheckOut(o)
    <3>1. PICK o \in Operations, dead \in BOOLEAN : op' = [op EXCEPT ![o].phase = "resting", ![o].dead = dead]
      BY <2>10 DEF CheckOut
    <3> QED BY <2>1, <2>2, <3>1 DEF Operation
  <2>11. CASE \E o \in Operations : Connected(o)
    BY <2>11 DEF Connected, StillAllowed
  <2>12. CASE \E o \in Operations : QueryBreaks(o) \/ ClientError(o)
    <3>1. PICK o \in Operations : QueryBreaks(o) \/ ClientError(o)
      BY <2>12
    <3>2. \/ Ended(o)
          \/ op' = Lost(o, op[o].phase) \/ op' = Lost(o, "resting")
          \/ op' = [op EXCEPT ![o].phase = "resting"]
      BY <3>1 DEF QueryBreaks, ClientError
    <3>3. op' # [op EXCEPT ![o].phase = "resting"]
      BY <2>1, <2>2 DEF Operation
    <3> QED BY <2>3, <2>5, <3>2, <3>3
  <2>13. CASE \E p \in Probes : AskedProbe(p) \/ TimerProbes(p)
    BY <2>1, <2>13 DEF AskedProbe, TimerProbes, StartProbe
  <2>14. CASE IdleClientError \/ TimerJoins \/ TimerIdles \/ DelayPasses \/ Overload \/ Restored
    BY <2>6, <2>14 DEF IdleClientError, TimerJoins, TimerIdles, DelayPasses, Overload, Restored
  <2>15. CASE Outage
    BY <2>1, <2>2, <2>15 DEF Outage, Operation
  <2> QED BY <2>7, <2>8, <2>9, <2>10, <2>11, <2>12, <2>13, <2>14, <2>15 DEF Next, TimerFires, OperationEnds
<1> QED BY <1>1, CircuitInvariant, PTL DEF Spec, FailsFast
==============================================================================
