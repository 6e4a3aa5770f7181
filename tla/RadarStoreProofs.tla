---------------------------- MODULE RadarStoreProofs ----------------------------
(***************************************************************************)
(* Proofs about the store job coordinator, and about the store whose jobs  *)
(* it serializes, for any number of timers, jobs, other processes and      *)
(* runs.                                                                   *)
(*                                                                         *)
(* The promises form one chain in the order the jobs were chained, so a    *)
(* job that has started has every earlier job behind it.  Every step of    *)
(* the store is one of the coordinator or leaves it alone, so the          *)
(* coordinator's theorems hold of the store.  That no committed run is     *)
(* lost rests on one fact: every delta is tagged with the latest           *)
(* checkpoint, because both transactions hold the lock.                    *)
(* That a restart changes nothing rests on two more: a merge adds nothing  *)
(* to a merge, and a monitor run not yet saved is the newest there is.     *)
(***************************************************************************)
EXTENDS RadarStore, FiniteSetTheorems, TLAPS

-------------------------------------------------------------------------------
(* The coordinator *)

QueueOrder ==
  /\ tail = born
  /\ \A j \in JobId : j > born => status[j] = "none" /\ owner[j] = Caller
  /\ \A j \in JobId : j <= born => status[j] # "none" /\ prev[j] = j - 1

StartedInOrder ==
  \A j \in JobId : status[j] \notin {"none", "queued"} => \A i \in JobId : i < j => Settled(i)

GuardsHold == \A n \in Names : n \notin guard => ~Outstanding(n)

ClosedTail == /\ closed => closeTail = born
              /\ closeResolved => closed /\ Settled(closeTail)

QueueInv == TypeOK /\ QueueOrder /\ StartedInOrder /\ GuardsHold /\ TimerCoalesced /\ ClosedTail

LEMMA QueueInit == Init => QueueInv
<1> SUFFICES ASSUME Init PROVE QueueInv
  OBVIOUS
<1>1. \A j \in JobId : j > 0 /\ status[j] = "none" /\ owner[j] = Caller
  BY DEF Init, JobId
<1>2. TypeOK
  <2>1. 0 \in 0 .. MaxJobs
    BY CoordinatorAssumption
  <2> QED BY <2>1 DEF Init, TypeOK, JobStatus
<1>3. QueueOrder
  BY <1>1 DEF Init, QueueOrder, JobId
<1>4. StartedInOrder /\ GuardsHold /\ TimerCoalesced
  BY <1>1 DEF StartedInOrder, GuardsHold, TimerCoalesced, Outstanding
<1>5. ClosedTail
  BY DEF Init, ClosedTail
<1> QED BY <1>2, <1>3, <1>4, <1>5 DEF QueueInv

\* Chaining a job for o, which has none outstanding unless it is the direct caller.
LEMMA ChainKeeps ==
  ASSUME QueueInv, NEW o \in Names \cup {Caller}, Chain(o), born < MaxJobs, ~closed,
         o = Caller \/ ~Outstanding(o),
         guard' \subseteq Names, pending' \subseteq guard', guard \subseteq guard',
         o \in Names => o \in guard',
         UNCHANGED <<closed, closeTail, closeResolved>>
  PROVE  QueueInv'
<1> USE DEF QueueInv
<1>1. born \in Nat /\ born + 1 \in JobId /\ born' = born + 1 /\ tail' = born + 1
  BY CoordinatorAssumption DEF TypeOK, JobId, Chain
<1>2. /\ status'[born + 1] = "queued" /\ owner'[born + 1] = o /\ prev'[born + 1] = born
      /\ \A j \in JobId \ {born + 1} : status'[j] = status[j] /\ owner'[j] = owner[j] /\ prev'[j] = prev[j]
  BY <1>1 DEF Chain, TypeOK, QueueOrder
<1>3. TypeOK'
  <2>1. prev' \in [JobId -> 0 .. MaxJobs] /\ owner' \in [JobId -> Names \cup {Caller}]
        /\ status' \in [JobId -> JobStatus]
    BY <1>1 DEF Chain, TypeOK, JobStatus
  <2>2. born' \in 0 .. MaxJobs /\ tail' \in 0 .. MaxJobs
    BY <1>1, CoordinatorAssumption DEF JobId
  <2> QED BY <2>1, <2>2 DEF TypeOK
<1>4. QueueOrder'
  BY <1>1, <1>2 DEF QueueOrder, JobId
<1>5. StartedInOrder'
  <2> SUFFICES ASSUME NEW j \in JobId, status'[j] \notin {"none", "queued"}, NEW i \in JobId, i < j
               PROVE  Settled(i)'
    BY DEF StartedInOrder
  <2>1. j # born + 1 /\ status[j] = status'[j]
    BY <1>2
  <2>2. j <= born
    BY <2>1, <1>1 DEF QueueOrder, JobId
  <2>3. i # born + 1
    BY <2>2, <1>1 DEF JobId
  <2>4. Settled(i)
    BY <2>1 DEF StartedInOrder
  <2> QED BY <2>3, <2>4, <1>2 DEF Settled
<1>6. \A n \in Names \ {o} : Outstanding(n)' => Outstanding(n)
  BY <1>1, <1>2 DEF Outstanding
<1>7. GuardsHold'
  BY <1>6 DEF GuardsHold
<1>8. TimerCoalesced'
  <2> SUFFICES ASSUME NEW i \in JobId, NEW j \in JobId, owner'[i] = owner'[j], owner'[i] \in Names,
                      status'[i] \in {"queued", "active"}, status'[j] \in {"queued", "active"}
               PROVE  i = j
    BY DEF TimerCoalesced
  <2>1. CASE i # born + 1 /\ j # born + 1
    BY <2>1, <1>2 DEF TimerCoalesced
  <2>2. CASE i = born + 1 /\ j # born + 1
    BY <2>2, <1>2, CoordinatorAssumption DEF Outstanding
  <2>3. CASE i # born + 1 /\ j = born + 1
    BY <2>3, <1>2, CoordinatorAssumption DEF Outstanding
  <2> QED BY <2>1, <2>2, <2>3
<1>9. ClosedTail'
  BY DEF ClosedTail
<1> QED BY <1>3, <1>4, <1>5, <1>7, <1>8, <1>9

\* A job settles or starts: its status moves on and nothing else does.
LEMMA StatusMoves ==
  ASSUME QueueInv, NEW j \in JobId, NEW s \in {"active", "succeeded", "failed", "stopped"},
         status[j] \in {"queued", "active"}, s = "active" => status[j] = "queued",
         status[j] = "queued" => Ready(j),
         status' = [status EXCEPT ![j] = s],
         UNCHANGED <<born, prev, owner, tail, guard, pending, closed, closeTail, closeResolved>>
  PROVE  QueueInv'
<1> USE DEF QueueInv
<1>1. status'[j] = s /\ \A i \in JobId \ {j} : status'[i] = status[i]
  BY DEF TypeOK
<1>2. TypeOK'
  BY DEF TypeOK, JobStatus
<1>3. QueueOrder'
  BY <1>1 DEF QueueOrder
<1>4. \A i \in JobId : Settled(i) => Settled(i)'
  BY <1>1 DEF Settled
<1>5. \A i \in JobId : i < j => Settled(i)
  <2>1. CASE status[j] = "active"
    BY <2>1 DEF StartedInOrder
  <2>2. CASE status[j] = "queued"
    <3>1. prev[j] = j - 1 /\ Settled(j - 1)
      BY <2>2 DEF QueueOrder, Ready, TypeOK, JobId
    <3> SUFFICES ASSUME NEW i \in JobId, i < j PROVE Settled(i)
      OBVIOUS
    <3>2. CASE i = j - 1
      BY <3>1, <3>2
    <3>3. CASE i < j - 1
      <4>1. j - 1 \in JobId /\ status[j - 1] \notin {"none", "queued"}
        BY <3>1, <3>3, CoordinatorAssumption DEF Settled, JobId
      <4> QED BY <4>1, <3>3 DEF StartedInOrder
    <3> QED BY <3>2, <3>3 DEF JobId
  <2> QED BY <2>1, <2>2
<1>6. StartedInOrder'
  BY <1>1, <1>4, <1>5 DEF StartedInOrder
<1>7. \A n \in Names : Outstanding(n)' => Outstanding(n)
  BY <1>1 DEF Outstanding
<1>8. GuardsHold'
  BY <1>7 DEF GuardsHold
<1>9. TimerCoalesced'
  BY <1>1 DEF TimerCoalesced
<1>10. ClosedTail'
  BY <1>1 DEF ClosedTail, Settled, TypeOK, JobId
<1> QED BY <1>2, <1>3, <1>6, <1>8, <1>9, <1>10

\* Steps of guards and of close() that leave the jobs alone.
LEMMA JobsKept ==
  ASSUME QueueInv, UNCHANGED <<born, prev, owner, status, tail>>, TypeOK', GuardsHold', ClosedTail'
  PROVE  QueueInv'
  BY DEF QueueInv, QueueOrder, StartedInOrder, TimerCoalesced, Settled

\* The bound on jobs keeps a slot for every pending follow-up.
RoomKept == IsFiniteSet(pending) /\ born + Cardinality(pending) <= MaxJobs

LEMMA RoomInit == Init => RoomKept
  BY FS_EmptySet, CoordinatorAssumption DEF Init, RoomKept

LEMMA RoomStep == TypeOK /\ RoomKept /\ [Next]_vars => RoomKept'
<1> SUFFICES ASSUME TypeOK, RoomKept, [Next]_vars PROVE RoomKept'
  OBVIOUS
<1>0. born \in Nat /\ MaxJobs \in Nat /\ Cardinality(pending) \in Nat
  BY FS_CardinalityType, CoordinatorAssumption DEF TypeOK, RoomKept
<1>1. ASSUME UNCHANGED pending, born' = born \/ (Room /\ born' = born + 1)
      PROVE  RoomKept'
  BY <1>0, <1>1 DEF RoomKept, Room
<1>2. ASSUME NEW n \in Names, ScheduleCoalesced(n)
      PROVE  RoomKept'
  <2>1. n \notin pending /\ pending' = pending \cup {n} /\ born' = born /\ Room
    BY <1>2 DEF ScheduleCoalesced, Unmarked
  <2>2. IsFiniteSet(pending') /\ Cardinality(pending') = Cardinality(pending) + 1
    BY <2>1, FS_AddElement DEF RoomKept
  <2> QED BY <1>0, <2>1, <2>2 DEF RoomKept, Room
<1>3. ASSUME NEW n \in Names, DrainAgain(n)
      PROVE  RoomKept'
  <2>1. n \in pending /\ pending' = pending \ {n} /\ born' = born + 1
    BY <1>3 DEF DrainAgain, Chain
  <2>2. IsFiniteSet(pending') /\ Cardinality(pending') = Cardinality(pending) - 1
    BY <2>1, FS_RemoveElement DEF RoomKept
  <2> QED BY <1>0, <2>1, <2>2 DEF RoomKept
<1>4. ASSUME pending' \subseteq pending, born' = born
      PROVE  RoomKept'
  <2>1. IsFiniteSet(pending') /\ Cardinality(pending') <= Cardinality(pending)
    BY <1>4, FS_Subset DEF RoomKept
  <2>2. Cardinality(pending') \in Nat
    BY <2>1, FS_CardinalityType
  <2> QED BY <1>0, <1>4, <2>1, <2>2 DEF RoomKept
<1>5. CASE Run
  BY <1>1, <1>5 DEF Run, Chain
<1>6. ASSUME NEW n \in Names, ScheduleFirst(n) PROVE RoomKept'
  BY <1>1, <1>6 DEF ScheduleFirst, Chain
<1>7. ASSUME NEW n \in Names, DrainDone(n) PROVE RoomKept'
  BY <1>4, <1>7 DEF DrainDone
<1>8. ASSUME NEW j \in JobId, Start(j) \/ Finish(j) PROVE RoomKept'
  BY <1>1, <1>8 DEF Start, Finish
<1>9. CASE Close
  BY <1>4, <1>9 DEF Close
<1>10. CASE CloseResolve \/ UNCHANGED vars
  BY <1>1, <1>10 DEF CloseResolve, vars
<1> QED BY <1>2, <1>3, <1>5, <1>6, <1>7, <1>8, <1>9, <1>10 DEF Next

LEMMA QueueStep == QueueInv /\ RoomKept /\ [Next]_vars => QueueInv'
<1> SUFFICES ASSUME QueueInv, RoomKept, [Next]_vars PROVE QueueInv'
  OBVIOUS
<1>t. TypeOK /\ GuardsHold /\ ClosedTail /\ QueueOrder
  BY DEF QueueInv
<1>0. born \in Nat /\ MaxJobs \in Nat /\ Cardinality(pending) \in Nat
      /\ born + Cardinality(pending) <= MaxJobs
  BY <1>t, FS_CardinalityType, CoordinatorAssumption DEF TypeOK, RoomKept
<1>1. CASE Run
  <2>1. born < MaxJobs /\ Chain(Caller) /\ ~closed
    BY <1>0, <1>1 DEF Run, Room
  <2>2. UNCHANGED <<guard, pending, closed, closeTail, closeResolved>>
    BY <1>1 DEF Run
  <2> QED BY <1>t, <2>1, <2>2, ChainKeeps, CoordinatorAssumption DEF TypeOK
<1>2. ASSUME NEW n \in Names, ScheduleFirst(n)
      PROVE  QueueInv'
  <2>1. born < MaxJobs /\ Chain(n) /\ ~closed /\ n \notin guard
    BY <1>0, <1>2 DEF ScheduleFirst, Room, Unscheduled
  <2>2. guard' = guard \cup {n} /\ UNCHANGED <<pending, closed, closeTail, closeResolved>>
    BY <1>2 DEF ScheduleFirst
  <2>3. ~Outstanding(n)
    BY <1>t, <2>1 DEF GuardsHold
  <2> QED BY <1>t, <2>1, <2>2, <2>3, ChainKeeps DEF TypeOK
<1>3. ASSUME NEW n \in Names, DrainAgain(n)
      PROVE  QueueInv'
  <2>1. Chain(n) /\ ~closed /\ n \in guard /\ n \in pending /\ ~Outstanding(n)
    BY <1>3 DEF DrainAgain
  <2>2. pending' = pending \ {n} /\ UNCHANGED <<guard, closed, closeTail, closeResolved>>
    BY <1>3 DEF DrainAgain
  <2>3. Cardinality(pending) # 0
    BY <2>1, FS_EmptySet DEF RoomKept
  <2>4. born < MaxJobs
    BY <1>0, <2>3
  <2> QED BY <1>t, <2>1, <2>2, <2>4, ChainKeeps DEF TypeOK
<1>4. ASSUME NEW n \in Names, ScheduleCoalesced(n)
      PROVE  QueueInv'
  <2>1. TypeOK' /\ GuardsHold' /\ ClosedTail'
    BY <1>t, <1>4
    DEF ScheduleCoalesced, Unmarked, TypeOK, GuardsHold, ClosedTail, Outstanding, Settled
  <2> QED BY <1>4, <2>1, JobsKept DEF ScheduleCoalesced
<1>5. ASSUME NEW n \in Names, DrainDone(n)
      PROVE  QueueInv'
  <2>1. ~Outstanding(n) /\ guard' = guard \ {n} /\ pending' = pending \ {n}
        /\ UNCHANGED <<born, prev, owner, status, tail, closed, closeTail, closeResolved>>
    BY <1>5 DEF DrainDone, GuardDropped
  <2>2. TypeOK'
    BY <1>t, <2>1 DEF TypeOK
  <2>3. GuardsHold'
    BY <1>t, <2>1 DEF GuardsHold, Outstanding
  <2>4. ClosedTail'
    BY <1>t, <2>1 DEF ClosedTail, Settled
  <2> QED BY <2>1, <2>2, <2>3, <2>4, JobsKept
<1>6. ASSUME NEW j \in JobId, Start(j)
      PROVE  QueueInv'
  <2> DEFINE s == IF closed THEN "stopped" ELSE "active"
  <2>1. s \in {"active", "succeeded", "failed", "stopped"}
    OBVIOUS
  <2>2. status[j] = "queued" /\ Ready(j) /\ status' = [status EXCEPT ![j] = s]
        /\ UNCHANGED <<born, prev, owner, tail, guard, pending, closed, closeTail, closeResolved>>
    BY <1>6 DEF Start
  <2> HIDE DEF s
  <2> QED BY <2>1, <2>2, StatusMoves
<1>7. ASSUME NEW j \in JobId, Finish(j)
      PROVE  QueueInv'
  <2>1. PICK s \in {"succeeded", "failed"} : status' = [status EXCEPT ![j] = s]
    BY <1>7 DEF Finish
  <2>2. status[j] = "active"
        /\ UNCHANGED <<born, prev, owner, tail, guard, pending, closed, closeTail, closeResolved>>
    BY <1>7 DEF Finish
  <2> QED BY <2>1, <2>2, StatusMoves
<1>8. CASE Close
  <2>1. UNCHANGED <<born, prev, owner, status, tail, guard, closeResolved>>
        /\ ~closed /\ closed' = TRUE /\ pending' = {} /\ closeTail' = tail
    BY <1>8 DEF Close, LastTail
  <2>2. TypeOK' /\ GuardsHold'
    BY <1>t, <2>1 DEF TypeOK, GuardsHold, Outstanding
  <2>3. ClosedTail'
    BY <1>t, <2>1 DEF ClosedTail, QueueOrder
  <2> QED BY <2>1, <2>2, <2>3, JobsKept
<1>9. CASE CloseResolve
  <2>1. TypeOK' /\ GuardsHold' /\ ClosedTail'
    BY <1>t, <1>9 DEF CloseResolve, TypeOK, GuardsHold, ClosedTail, Outstanding, Settled
  <2> QED BY <1>9, <2>1, JobsKept DEF CloseResolve
<1>10. CASE UNCHANGED vars
  <2>1. TypeOK' /\ GuardsHold' /\ ClosedTail'
    BY <1>t, <1>10 DEF vars, TypeOK, GuardsHold, ClosedTail, Outstanding, Settled
  <2> QED BY <1>10, <2>1, JobsKept DEF vars
<1> QED BY <1>1, <1>2, <1>3, <1>4, <1>5, <1>6, <1>7, <1>8, <1>9, <1>10 DEF Next

LEMMA QueueAlways == Spec => [](QueueInv /\ RoomKept)
<1>1. Init => QueueInv /\ RoomKept
  BY QueueInit, RoomInit
<1>2. QueueInv /\ RoomKept /\ [Next]_vars => (QueueInv /\ RoomKept)'
  BY QueueStep, RoomStep DEF QueueInv
<1> QED BY <1>1, <1>2, PTL DEF Spec

\* The coordinator's fields have the shape storeJobCoordinator.ts 4-7 declares.
THEOREM CoordinatorTypeCorrect == Spec => []TypeOK
  BY QueueAlways, PTL DEF QueueInv

\* Whatever mix of run(), schedule() and failures chained them, at most one job works
\* on the store: a job at work has every earlier one behind it (run, lines 11-16).
THEOREM JobsAreSerial == Spec => []SerialJobs
<1>1. QueueInv => SerialJobs
  <2> SUFFICES ASSUME QueueInv, NEW i \in JobId, NEW j \in JobId,
                      status[i] = "active", status[j] = "active", i < j
               PROVE  FALSE
    BY CoordinatorAssumption DEF SerialJobs, JobId
  <2>1. Settled(i)
    BY DEF QueueInv, StartedInOrder
  <2> QED BY <2>1, CoordinatorAssumption DEF Settled, JobId
<1> QED BY <1>1, QueueAlways, PTL

\* However many ticks come in, a timer has one job outstanding (schedule, lines 19-38).
THEOREM TimersCoalesce == Spec => []TimerCoalesced
  BY QueueAlways, PTL DEF QueueInv

\* Once the promise of close() resolved, no job is at work or will start (close, 42-51).
THEOREM ShutdownIsQuiet == Spec => []QuietAfterClose
<1>1. QueueInv => QuietAfterClose
  <2> SUFFICES ASSUME QueueInv, closeResolved, NEW j \in JobId, status[j] \in {"queued", "active"}
               PROVE  FALSE
    BY DEF QuietAfterClose
  <2>1. born \in 0 .. MaxJobs /\ Settled(born) /\ j <= born
    BY DEF QueueInv, TypeOK, ClosedTail, QueueOrder, JobId
  <2>2. born \in JobId /\ status[born] \in {"succeeded", "failed", "stopped"}
    BY <2>1, CoordinatorAssumption DEF Settled, JobId
  <2>3. j < born
    BY <2>1, <2>2, CoordinatorAssumption DEF JobId
  <2>4. Settled(j)
    BY <2>2, <2>3 DEF QueueInv, StartedInOrder
  <2> QED BY <2>4, CoordinatorAssumption DEF Settled, JobId
<1> QED BY <1>1, QueueAlways, PTL

\* The store has one writer at a time, and none once close() resolved.
THEOREM WriterIsSingle == Spec => []OneWriter
  BY JobsAreSerial, ShutdownIsQuiet, PTL DEF OneWriter

-------------------------------------------------------------------------------
(* The store *)

LEMMA StepsAreJobs == RadarNext => [Next]_vars
<1> SUFFICES ASSUME RadarNext PROVE [Next]_vars
  OBVIOUS
<1>1. CASE Boot
  BY <1>1 DEF Boot, Next
<1>2. CASE Chained
  BY <1>2 DEF Chained, Next
<1>3. ASSUME NEW n \in Names, Drain(n) PROVE [Next]_vars
  BY <1>3 DEF Drain, Next
<1>4. ASSUME NEW j \in JobId, StartJob(j) \/ Work(j) \/ FinishJob(j) PROVE [Next]_vars
  BY <1>4 DEF StartJob, Work, FinishJob, Next
<1>5. CASE CloseApp \/ CloseDone
  BY <1>5 DEF CloseApp, CloseDone, Next
<1>6. ASSUME NEW p \in Peers, PeerWork(p) PROVE [Next]_vars
  BY <1>6 DEF PeerWork
<1> QED BY <1>1, <1>2, <1>3, <1>4, <1>5, <1>6 DEF RadarNext

\* The process is one whose coordinator nothing bypasses: what the store and its
\* persistence do (app.ts 1491-1493) implements the coordinator's specification.
THEOREM StoreRunsUnderCoordinator == RadarSpec => Spec
<1>1. RadarInit => Init
  BY DEF RadarInit
<1>2. [RadarNext]_radarVars => [Next]_vars
  BY StepsAreJobs DEF radarVars
<1> QED BY <1>1, <1>2, PTL DEF RadarSpec, Spec

\* Startup load, ingestion, monitor and manual jobs change the store one at a time, and
\* none of them after close() resolved.
THEOREM StoreHasOneWriter == RadarSpec => []OneWriter
  BY StoreRunsUnderCoordinator, WriterIsSingle, PTL

-----------------------------------------------------------------------------
(* No committed monitor run is lost *)

\* A store whose catalog was ingested has a mark on the endpoint.  The invariant carries
\* along that the runs which touch the endpoint have a newest one: deltas come one by one.
Store == {s \in [mark : Nat, runs : SUBSET Nat, round : Nat] : s.round > 0 => s.mark > 0}

Stages == {"idle", "first", "snapshot", "delta", "succeeded", "failed"}

DatabaseInv ==
  /\ deltas \in SUBSET Nat /\ \A r \in deltas : r > 0
  /\ touching \subseteq deltas
  /\ touching # {} => \E m \in touching : \A x \in touching : x <= m
  /\ tagged = deltas
  /\ checkpoint \in Store

ActorsInv ==
  /\ clock \in Nat
  /\ memory \in [Peers \cup {Us} -> Store]
  /\ stage \in [Actor -> Stages]
  /\ drawn \in [Actor -> Nat]
  /\ \A a \in Actor : stage[a] \in {"first", "delta"} => drawn[a] > 0

DeltaInv == DatabaseInv /\ ActorsInv

LEMMA MaxNewest ==
  ASSUME NEW S \in SUBSET Nat, \E m \in S : \A x \in S : x <= m
  PROVE  Max(S) \in S /\ \A x \in S : x <= Max(S)
<1>1. \E m \in S : \A x \in S : m >= x
  OBVIOUS
<1>2. Max(S) \in S /\ \A x \in S : Max(S) >= x
  BY <1>1, Zenon DEF Max
<1> QED BY <1>2

LEMMA MergeKeeps ==
  ASSUME DeltaInv, NEW s \in Store
  PROVE  /\ Merge(s, tagged) \in Store
         /\ Merge(s, tagged).runs = s.runs \cup deltas
         /\ Merge(s, tagged).round = s.round
         /\ s.round > 0 => \A r \in touching : r <= Merge(s, tagged).mark
<1>1. tagged = deltas /\ tagged \cap touching = touching
  BY DEF DeltaInv, DatabaseInv
<1>2. touching \in SUBSET Nat /\ (\A r \in touching : r > 0) /\ tagged \in SUBSET Nat
  BY DEF DeltaInv, DatabaseInv
<1>3. touching # {} => Max(touching) \in touching /\ \A x \in touching : x <= Max(touching)
  BY <1>2, MaxNewest DEF DeltaInv, DatabaseInv
<1>4. s \in [mark : Nat, runs : SUBSET Nat, round : Nat] /\ (s.round > 0 => s.mark > 0)
  BY DEF Store
<1> DEFINE new == IF s.mark = 0 \/ touching = {} THEN s.mark ELSE Max(touching)
           merge == [mark |-> new, runs |-> s.runs \cup tagged, round |-> s.round]
<1>5. Merge(s, tagged) = merge
  BY <1>1 DEF Merge
<1>6. new \in Nat /\ (s.round > 0 => new > 0)
  BY <1>2, <1>3, <1>4
<1>7. s.round > 0 => \A r \in touching : r <= new
  BY <1>2, <1>3, <1>4
<1> HIDE DEF new
<1>8. merge \in Store
  BY <1>2, <1>4, <1>6 DEF Store
<1> QED BY <1>1, <1>5, <1>7, <1>8

LEMMA DeltaInit == RadarInit => DeltaInv
<1> SUFFICES ASSUME RadarInit PROVE DeltaInv
  OBVIOUS
<1>1. Empty \in Store
  BY DEF Empty, Store
<1>2. DatabaseInv
  BY <1>1 DEF RadarInit, DatabaseInv
<1>3. ActorsInv
  BY <1>1 DEF RadarInit, ActorsInv, Stages
<1> QED BY <1>2, <1>3 DEF DeltaInv

\* Every actor works on the store of its process or of this one.
LEMMA HomeStore ==
  ASSUME ActorsInv, NEW a \in Actor
  PROVE  /\ Home(a) \in Peers \cup {Us} /\ memory[Home(a)] \in Store
         /\ \A s \in Store : [memory EXCEPT ![Home(a)] = s] \in [Peers \cup {Us} -> Store]
<1>1. Home(a) \in Peers \cup {Us}
  BY DEF Home
<1> QED BY <1>1 DEF ActorsInv

\* A new stage for one actor, with a stamp when it holds work to save.
LEMMA StageKept ==
  ASSUME ActorsInv, NEW a \in Actor,
         NEW to \in Stages, stage' = [stage EXCEPT ![a] = to],
         NEW stamp \in Nat, drawn' = [drawn EXCEPT ![a] = stamp],
         to \in {"first", "delta"} => stamp > 0
  PROVE  /\ stage' \in [Actor -> Stages]
         /\ drawn' \in [Actor -> Nat]
         /\ \A b \in Actor : stage'[b] \in {"first", "delta"} => drawn'[b] > 0
<1>1. stage' \in [Actor -> Stages] /\ drawn' \in [Actor -> Nat]
  BY DEF ActorsInv
<1>2. stage'[a] = to /\ drawn'[a] = stamp
  BY DEF ActorsInv
<1>3. \A b \in Actor \ {a} : drawn'[b] = drawn[b] /\ stage'[b] = stage[b]
  BY DEF ActorsInv
<1> QED BY <1>1, <1>2, <1>3 DEF ActorsInv

\* The same with the stamp left as it is: an actor that ends, or never began.
LEMMA StageEnds ==
  ASSUME ActorsInv, NEW a \in Actor,
         NEW to \in {"idle", "succeeded", "failed"}, stage' = [stage EXCEPT ![a] = to],
         drawn' = drawn
  PROVE  /\ stage' \in [Actor -> Stages]
         /\ drawn' \in [Actor -> Nat]
         /\ \A b \in Actor : stage'[b] \in {"first", "delta"} => drawn'[b] > 0
<1>1. stage' \in [Actor -> Stages] /\ drawn' \in [Actor -> Nat]
  BY DEF ActorsInv, Stages
<1>2. stage'[a] = to /\ \A b \in Actor \ {a} : stage'[b] = stage[b]
  BY DEF ActorsInv
<1> QED BY <1>1, <1>2 DEF ActorsInv

LEMMA EndedStage ==
  ASSUME NEW a, NEW outcome \in {"succeeded", "failed"}
  PROVE  Ended(a, outcome) \in {"idle", "succeeded", "failed"}
  BY DEF Ended

\* Work in memory leaves the database as it is.
LEMMA MemoryWork ==
  ASSUME DeltaInv, NEW a \in Actor,
         Restore(a) \/ FirstCatalog(a) \/ NothingNew(a) \/ Ingest(a) \/ Observe(a)
  PROVE  DeltaInv'
<1>1. ActorsInv /\ DatabaseInv /\ clock + 1 \in Nat /\ clock + 1 > 0
  BY DEF DeltaInv, ActorsInv
<1>2. UNCHANGED <<checkpoint, deltas, touching, tagged>>
  BY DEF Restore, FirstCatalog, NothingNew, Ingest, Observe
<1>3. DatabaseInv'
  BY <1>1, <1>2 DEF DatabaseInv
<1>4. CASE Restore(a)
  <2>1. Recovered \in Store
    BY MergeKeeps DEF Recovered, DeltaInv, DatabaseInv
  <2>2. clock' \in Nat /\ memory' \in [Peers \cup {Us} -> Store]
    BY <1>1, <1>4, <2>1, HomeStore DEF Restore, ActorsInv
  <2>3. drawn' = drawn /\ stage' = [stage EXCEPT ![a] = Ended(a, "succeeded")]
    BY <1>4 DEF Restore
  <2> QED BY <1>1, <1>3, <2>2, <2>3, EndedStage, StageEnds DEF DeltaInv, ActorsInv
<1>5. CASE FirstCatalog(a)
  <2>1. clock' \in Nat /\ memory' \in [Peers \cup {Us} -> Store]
    BY <1>1, <1>5 DEF FirstCatalog, ActorsInv
  <2>2. stage' = [stage EXCEPT ![a] = "first"] /\ drawn' = [drawn EXCEPT ![a] = clock + 1]
    BY <1>5 DEF FirstCatalog
  <2> QED BY <1>1, <1>3, <2>1, <2>2, StageKept DEF DeltaInv, ActorsInv, Stages
<1>6. CASE NothingNew(a)
  <2>1. clock' \in Nat /\ memory' \in [Peers \cup {Us} -> Store]
    BY <1>1, <1>6 DEF NothingNew, ActorsInv
  <2>2. PICK outcome \in {"succeeded", "failed"} : stage' = [stage EXCEPT ![a] = Ended(a, outcome)]
    BY <1>6 DEF NothingNew
  <2>3. drawn' = drawn
    BY <1>6 DEF NothingNew
  <2> QED BY <1>1, <1>3, <2>1, <2>2, <2>3, EndedStage, StageEnds DEF DeltaInv, ActorsInv
<1>7. CASE Ingest(a)
  <2>1. Ingested(memory[Home(a)], clock + 1) \in Store
    BY <1>1, HomeStore DEF Ingested, Store
  <2>2. clock' \in Nat /\ memory' \in [Peers \cup {Us} -> Store]
    BY <1>1, <1>7, <2>1, HomeStore DEF Ingest
  <2>3. stage' = [stage EXCEPT ![a] = "snapshot"] /\ drawn' = [drawn EXCEPT ![a] = clock + 1]
    BY <1>7 DEF Ingest
  <2> QED BY <1>1, <1>3, <2>2, <2>3, StageKept DEF DeltaInv, ActorsInv, Stages
<1>8. CASE Observe(a)
  <2> DEFINE own == memory[Home(a)]
  <2>1. own \in Store
    BY <1>1, HomeStore
  <2>2. PICK known \in {own.mark, IF own.mark = 0 THEN 0 ELSE clock + 1} :
          memory' = [memory EXCEPT ![Home(a)] = Observed(own, clock + 1, known)]
    BY <1>8 DEF Observe
  <2>3. known \in Nat /\ (own.round > 0 => known > 0)
    BY <1>1, <2>1 DEF Store
  <2>4. Observed(own, clock + 1, known) \in Store
    BY <1>1, <2>1, <2>3 DEF Observed, Store
  <2>5. clock' \in Nat /\ memory' \in [Peers \cup {Us} -> Store]
    BY <1>1, <1>8, <2>2, <2>4, HomeStore DEF Observe
  <2>6. stage' = [stage EXCEPT ![a] = "delta"] /\ drawn' = [drawn EXCEPT ![a] = clock + 1]
    BY <1>8 DEF Observe
  <2> QED BY <1>1, <1>3, <2>5, <2>6, StageKept DEF DeltaInv, ActorsInv, Stages
<1> QED BY <1>4, <1>5, <1>6, <1>7, <1>8

\* A snapshot replaces the checkpoint by a merge with every delta and retags them all.
LEMMA SnapshotWork ==
  ASSUME DeltaInv, NEW a \in Actor, SnapshotSaved(a) \/ SnapshotUnanswered(a)
  PROVE  DeltaInv'
<1> DEFINE own == ToSave(a)
           outcome == IF SnapshotSaved(a) THEN "succeeded" ELSE "failed"
<1>1. ActorsInv /\ DatabaseInv /\ stage[a] \in {"first", "snapshot"}
  BY DEF DeltaInv, SnapshotSaved, SnapshotUnanswered
<1>2. own \in Store
  <2>1. CASE stage[a] = "first"
    BY <1>1, <2>1 DEF ToSave, Ingested, Empty, Store, ActorsInv
  <2>2. CASE stage[a] # "first"
    BY <1>1, <2>2, HomeStore DEF ToSave
  <2> QED BY <2>1, <2>2
<1>3. Merge(own, tagged) \in Store
  BY <1>2, MergeKeeps
<1>4. checkpoint' = Merge(own, tagged) /\ tagged' = tagged /\ UNCHANGED <<clock, deltas, touching>>
  BY DEF SnapshotSaved, SnapshotUnanswered, Retagged
<1>5. DatabaseInv'
  BY <1>1, <1>3, <1>4 DEF DatabaseInv
<1>6. memory' \in [Peers \cup {Us} -> Store]
  <2>1. CASE SnapshotSaved(a)
    <3>1. memory' = [memory EXCEPT ![Home(a)] = Merge(own, tagged)]
      BY <2>1, <1>4 DEF SnapshotSaved, Given
    <3> QED BY <3>1, <1>1, <1>3, HomeStore
  <2>2. CASE SnapshotUnanswered(a)
    BY <2>2, <1>1 DEF SnapshotUnanswered, ActorsInv
  <2> QED BY <2>1, <2>2
<1>7. PICK to \in {"idle", "succeeded", "failed"} : stage' = [stage EXCEPT ![a] = to]
  BY EndedStage DEF SnapshotSaved, SnapshotUnanswered
<1>8. drawn' = [drawn EXCEPT ![a] = 0]
  BY DEF SnapshotSaved, SnapshotUnanswered
<1>9. to \in Stages /\ to \notin {"first", "delta"}
  BY DEF Stages
<1> QED BY <1>1, <1>4, <1>5, <1>6, <1>7, <1>8, <1>9, StageKept DEF DeltaInv, ActorsInv

\* A delta is tagged with the latest checkpoint, which keeps tagged = deltas.
LEMMA DeltaWork ==
  ASSUME DeltaInv, NEW a \in Actor, DeltaSaved(a)
  PROVE  DeltaInv'
<1>1. ActorsInv /\ DatabaseInv /\ drawn[a] \in Nat /\ drawn[a] > 0
  BY DEF DeltaInv, ActorsInv, DeltaSaved
<1>2. /\ deltas' = deltas \cup {drawn[a]} /\ tagged' = tagged \cup {drawn[a]}
      /\ touching' \in {touching, touching \cup {drawn[a]}}
      /\ UNCHANGED <<clock, checkpoint, memory>>
  BY DEF DeltaSaved
<1>3. touching' # {} => \E m \in touching' : \A x \in touching' : x <= m
  <2>1. touching \in SUBSET Nat
    BY <1>1 DEF DatabaseInv
  <2>2. CASE touching' = touching
    BY <2>2, <1>1 DEF DatabaseInv
  <2>3. CASE touching' = touching \cup {drawn[a]} /\ touching = {}
    BY <2>3, <1>1
  <2>4. CASE touching' = touching \cup {drawn[a]} /\ touching # {}
    <3>1. PICK m \in touching : \A x \in touching : x <= m
      BY <2>4, <1>1 DEF DatabaseInv
    <3>2. CASE m <= drawn[a]
      BY <3>1, <3>2, <2>1, <2>4, <1>1
    <3>3. CASE drawn[a] <= m
      BY <3>1, <3>3, <2>1, <2>4, <1>1
    <3> QED BY <3>1, <3>2, <3>3, <2>1, <1>1
  <2> QED BY <2>2, <2>3, <2>4, <1>2
<1>4. DatabaseInv'
  BY <1>1, <1>2, <1>3 DEF DatabaseInv
<1>5. PICK to \in {"idle", "succeeded", "failed"} : stage' = [stage EXCEPT ![a] = to]
  <2>1. PICK answered \in BOOLEAN :
          stage' = [stage EXCEPT ![a] = Ended(a, IF answered THEN "succeeded" ELSE "failed")]
    BY DEF DeltaSaved
  <2> QED BY <2>1, EndedStage
<1>6. drawn' = [drawn EXCEPT ![a] = 0]
  BY DEF DeltaSaved
<1>7. to \in Stages /\ to \notin {"first", "delta"}
  BY DEF Stages
<1> QED BY <1>1, <1>2, <1>4, <1>5, <1>6, <1>7, StageKept DEF DeltaInv, ActorsInv

LEMMA FailedWork ==
  ASSUME DeltaInv, NEW a \in Actor, SaveFails(a)
  PROVE  DeltaInv'
<1>1. ActorsInv /\ DatabaseInv /\ UNCHANGED <<clock, checkpoint, deltas, touching, tagged, memory>>
  BY DEF DeltaInv, SaveFails
<1>2. PICK to \in {"idle", "succeeded", "failed"} : stage' = [stage EXCEPT ![a] = to]
  BY EndedStage DEF SaveFails
<1>3. drawn' = [drawn EXCEPT ![a] = 0] /\ to \in Stages /\ to \notin {"first", "delta"}
  BY DEF SaveFails, Stages
<1>4. DatabaseInv'
  BY <1>1 DEF DatabaseInv
<1> QED BY <1>1, <1>2, <1>3, <1>4, StageKept DEF DeltaInv, ActorsInv

LEMMA StoreUntouched == DeltaInv /\ UNCHANGED storeVars => DeltaInv'
  BY DEF DeltaInv, DatabaseInv, ActorsInv, storeVars

LEMMA DeltaStep == DeltaInv /\ [RadarNext]_radarVars => DeltaInv'
<1> SUFFICES ASSUME DeltaInv, [RadarNext]_radarVars PROVE DeltaInv'
  OBVIOUS
<1>1. CASE Boot \/ Chained \/ CloseApp \/ CloseDone \/ UNCHANGED radarVars
  BY <1>1, StoreUntouched DEF Boot, Chained, CloseApp, CloseDone, radarVars
<1>2. ASSUME NEW n \in Names, Drain(n) PROVE DeltaInv'
  BY <1>2, StoreUntouched DEF Drain
<1>3. ASSUME NEW j \in JobId, StartJob(j) PROVE DeltaInv'
  BY <1>3, StoreUntouched DEF StartJob
<1>4. ASSUME NEW j \in JobId, Work(j) PROVE DeltaInv'
  <2>1. j \in Actor
    BY DEF Actor
  <2>2. \/ Restore(j) \/ FirstCatalog(j) \/ NothingNew(j) \/ Ingest(j) \/ Observe(j)
        \/ SnapshotSaved(j) \/ SnapshotUnanswered(j) \/ DeltaSaved(j) \/ SaveFails(j)
    BY <1>4 DEF Work, BeginLoad, BeginIngestion, BeginMonitor, Save
  <2> QED BY <2>1, <2>2, MemoryWork, SnapshotWork, DeltaWork, FailedWork
<1>5. ASSUME NEW j \in JobId, FinishJob(j) PROVE DeltaInv'
  <2>1. j \in Actor /\ ActorsInv /\ DatabaseInv /\ stage' = [stage EXCEPT ![j] = "idle"]
        /\ UNCHANGED <<clock, checkpoint, deltas, touching, tagged, memory, drawn>>
    BY <1>5 DEF Actor, FinishJob, DeltaInv
  <2>2. DatabaseInv'
    BY <2>1 DEF DatabaseInv
  <2> QED BY <2>1, <2>2, StageEnds DEF DeltaInv, ActorsInv
<1>6. ASSUME NEW p \in Peers, PeerWork(p) PROVE DeltaInv'
  <2>1. p \in Actor
    BY DEF Actor
  <2>2. \/ Restore(p) \/ FirstCatalog(p) \/ Ingest(p) \/ Observe(p)
        \/ SnapshotSaved(p) \/ SnapshotUnanswered(p) \/ DeltaSaved(p) \/ SaveFails(p)
    BY <1>6 DEF PeerWork, Save
  <2> QED BY <2>1, <2>2, MemoryWork, SnapshotWork, DeltaWork, FailedWork
<1> QED BY <1>1, <1>2, <1>3, <1>4, <1>5, <1>6 DEF RadarNext

\* Whatever stale store this process or a rival saves over it, a committed monitor run is
\* replayed by every later restart, and of the committed runs the one that started last
\* shows on its endpoint (saveSnapshot and saveMonitorDelta, postgresRepository.ts 99-150).
THEOREM NoRunIsLost == RadarSpec => []NoRunLost
<1>1. DeltaInv => NoRunLost
  <2> SUFFICES ASSUME DeltaInv PROVE NoRunLost
    OBVIOUS
  <2>1. checkpoint \in Store
    BY DEF DeltaInv, DatabaseInv
  <2> QED BY <2>1, MergeKeeps DEF NoRunLost, Recovered
<1> QED BY <1>1, DeltaInit, DeltaStep, PTL DEF RadarSpec

-----------------------------------------------------------------------------
(* A restart changes nothing *)

\* Only the active job is at work; stamps are drawn in the order things happen.
StagesActive == \A j \in JobId : stage[j] # "idle" => status[j] = "active"

StampsPast ==
  /\ \A r \in deltas : r <= clock
  /\ \A a \in Actor : drawn[a] <= clock
  /\ checkpoint.mark <= clock
  /\ \A p \in Peers \cup {Us} : memory[p].mark <= clock

\* The monitor run in memory is the newest, and all that memory is ahead of the database.
Pending(j) ==
  /\ memory[Us] \in {Observed(Recovered, drawn[j], Recovered.mark),
                     Observed(Recovered, drawn[j], IF Recovered.mark = 0 THEN 0 ELSE drawn[j])}
  /\ \A r \in deltas : r < drawn[j]
  /\ Recovered.mark < drawn[j]

InSync ==
  synced =>
    /\ \A j \in JobId : stage[j] = "delta" => Pending(j)
    /\ (\A j \in JobId : stage[j] \notin {"snapshot", "delta"}) => memory[Us] = Recovered

SyncInv == StagesActive /\ StampsPast /\ InSync

LEMMA JobsHere ==
  /\ \A j \in JobId : j \in Actor /\ j \notin Peers /\ Home(j) = Us
  /\ \A p \in Peers : p \in Actor /\ p \notin JobId /\ Home(p) = p /\ p # Us
  BY RadarAssumption DEF Actor, Home

\* A merge adds nothing to a merge, and no mark from the future.
LEMMA MergeTwice ==
  ASSUME DeltaInv, StampsPast, NEW s \in Store
  PROVE  /\ Merge(Merge(s, tagged), tagged) = Merge(s, tagged)
         /\ s.mark <= clock => Merge(s, tagged).mark <= clock
<1>1. tagged = deltas /\ tagged \cap touching = touching /\ touching \in SUBSET Nat
  BY DEF DeltaInv, DatabaseInv
<1>2. touching # {} => Max(touching) \in touching
  BY <1>1, MaxNewest DEF DeltaInv, DatabaseInv
<1>3. touching # {} => Max(touching) <= clock
  BY <1>2 DEF DeltaInv, DatabaseInv, StampsPast
<1> DEFINE new == IF s.mark = 0 \/ touching = {} THEN s.mark ELSE Max(touching)
           merge == [mark |-> new, runs |-> s.runs \cup tagged, round |-> s.round]
<1>4. Merge(s, tagged) = merge
  BY <1>1 DEF Merge
<1>5. Merge(merge, tagged) =
        [mark |-> IF new = 0 \/ touching = {} THEN new ELSE Max(touching),
         runs |-> merge.runs \cup tagged, round |-> s.round]
  BY <1>1 DEF Merge
<1>6. (IF new = 0 \/ touching = {} THEN new ELSE Max(touching)) = new
  OBVIOUS
<1>7. merge.runs \cup tagged = merge.runs
  OBVIOUS
<1>8. Merge(merge, tagged) = merge
  BY <1>5, <1>6, <1>7
<1>9. s.mark <= clock => merge.mark <= clock
  BY <1>3
<1> HIDE DEF merge
<1> QED BY <1>4, <1>8, <1>9

LEMMA RecoveredPast ==
  ASSUME DeltaInv, StampsPast
  PROVE  Recovered \in Store /\ Recovered.mark \in Nat /\ Recovered.mark <= clock
<1>1. checkpoint \in Store /\ checkpoint.mark <= clock
  BY DEF DeltaInv, DatabaseInv, StampsPast
<1>2. Recovered \in Store /\ Recovered.mark <= clock
  BY <1>1, MergeKeeps, MergeTwice DEF Recovered
<1> QED BY <1>2 DEF Store

LEMMA StampsMove ==
  ASSUME DeltaInv, StampsPast, NEW a \in Actor, clock' \in Nat, clock <= clock',
         deltas' \subseteq deltas \cup {drawn[a]}, checkpoint'.mark <= clock',
         NEW s \in Store, s.mark <= clock', memory' \in {memory, [memory EXCEPT ![Home(a)] = s]},
         NEW d \in Nat, d <= clock', drawn' \in {drawn, [drawn EXCEPT ![a] = d]}
  PROVE  StampsPast'
<1>1. /\ clock \in Nat /\ deltas \subseteq Nat /\ drawn \in [Actor -> Nat]
      /\ memory \in [Peers \cup {Us} -> Store] /\ \A t \in Store : t.mark \in Nat
  BY DEF DeltaInv, DatabaseInv, ActorsInv, Store
<1>2. \A r \in deltas' : r <= clock'
  BY <1>1 DEF StampsPast
<1>3. \A b \in Actor : drawn'[b] <= clock'
  <2> SUFFICES ASSUME NEW b \in Actor PROVE drawn'[b] <= clock'
    OBVIOUS
  <2>1. drawn[b] <= clock /\ drawn[b] \in Nat
    BY <1>1 DEF StampsPast
  <2>2. drawn'[b] = drawn[b] \/ drawn'[b] = d
    BY <1>1
  <2> QED BY <1>1, <2>1, <2>2
<1>4. \A p \in Peers \cup {Us} : memory'[p].mark <= clock'
  <2> SUFFICES ASSUME NEW p \in Peers \cup {Us} PROVE memory'[p].mark <= clock'
    OBVIOUS
  <2>1. memory[p].mark <= clock /\ memory[p].mark \in Nat
    BY <1>1 DEF StampsPast
  <2>2. memory'[p] = memory[p] \/ memory'[p] = s
    BY <1>1
  <2> QED BY <1>1, <2>1, <2>2
<1> QED BY <1>2, <1>3, <1>4 DEF StampsPast

\* The store an actor holds, or is about to save, has no mark from the future.
LEMMA OwnPast ==
  ASSUME DeltaInv, StampsPast, NEW a \in Actor
  PROVE  /\ memory[Home(a)] \in Store /\ memory[Home(a)].mark <= clock
         /\ drawn[a] \in Nat /\ drawn[a] <= clock /\ clock \in Nat /\ clock + 1 \in Nat
         /\ checkpoint.mark \in Nat /\ checkpoint.mark <= clock
         /\ stage[a] \in {"first", "snapshot"} => ToSave(a) \in Store /\ ToSave(a).mark <= clock
<1>1. Home(a) \in Peers \cup {Us} /\ memory[Home(a)] \in Store
  BY HomeStore DEF DeltaInv
<1>2. /\ memory[Home(a)].mark <= clock /\ drawn[a] \in Nat /\ drawn[a] <= clock /\ clock \in Nat
      /\ checkpoint.mark \in Nat /\ checkpoint.mark <= clock
      /\ stage[a] = "first" => drawn[a] > 0
  BY <1>1 DEF StampsPast, DeltaInv, DatabaseInv, ActorsInv, Store
<1>3. CASE stage[a] = "first"
  <2>1. ToSave(a) = [mark |-> drawn[a], runs |-> {}, round |-> drawn[a]]
    BY <1>3 DEF ToSave, Ingested, Empty
  <2> QED BY <1>1, <1>2, <1>3, <2>1 DEF Store
<1>4. CASE stage[a] # "first"
  BY <1>1, <1>2, <1>4 DEF ToSave
<1> QED BY <1>3, <1>4

LEMMA StampsWork ==
  ASSUME DeltaInv, StampsPast, NEW a \in Actor,
         \/ Restore(a) \/ FirstCatalog(a) \/ NothingNew(a) \/ Ingest(a) \/ Observe(a)
         \/ SnapshotSaved(a) \/ SnapshotUnanswered(a) \/ DeltaSaved(a) \/ SaveFails(a)
  PROVE  StampsPast'
<1> DEFINE own == memory[Home(a)]
<1>1. /\ own \in Store /\ own.mark \in Nat /\ own.mark <= clock
      /\ clock \in Nat /\ clock + 1 \in Nat /\ clock <= clock + 1 /\ clock <= clock
      /\ 0 \in Nat /\ 0 <= clock /\ checkpoint.mark <= clock /\ checkpoint.mark <= clock + 1
  BY OwnPast DEF Store
<1>2. CASE Restore(a)
  <2>1. PICK s \in Store : s = Recovered /\ s.mark <= clock
    BY RecoveredPast
  <2>2. memory' = [memory EXCEPT ![Home(a)] = s] /\ UNCHANGED <<clock, checkpoint, deltas, drawn>>
    BY <1>2, <2>1 DEF Restore
  <2> QED BY <1>1, <2>1, <2>2, StampsMove
<1>3. CASE FirstCatalog(a)
  <2>1. PICK d \in Nat : d = clock + 1
    BY <1>1
  <2>2. clock' = d /\ drawn' = [drawn EXCEPT ![a] = d] /\ UNCHANGED <<checkpoint, deltas, memory>>
    BY <1>3, <2>1 DEF FirstCatalog
  <2>3. PICK s \in Store : s = own
    BY <1>1
  <2>4. /\ clock' \in Nat /\ clock <= clock' /\ deltas' \subseteq deltas \cup {drawn[a]}
        /\ checkpoint'.mark <= clock' /\ s.mark <= clock' /\ d <= clock'
    BY <1>1, <2>1, <2>2, <2>3
  <2> HIDE DEF own
  <2> QED BY <2>2, <2>4, StampsMove
<1>4. CASE NothingNew(a) \/ SaveFails(a)
  <2>1. drawn' \in {drawn, [drawn EXCEPT ![a] = 0]} /\ UNCHANGED <<clock, checkpoint, deltas, memory>>
    BY <1>4 DEF NothingNew, SaveFails
  <2>2. PICK s \in Store : s = own
    BY <1>1
  <2> QED BY <1>1, <2>1, <2>2, StampsMove
<1>5. CASE Ingest(a) \/ Observe(a)
  <2>1. PICK d \in Nat : d = clock + 1
    BY <1>1
  <2>2. clock' = d /\ drawn' = [drawn EXCEPT ![a] = d] /\ UNCHANGED <<checkpoint, deltas>>
    BY <1>5, <2>1 DEF Ingest, Observe
  <2>3. PICK s \in Store : s.mark <= d /\ memory' = [memory EXCEPT ![Home(a)] = s]
    <3>1. CASE Ingest(a)
      <4>1. Ingested(own, d) \in Store /\ Ingested(own, d).mark = d
        BY <1>1, <2>1 DEF Ingested, Store
      <4>2. memory' = [memory EXCEPT ![Home(a)] = Ingested(own, d)]
        BY <3>1, <2>1 DEF Ingest
      <4>3. PICK s \in Store : s = Ingested(own, d)
        BY <4>1
      <4>4. s.mark <= d
        BY <4>1, <4>3
      <4> QED BY <4>2, <4>3, <4>4
    <3>2. CASE Observe(a)
      <4>1. PICK known \in {own.mark, IF own.mark = 0 THEN 0 ELSE d} :
               memory' = [memory EXCEPT ![Home(a)] = Observed(own, d, known)]
        BY <3>2, <2>1 DEF Observe
      <4>2. known \in Nat /\ known <= d /\ (own.round > 0 => known > 0)
        BY <1>1, <2>1, <4>1 DEF Store
      <4>3. Observed(own, d, known) \in Store /\ Observed(own, d, known).mark = known
        BY <1>1, <2>1, <4>2 DEF Observed, Store
      <4> QED BY <4>1, <4>2, <4>3
    <3> QED BY <1>5, <3>1, <3>2
  <2>4. /\ clock' \in Nat /\ clock <= clock' /\ deltas' \subseteq deltas \cup {drawn[a]}
        /\ checkpoint'.mark <= clock' /\ s.mark <= clock' /\ d <= clock'
    BY <1>1, <2>1, <2>2, <2>3
  <2> HIDE DEF own
  <2> QED BY <2>2, <2>3, <2>4, StampsMove
<1>6. CASE SnapshotSaved(a) \/ SnapshotUnanswered(a)
  <2>1. ToSave(a) \in Store /\ ToSave(a).mark <= clock
    BY <1>6, OwnPast DEF SnapshotSaved, SnapshotUnanswered
  <2>2. PICK s \in Store : s = Merge(ToSave(a), tagged) /\ s.mark <= clock
    BY <2>1, MergeKeeps, MergeTwice
  <2>3. checkpoint' = s /\ memory' \in {memory, [memory EXCEPT ![Home(a)] = s]}
    BY <1>6, <2>2 DEF SnapshotSaved, SnapshotUnanswered, Given
  <2>4. drawn' = [drawn EXCEPT ![a] = 0] /\ UNCHANGED <<clock, deltas>>
    BY <1>6 DEF SnapshotSaved, SnapshotUnanswered
  <2> QED BY <1>1, <2>2, <2>3, <2>4, StampsMove
<1>7. CASE DeltaSaved(a)
  <2>1. /\ deltas' = deltas \cup {drawn[a]} /\ drawn' = [drawn EXCEPT ![a] = 0]
        /\ UNCHANGED <<clock, checkpoint, memory>>
    BY <1>7 DEF DeltaSaved
  <2>2. PICK s \in Store : s = own
    BY <1>1
  <2> QED BY <1>1, <2>1, <2>2, StampsMove
<1> QED BY <1>2, <1>3, <1>4, <1>5, <1>6, <1>7

\* A committed delta is what the monitor run did in memory.
LEMMA DeltaCommits ==
  ASSUME DeltaInv, StampsPast, NEW j \in JobId, DeltaSaved(j), Pending(j)
  PROVE  memory'[Us] = Recovered'
<1> DEFINE d == drawn[j]
<1>1. /\ deltas' = deltas \cup {d} /\ tagged' = tagged \cup {d} /\ checkpoint' = checkpoint
      /\ touching' = (IF memory[Us].mark = d THEN touching \cup {d} ELSE touching) /\ memory' = memory
  BY JobsHere DEF DeltaSaved
<1>2. /\ tagged = deltas /\ touching \subseteq deltas /\ deltas \in SUBSET Nat /\ checkpoint \in Store
      /\ d \in Nat /\ d > 0 /\ \A r \in deltas : r < d
  BY JobsHere DEF DeltaInv, DatabaseInv, ActorsInv, Pending, DeltaSaved
<1>3. /\ Recovered.runs = checkpoint.runs \cup tagged /\ Recovered.round = checkpoint.round
      /\ Recovered.mark = IF checkpoint.mark = 0 \/ touching = {} THEN checkpoint.mark ELSE Max(touching)
  <2>1. tagged \cap touching = touching
    BY <1>2
  <2> QED BY <2>1 DEF Recovered, Merge
<1>4. d \notin touching /\ Recovered.mark < d /\ Recovered.mark \in Nat /\ checkpoint.mark \in Nat
  BY <1>2, RecoveredPast DEF Pending, Store
<1>5. tagged' \cap touching' = touching'
  BY <1>1, <1>2
<1>6. Recovered' = [mark |-> IF checkpoint.mark = 0 \/ touching' = {} THEN checkpoint.mark ELSE Max(touching'),
                    runs |-> checkpoint.runs \cup (tagged \cup {d}), round |-> checkpoint.round]
  BY <1>1, <1>5 DEF Recovered, Merge
<1>7. PICK known \in {Recovered.mark, IF Recovered.mark = 0 THEN 0 ELSE d} :
         memory[Us] = [mark |-> known, runs |-> Recovered.runs \cup {d}, round |-> Recovered.round]
  BY DEF Pending, Observed
<1>8. Recovered.runs \cup {d} = checkpoint.runs \cup (tagged \cup {d})
  BY <1>3
<1>9. known = IF checkpoint.mark = 0 \/ touching' = {} THEN checkpoint.mark ELSE Max(touching')
  <2>1. CASE known = Recovered.mark
    <3>1. touching' = touching
      BY <1>1, <1>4, <1>7, <2>1
    <3> QED BY <1>3, <2>1, <3>1
  <2>2. CASE known = d /\ known # Recovered.mark
    <3>1. touching' = touching \cup {d}
      BY <1>1, <1>7, <2>2
    <3>2. checkpoint.mark # 0
      <4>1. Recovered.mark # 0
        BY <1>2, <1>4, <1>7, <2>2
      <4> QED BY <1>3, <4>1
    <3>3. touching' \in SUBSET Nat /\ \E m \in touching' : \A x \in touching' : x <= m
      <4>1. touching' \in SUBSET Nat /\ d \in touching'
        BY <1>2, <3>1
      <4>2. \A x \in touching' : x <= d
        BY <1>2, <3>1
      <4> QED BY <4>1, <4>2
    <3>4. PICK S \in SUBSET Nat : S = touching'
      BY <3>3
    <3>5. Max(S) \in S /\ \A x \in S : x <= Max(S)
      BY <3>3, <3>4, MaxNewest
    <3>6. Max(S) = d
      BY <1>2, <3>1, <3>4, <3>5
    <3> QED BY <2>2, <3>1, <3>2, <3>4, <3>6
  <2> QED BY <1>4, <1>7, <2>1, <2>2
<1> QED BY <1>1, <1>3, <1>6, <1>7, <1>8, <1>9

-----------------------------------------------------------------------------
\* One job of ours at work, the others at rest.
LEMMA WorkSyncs ==
  ASSUME DeltaInv, StampsPast, InSync, NEW j \in JobId, \A i \in JobId \ {j} : stage[i] = "idle",
         \/ Restore(j) \/ FirstCatalog(j) \/ NothingNew(j) \/ Ingest(j) \/ Observe(j)
         \/ SnapshotSaved(j) \/ SnapshotUnanswered(j) \/ DeltaSaved(j) \/ SaveFails(j)
  PROVE  InSync'
<1>1. j \in Actor /\ JobId \subseteq Actor /\ Home(j) = Us /\ j \notin Peers
  BY JobsHere
<1>2. /\ stage \in [Actor -> Stages] /\ drawn \in [Actor -> Nat] /\ clock \in Nat
      /\ memory \in [Peers \cup {Us} -> Store]
  BY DEF DeltaInv, ActorsInv
<1>3. ASSUME UNCHANGED <<checkpoint, touching, tagged>> PROVE Recovered' = Recovered
  BY <1>3 DEF Recovered, Merge
<1>4. ASSUME NEW to, stage' = [stage EXCEPT ![j] = to] PROVE stage'[j] = to /\ \A i \in JobId \ {j} : stage'[i] = "idle"
  BY <1>1, <1>2, <1>4
<1>5. ASSUME NEW to, stage' = [stage EXCEPT ![j] = to], to # "delta", synced' => memory'[Us] = Recovered'
      PROVE  InSync'
  BY <1>4, <1>5 DEF InSync
<1>6. ASSUME synced, stage[j] = "idle" PROVE memory[Us] = Recovered
  BY <1>6 DEF InSync
<1>7. CASE Restore(j)
  <2>1. /\ stage' = [stage EXCEPT ![j] = "succeeded"] /\ memory' = [memory EXCEPT ![Us] = Recovered]
        /\ UNCHANGED <<checkpoint, touching, tagged>>
    BY <1>1, <1>7 DEF Restore, Ended
  <2>2. memory'[Us] = Recovered'
    BY <1>2, <1>3, <2>1
  <2> QED BY <1>5, <2>1, <2>2
<1>8. CASE FirstCatalog(j) \/ NothingNew(j)
  <2>1. PICK to \in {"first", "succeeded", "failed"} : stage' = [stage EXCEPT ![j] = to]
    BY <1>1, <1>8 DEF FirstCatalog, NothingNew, Ended
  <2>2. stage[j] = "idle" /\ UNCHANGED <<checkpoint, touching, tagged, memory, synced>>
    BY <1>8 DEF FirstCatalog, NothingNew
  <2>3. synced' => memory'[Us] = Recovered'
    BY <1>3, <1>6, <2>2
  <2> QED BY <1>5, <2>1, <2>3
<1>9. CASE Ingest(j)
  BY <1>4, <1>9 DEF Ingest, InSync
<1>10. CASE Observe(j)
  <2>1. /\ stage[j] = "idle" /\ stage' = [stage EXCEPT ![j] = "delta"]
        /\ clock' = clock + 1 /\ drawn' = [drawn EXCEPT ![j] = clock']
        /\ UNCHANGED <<checkpoint, touching, tagged, deltas, synced>>
    BY <1>10 DEF Observe
  <2>2. drawn'[j] = clock + 1
    BY <1>1, <1>2, <2>1
  <2>3. PICK known \in {memory[Us].mark, IF memory[Us].mark = 0 THEN 0 ELSE clock'} :
           memory' = [memory EXCEPT ![Us] = Observed(memory[Us], clock', known)]
    BY <1>1, <1>10 DEF Observe
  <2>4. memory'[Us] = Observed(memory[Us], drawn'[j], known) /\ known \in {memory[Us].mark, IF memory[Us].mark = 0 THEN 0 ELSE drawn'[j]}
    BY <1>2, <2>1, <2>2, <2>3
  <2>5. (\A r \in deltas' : r < drawn'[j]) /\ Recovered'.mark < drawn'[j]
    <3>1. Recovered.mark \in Nat /\ Recovered.mark <= clock /\ Recovered' = Recovered
      BY <1>3, <2>1, RecoveredPast
    <3>2. \A r \in deltas : r \in Nat /\ r <= clock
      BY DEF DeltaInv, DatabaseInv, StampsPast
    <3> QED BY <1>2, <2>1, <2>2, <3>1, <3>2
  <2>6. synced => Pending(j)'
    <3>1. synced => memory[Us] = Recovered'
      BY <1>3, <1>6, <2>1
    <3> QED BY <2>4, <2>5, <3>1 DEF Pending
  <2>7. stage'[j] = "delta" /\ \A i \in JobId \ {j} : stage'[i] = "idle"
    BY <1>4, <2>1
  <2> QED BY <2>1, <2>6, <2>7 DEF InSync
<1>11. CASE SnapshotSaved(j)
  <2>1. /\ stage' = [stage EXCEPT ![j] = "succeeded"] /\ tagged' = tagged /\ touching' = touching
        /\ checkpoint' = Merge(ToSave(j), tagged) /\ memory' = [memory EXCEPT ![Us] = checkpoint']
    BY <1>1, <1>11 DEF SnapshotSaved, Ended, Given, Retagged
  <2>2. ToSave(j) \in Store
    BY <1>1, <1>11, OwnPast DEF SnapshotSaved
  <2>3. Recovered' = checkpoint'
    <3>1. PICK s \in Store : s = ToSave(j)
      BY <2>2
    <3>2. Merge(checkpoint', tagged) = checkpoint'
      BY <2>1, <3>1, MergeTwice
    <3>3. Recovered' = Merge(checkpoint', tagged)
      BY <2>1 DEF Recovered, Merge
    <3> QED BY <3>2, <3>3
  <2>4. memory'[Us] = Recovered'
    BY <1>2, <2>1, <2>3
  <2> QED BY <1>5, <2>1, <2>4
<1>12. CASE SnapshotUnanswered(j) \/ SaveFails(j)
  BY <1>1, <1>12 DEF SnapshotUnanswered, SaveFails, InSync
<1>13. CASE DeltaSaved(j)
  <2>1. PICK to \in {"succeeded", "failed"} : stage' = [stage EXCEPT ![j] = to]
    BY <1>1, <1>13 DEF DeltaSaved, Ended
  <2>2. synced' => synced
    BY <1>13 DEF DeltaSaved
  <2>3. synced => Pending(j)
    BY <1>13 DEF InSync, DeltaSaved
  <2>4. synced' => memory'[Us] = Recovered'
    BY <1>13, <2>2, <2>3, DeltaCommits
  <2> QED BY <1>5, <2>1, <2>4
<1> QED BY <1>7, <1>8, <1>9, <1>10, <1>11, <1>12, <1>13

\* What leaves our store, our jobs' stages and the database alone.
LEMMA Unaffected ==
  ASSUME InSync, UNCHANGED <<checkpoint, deltas, touching, tagged>>, synced' => synced,
         memory'[Us] = memory[Us], \A i \in JobId : stage'[i] = stage[i] /\ drawn'[i] = drawn[i]
  PROVE  InSync'
<1>1. Recovered' = Recovered
  BY DEF Recovered, Merge
<1> QED BY <1>1 DEF InSync, Pending

\* A rival's work in memory is its own; once it commits, we are not in sync.
LEMMA PeerSyncs ==
  ASSUME DeltaInv, InSync, NEW p \in Peers,
         \/ Restore(p) \/ FirstCatalog(p) \/ Ingest(p) \/ Observe(p)
         \/ SnapshotSaved(p) \/ SnapshotUnanswered(p) \/ DeltaSaved(p) \/ SaveFails(p)
  PROVE  InSync'
<1>1. p \in Actor /\ p \notin JobId /\ Home(p) = p /\ p # Us
  BY JobsHere
<1>2. CASE SnapshotSaved(p) \/ SnapshotUnanswered(p) \/ DeltaSaved(p)
  <2>1. ~synced'
    BY <1>1, <1>2 DEF SnapshotSaved, SnapshotUnanswered, DeltaSaved
  <2> QED BY <2>1 DEF InSync
<1>3. CASE Restore(p) \/ FirstCatalog(p) \/ Ingest(p) \/ Observe(p) \/ SaveFails(p)
  <2>1. UNCHANGED <<checkpoint, deltas, touching, tagged>> /\ (synced' => synced)
    <3>1. UNCHANGED <<checkpoint, deltas, touching, tagged>>
      BY <1>3 DEF Restore, FirstCatalog, Ingest, Observe, SaveFails
    <3>2. Home(p) # Us
      BY <1>1
    <3>3. Restore(p) \/ SaveFails(p) => (synced' => synced)
      BY <3>2, Zenon DEF Restore, SaveFails
    <3>4. FirstCatalog(p) \/ Ingest(p) \/ Observe(p) => (synced' => synced)
      BY DEF FirstCatalog, Ingest, Observe
    <3> QED BY <1>3, <3>1, <3>3, <3>4
  <2>2. \A i \in JobId : stage'[i] = stage[i] /\ drawn'[i] = drawn[i]
    <3>1. JobId \subseteq Actor /\ stage \in [Actor -> Stages] /\ drawn \in [Actor -> Nat]
      BY JobsHere DEF DeltaInv, ActorsInv
    <3> QED BY <1>1, <1>3, <3>1 DEF Restore, FirstCatalog, Ingest, Observe, SaveFails
  <2>3. memory'[Us] = memory[Us]
    <3>1. memory \in [Peers \cup {Us} -> Store]
      BY DEF DeltaInv, ActorsInv
    <3> QED BY <1>1, <1>3, <3>1 DEF Restore, FirstCatalog, Ingest, Observe, SaveFails
  <2> QED BY <2>1, <2>2, <2>3, Unaffected
<1> QED BY <1>2, <1>3

\* The coordinator's own steps take no active job away from its work.
LEMMA ActiveStays ==
  ASSUME QueueInv, NEW j \in JobId, status[j] = "active",
         \/ Boot \/ Chained \/ CloseApp \/ CloseDone \/ UNCHANGED radarVars
         \/ \E n \in Names : Drain(n)
         \/ \E i \in JobId : StartJob(i)
  PROVE  status'[j] = "active" /\ UNCHANGED storeVars
<1>1. status \in [JobId -> JobStatus] /\ j # born + 1
  BY CoordinatorAssumption DEF QueueInv, TypeOK, QueueOrder, JobId
<1>2. ASSUME NEW o, Chain(o) PROVE status'[j] = "active"
  BY <1>1, <1>2 DEF Chain
<1>3. ASSUME NEW i \in JobId, Start(i) PROVE status'[j] = "active"
  BY <1>1, <1>3 DEF Start
<1>4. CASE Boot \/ Chained
  BY <1>2, <1>4 DEF Boot, Chained, Run, ScheduleFirst, ScheduleCoalesced
<1>5. CASE CloseApp \/ CloseDone \/ UNCHANGED radarVars
  BY <1>5 DEF CloseApp, CloseDone, Close, CloseResolve, radarVars, vars
<1>6. CASE \E n \in Names : Drain(n)
  BY <1>2, <1>6 DEF Drain, DrainAgain, DrainDone
<1>7. CASE \E i \in JobId : StartJob(i)
  BY <1>3, <1>7 DEF StartJob
<1> QED BY <1>4, <1>5, <1>6, <1>7

LEMMA SyncInit == RadarInit => SyncInv
<1> SUFFICES ASSUME RadarInit PROVE SyncInv
  OBVIOUS
<1>1. StagesActive
  BY JobsHere DEF RadarInit, StagesActive
<1>2. StampsPast
  BY DEF RadarInit, StampsPast, Empty
<1>3. InSync
  BY DEF RadarInit, InSync
<1> QED BY <1>1, <1>2, <1>3 DEF SyncInv

LEMMA SyncStep == QueueInv /\ SerialJobs /\ DeltaInv /\ SyncInv /\ [RadarNext]_radarVars => SyncInv'
<1> SUFFICES ASSUME QueueInv, SerialJobs, DeltaInv, StagesActive, StampsPast, InSync, [RadarNext]_radarVars
             PROVE  SyncInv'
  BY DEF SyncInv
<1>1. ASSUME \/ Boot \/ Chained \/ CloseApp \/ CloseDone \/ UNCHANGED radarVars
             \/ \E n \in Names : Drain(n)
             \/ \E i \in JobId : StartJob(i)
      PROVE  SyncInv'
  <2>1. UNCHANGED storeVars
    BY <1>1 DEF Boot, Chained, CloseApp, CloseDone, radarVars, Drain, StartJob
  <2>2. StagesActive'
    <3> SUFFICES ASSUME NEW j \in JobId, stage'[j] # "idle" PROVE status'[j] = "active"
      BY DEF StagesActive
    <3>1. status[j] = "active"
      BY <2>1 DEF StagesActive, storeVars
    <3> QED BY <1>1, <3>1, ActiveStays
  <2>3. StampsPast'
    BY <2>1 DEF StampsPast, storeVars
  <2>4. InSync'
    BY <2>1, Unaffected DEF storeVars
  <2> QED BY <2>2, <2>3, <2>4 DEF SyncInv
<1>2. ASSUME NEW j \in JobId, Work(j) PROVE SyncInv'
  <2>1. status[j] = "active" /\ UNCHANGED vars /\ j \in Actor
    BY <1>2, JobsHere DEF Work
  <2>2. \/ Restore(j) \/ FirstCatalog(j) \/ NothingNew(j) \/ Ingest(j) \/ Observe(j)
        \/ SnapshotSaved(j) \/ SnapshotUnanswered(j) \/ DeltaSaved(j) \/ SaveFails(j)
    BY <1>2 DEF Work, BeginLoad, BeginIngestion, BeginMonitor, Save
  <2>3. \A i \in JobId \ {j} : stage[i] = "idle"
    BY <2>1 DEF StagesActive, SerialJobs
  <2>4. StagesActive'
    <3>1. \A i \in JobId \ {j} : stage'[i] = stage[i]
      <4>1. stage \in [Actor -> Stages] /\ JobId \subseteq Actor
        BY JobsHere DEF DeltaInv, ActorsInv
      <4> QED BY <2>2, <4>1 DEF Restore, FirstCatalog, NothingNew, Ingest, Observe, SnapshotSaved,
                               SnapshotUnanswered, DeltaSaved, SaveFails
    <3>2. status' = status
      BY <2>1 DEF vars
    <3> QED BY <2>1, <2>3, <3>1, <3>2 DEF StagesActive
  <2>5. StampsPast'
    BY <2>1, <2>2, StampsWork
  <2>6. InSync'
    BY <2>2, <2>3, WorkSyncs
  <2> QED BY <2>4, <2>5, <2>6 DEF SyncInv
<1>3. ASSUME NEW j \in JobId, FinishJob(j) PROVE SyncInv'
  <2>1. /\ stage[j] \in {"succeeded", "failed"} /\ Finish(j) /\ stage' = [stage EXCEPT ![j] = "idle"]
        /\ UNCHANGED <<clock, checkpoint, deltas, touching, tagged, memory, drawn, synced>>
    BY <1>3 DEF FinishJob
  <2>2. stage'[j] = "idle" /\ \A i \in JobId \ {j} : stage'[i] = stage[i] /\ status'[i] = status[i]
    <3>1. stage \in [Actor -> Stages] /\ JobId \subseteq Actor /\ status \in [JobId -> JobStatus]
      BY JobsHere DEF DeltaInv, ActorsInv, QueueInv, TypeOK
    <3> QED BY <2>1, <3>1 DEF Finish
  <2>3. StagesActive'
    BY <2>2 DEF StagesActive
  <2>4. StampsPast'
    BY <2>1 DEF StampsPast
  <2>5. Recovered' = Recovered
    BY <2>1 DEF Recovered, Merge
  <2>6. InSync'
    <3>1. \A i \in JobId : (stage'[i] \in {"snapshot", "delta"}) <=> (stage[i] \in {"snapshot", "delta"})
      BY <2>1, <2>2
    <3>2. \A i \in JobId : stage'[i] = "delta" => stage[i] = "delta"
      BY <2>2
    <3> QED BY <2>1, <2>5, <3>1, <3>2 DEF InSync, Pending
  <2> QED BY <2>3, <2>4, <2>6 DEF SyncInv
<1>4. ASSUME NEW p \in Peers, PeerWork(p) PROVE SyncInv'
  <2>1. UNCHANGED vars /\ p \in Actor /\ p \notin JobId
    BY <1>4, JobsHere DEF PeerWork
  <2>2. \/ Restore(p) \/ FirstCatalog(p) \/ Ingest(p) \/ Observe(p)
        \/ SnapshotSaved(p) \/ SnapshotUnanswered(p) \/ DeltaSaved(p) \/ SaveFails(p)
    BY <1>4 DEF PeerWork, Save
  <2>3. StagesActive'
    <3>1. \A i \in JobId : stage'[i] = stage[i]
      <4>1. stage \in [Actor -> Stages] /\ JobId \subseteq Actor
        BY JobsHere DEF DeltaInv, ActorsInv
      <4> QED BY <2>1, <2>2, <4>1 DEF Restore, FirstCatalog, Ingest, Observe, SnapshotSaved,
                               SnapshotUnanswered, DeltaSaved, SaveFails
    <3> QED BY <2>1, <3>1 DEF StagesActive, vars
  <2>4. StampsPast'
    BY <2>1, <2>2, StampsWork
  <2>5. InSync'
    BY <2>2, PeerSyncs
  <2> QED BY <2>3, <2>4, <2>5 DEF SyncInv
<1> QED BY <1>1, <1>2, <1>3, <1>4 DEF RadarNext

\* Between two jobs, a process whose saves were all acknowledged and that had no rival
\* serves what it would serve after a restart: the checkpoint with the tagged deltas
\* replayed over it (loadSnapshotState, and the merge saveSnapshot gives back).
THEOREM RestartChangesNothing == RadarSpec => []RestartEquivalent
<1>1. RadarSpec => [](QueueInv /\ SerialJobs)
  BY StoreRunsUnderCoordinator, QueueAlways, JobsAreSerial, PTL
<1>2. RadarSpec => []DeltaInv
  BY DeltaInit, DeltaStep, PTL DEF RadarSpec
<1>3. RadarSpec => []SyncInv
  BY <1>1, <1>2, SyncInit, SyncStep, PTL DEF RadarSpec
<1>4. SyncInv => RestartEquivalent
  BY DEF SyncInv, InSync, RestartEquivalent
<1> QED BY <1>3, <1>4, PTL
==============================================================================
