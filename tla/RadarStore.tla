------------------------------ MODULE RadarStore ------------------------------
(***************************************************************************)
(* The shared intelligence store and its persistence, under the job        *)
(* coordinator: startup load, catalog ingestion and the endpoint monitor   *)
(* (services/intelligenceStore.ts, services/endpointMonitorService.ts)     *)
(* change the store in memory and then save it, the ingestion as a full    *)
(* snapshot, the monitor as a delta (persistence/postgresRepository.ts).   *)
(*                                                                         *)
(* The database holds the latest snapshot row, the checkpoint, and the     *)
(* deltas of monitor runs, each tagged with the checkpoint it is to be     *)
(* replayed over.  Both kinds of transaction take one advisory lock, so    *)
(* each is one step.  Other processes on the same database (the previous   *)
(* deploy draining, a second instance) load once and save what they have.  *)
(*                                                                         *)
(* Ingestions and monitor runs draw a stamp when they begin, and deltas    *)
(* are replayed in the order of their stamps, as the code does by the      *)
(* started_at of their runs.  Until it saves, a run changes only the store *)
(* of its own process, where nothing else is at work, so that its many     *)
(* awaits are one step.  The store is abstracted to the monitor runs it    *)
(* holds, the ingestion its catalog comes from, and the mark on one        *)
(* endpoint: the stamp of whatever set its status and latency last (0: the *)
(* catalog is empty).                                                      *)
(***************************************************************************)
EXTENDS StoreJobCoordinator, FiniteSetsExt

CONSTANTS
  Ingestion, Monitor,   \* the two timers
  Us,                   \* the process whose coordinator this is
  Peers,                \* other processes on the same database
  MaxStamp              \* bound on the ingestions and monitor runs of a behaviour

ASSUME RadarAssumption ==
  /\ Names = {Ingestion, Monitor}
  /\ Us \notin Peers
  /\ Peers \cap JobId = {}
  /\ MaxStamp \in 0 .. 100   \* the store keeps the hundred newest runs

Stamp == 1 .. MaxStamp
Actor == JobId \cup Peers
Home(a) == IF a \in Peers THEN a ELSE Us

Snapshot == [mark : 0 .. MaxStamp, runs : SUBSET Stamp, round : 0 .. MaxStamp]
Empty == [mark |-> 0, runs |-> {}, round |-> 0]

VARIABLES
  clock,        \* the last stamp drawn
  checkpoint,   \* the latest row of intelligence_snapshots (round 0: there is none)
  deltas,       \* the monitor_runs rows with a state_delta
  touching,     \* those whose delta updates the endpoint
  tagged,       \* those whose snapshot_id is the latest checkpoint
  memory,       \* the store object of each process
  stage,        \* how far each job and each peer is with its work
  drawn,        \* the stamp of the work it is at
  synced        \* nothing of ours failed to be saved and no peer committed since our last sync

storeVars == <<clock, checkpoint, deltas, touching, tagged, memory, stage, drawn, synced>>
radarVars == <<vars, storeVars>>

RadarTypeOK ==
  /\ TypeOK
  /\ clock \in 0 .. MaxStamp
  /\ checkpoint \in Snapshot
  /\ deltas \subseteq Stamp
  /\ touching \subseteq deltas
  /\ tagged \subseteq deltas
  /\ memory \in [Peers \cup {Us} -> Snapshot]
  /\ stage \in [Actor -> {"idle", "first", "snapshot", "delta", "succeeded", "failed"}]
  /\ drawn \in [Actor -> 0 .. MaxStamp]
  /\ synced \in BOOLEAN

RadarInit ==
  /\ Init
  /\ clock = 0
  /\ checkpoint = Empty
  /\ deltas = {} /\ touching = {} /\ tagged = {}
  /\ memory = [p \in Peers \cup {Us} |-> Empty]
  /\ stage = [a \in Actor |-> "idle"]
  /\ drawn = [a \in Actor |-> 0]
  /\ synced = FALSE

\* mergeMonitorDeltas(): runs are added once, by id; each delta, the oldest first, sets
\* the status and latency of an endpoint the snapshot knows.
Merge(s, D) ==
  LET updates == D \cap touching
  IN  [mark |-> IF s.mark = 0 \/ updates = {} THEN s.mark ELSE Max(updates),
       runs |-> s.runs \cup D,
       round |-> s.round]

\* loadSnapshotState(): the checkpoint and the deltas tagged with it.
Recovered == Merge(checkpoint, tagged)

\* A peer's work ends at once; a job's outcome is reported to the coordinator.
Ended(a, outcome) == IF a \in Peers THEN "idle" ELSE outcome

-----------------------------------------------------------------------------
(* The work of an actor *)

\* createIntelligenceStore() with an accepted snapshot, or with none and no catalog.
Restore(a) ==
  /\ stage[a] = "idle"
  /\ memory' = [memory EXCEPT ![Home(a)] = Recovered]
  /\ stage' = [stage EXCEPT ![a] = Ended(a, "succeeded")]
  /\ synced' = (synced \/ Home(a) = Us)
  /\ UNCHANGED <<clock, checkpoint, deltas, touching, tagged, drawn>>

\* It found no snapshot and fetches the catalog; the store is assigned after the save.
FirstCatalog(a) ==
  /\ stage[a] = "idle" /\ checkpoint.round = 0
  /\ stage' = [stage EXCEPT ![a] = "first"]
  /\ clock' = clock + 1
  /\ drawn' = [drawn EXCEPT ![a] = clock']
  /\ UNCHANGED <<checkpoint, deltas, touching, tagged, memory, synced>>

\* The load fails, or the catalog was rejected and its failed run may not be recorded:
\* the intelligence held stays as it is.
NothingNew(a) ==
  /\ stage[a] = "idle"
  /\ \E outcome \in {"succeeded", "failed"} : stage' = [stage EXCEPT ![a] = Ended(a, outcome)]
  /\ UNCHANGED <<clock, checkpoint, deltas, touching, tagged, memory, drawn, synced>>

\* A catalog sets the status of every endpoint it names and clears its latency.
Ingested(s, stamp) == [mark |-> stamp, runs |-> s.runs, round |-> stamp]

\* runPayShIngestionWithOptions() up to the save.
Ingest(a) ==
  /\ stage[a] = "idle"
  /\ clock' = clock + 1
  /\ memory' = [memory EXCEPT ![Home(a)] = Ingested(@, clock')]
  /\ stage' = [stage EXCEPT ![a] = "snapshot"]
  /\ drawn' = [drawn EXCEPT ![a] = clock']
  /\ UNCHANGED <<checkpoint, deltas, touching, tagged, synced>>

Observed(s, stamp, known) == [mark |-> known, runs |-> s.runs \cup {stamp}, round |-> s.round]

\* runEndpointMonitor() up to the save; the endpoint may have been skipped.
Observe(a) ==
  LET own == memory[Home(a)] IN
  /\ stage[a] = "idle"
  /\ clock' = clock + 1
  /\ \E known \in {own.mark, IF own.mark = 0 THEN 0 ELSE clock'} :
       memory' = [memory EXCEPT ![Home(a)] = Observed(own, clock', known)]
  /\ stage' = [stage EXCEPT ![a] = "delta"]
  /\ drawn' = [drawn EXCEPT ![a] = clock']
  /\ UNCHANGED <<checkpoint, deltas, touching, tagged, synced>>

\* The snapshot an actor at "first" or "snapshot" passes to saveSnapshot().
ToSave(a) ==
  IF stage[a] = "first" THEN Ingested(Empty, drawn[a]) ELSE memory[Home(a)]

\* Variants: the folded deltas are left with the old checkpoint; the merge is saved and
\* not given back to the caller.
RetaggedNone(D) == {}
Retagged(D) == D
OwnKept(own, merge) == own
Given(own, merge) == merge

\* saveSnapshot(): fold the pending deltas in, insert the checkpoint, retag them, commit,
\* and assign the merge to the store that was passed.
SnapshotSaved(a) ==
  /\ stage[a] \in {"first", "snapshot"}
  /\ checkpoint' = Merge(ToSave(a), tagged)
  /\ tagged' = Retagged(tagged)
  /\ memory' = [memory EXCEPT ![Home(a)] = Given(ToSave(a), checkpoint')]
  /\ stage' = [stage EXCEPT ![a] = Ended(a, "succeeded")]
  /\ drawn' = [drawn EXCEPT ![a] = 0]
  /\ synced' = (Home(a) = Us)
  /\ UNCHANGED <<clock, deltas, touching>>

\* The transaction commits and its acknowledgement is lost.
SnapshotUnanswered(a) ==
  /\ stage[a] \in {"first", "snapshot"}
  /\ checkpoint' = Merge(ToSave(a), tagged)
  /\ tagged' = Retagged(tagged)
  /\ stage' = [stage EXCEPT ![a] = Ended(a, "failed")]
  /\ drawn' = [drawn EXCEPT ![a] = 0]
  /\ synced' = FALSE
  /\ UNCHANGED <<clock, deltas, touching, memory>>

\* saveMonitorDelta(): the run, its events and its updates, tagged with the checkpoint.
DeltaSaved(a) ==
  /\ stage[a] = "delta"
  /\ deltas' = deltas \cup {drawn[a]}
  /\ tagged' = tagged \cup {drawn[a]}
  /\ touching' = IF memory[Home(a)].mark = drawn[a] THEN touching \cup {drawn[a]} ELSE touching
  /\ \E answered \in BOOLEAN :
       /\ stage' = [stage EXCEPT ![a] = Ended(a, IF answered THEN "succeeded" ELSE "failed")]
       /\ synced' = (synced /\ Home(a) = Us /\ answered)
  /\ drawn' = [drawn EXCEPT ![a] = 0]
  /\ UNCHANGED <<clock, checkpoint, memory>>

\* Either transaction rolls back: the store keeps what it was about to save.
SaveFails(a) ==
  /\ stage[a] \in {"first", "snapshot", "delta"}
  /\ stage' = [stage EXCEPT ![a] = Ended(a, "failed")]
  /\ drawn' = [drawn EXCEPT ![a] = 0]
  /\ synced' = (synced /\ Home(a) # Us)
  /\ UNCHANGED <<clock, checkpoint, deltas, touching, tagged, memory>>

Save(a) == SnapshotSaved(a) \/ SnapshotUnanswered(a) \/ DeltaSaved(a) \/ SaveFails(a)

-----------------------------------------------------------------------------
(* The jobs of this process *)

\* buildApp(): the startup load is chained before anything else can be.
Boot == born = 0 /\ Run /\ UNCHANGED storeVars

\* POST /v1/ingest/pay-sh and /v1/monitor/run, the live bootstrap, and the timers.
Chained ==
  /\ born > 0
  /\ \/ Run
     \/ \E n \in Names : ScheduleFirst(n)
     \/ \E n \in Names : ScheduleCoalesced(n)
  /\ UNCHANGED storeVars

Drain(n) == (DrainAgain(n) \/ DrainDone(n)) /\ UNCHANGED storeVars
StartJob(j) == Start(j) /\ UNCHANGED storeVars

\* The first job loads; a timer's job is its own; a manual one ingests or monitors.
BeginLoad(j) == j = 1 /\ (Restore(j) \/ FirstCatalog(j) \/ NothingNew(j))
BeginIngestion(j) == j > 1 /\ owner[j] # Monitor /\ (Ingest(j) \/ NothingNew(j))
BeginMonitor(j) == j > 1 /\ owner[j] # Ingestion /\ Observe(j)

Work(j) ==
  /\ status[j] = "active"
  /\ BeginLoad(j) \/ BeginIngestion(j) \/ BeginMonitor(j) \/ Save(j)
  /\ UNCHANGED vars

FinishJob(j) ==
  /\ stage[j] \in {"succeeded", "failed"}
  /\ Finish(j) /\ status'[j] = stage[j]
  /\ stage' = [stage EXCEPT ![j] = "idle"]
  /\ UNCHANGED <<clock, checkpoint, deltas, touching, tagged, memory, drawn, synced>>

CloseApp == Close /\ UNCHANGED storeVars
CloseDone == CloseResolve /\ UNCHANGED storeVars

\* A stamp is kept for every job that may still draw one.
Spare == clock + Cardinality({j \in JobId : ~Settled(j)}) < MaxStamp

PeerWork(p) ==
  /\ \/ Restore(p)
     \/ Spare /\ (FirstCatalog(p) \/ Ingest(p) \/ Observe(p))
     \/ Save(p)
  /\ UNCHANGED vars

RadarNext ==
  \/ Boot
  \/ Chained
  \/ \E n \in Names : Drain(n)
  \/ \E j \in JobId : StartJob(j) \/ Work(j) \/ FinishJob(j)
  \/ CloseApp
  \/ CloseDone
  \/ \E p \in Peers : PeerWork(p)

RadarSpec == RadarInit /\ [][RadarNext]_radarVars

(***************************************************************************)
(* The event loop runs every ready callback, and a job's fetches and       *)
(* transactions end: both carry timeouts.  Nothing obliges a peer, a       *)
(* timer, a caller or the operator who closes the server.                  *)
(***************************************************************************)
RadarFairSpec ==
  /\ RadarSpec
  /\ \A j \in JobId : WF_radarVars(StartJob(j)) /\ WF_radarVars(Work(j)) /\ WF_radarVars(FinishJob(j))
  /\ \A n \in Names : WF_radarVars(Drain(n))
  /\ WF_radarVars(CloseDone)

-----------------------------------------------------------------------------
\* Whatever stale store a process saves over it, a committed monitor run is replayed by
\* every later restart, and the endpoint shows what the committed run observed that
\* started last (docs/reviews/pr-35-release-recovery.md, "Ordering and restart qualification").
NoRunLost ==
  /\ deltas \subseteq Recovered.runs
  /\ checkpoint.round > 0 => \A r \in touching : r <= Recovered.mark

\* Between two jobs, a process whose saves were all acknowledged and that had no rival
\* serves exactly what it would serve after a restart.
RestartEquivalent ==
  synced /\ (\A j \in JobId : stage[j] \in {"idle", "succeeded"}) => memory[Us] = Recovered
===============================================================================
