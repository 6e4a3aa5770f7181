---------------------------- MODULE ReceiptSpine ----------------------------
(***************************************************************************)
(* The part of the canonical receipt spine that strangers and retries      *)
(* write: execution proofs (executionProofService.ts) and evaluations      *)
(* (evaluationService.ts), appended to the PostgreSQL tables of            *)
(* canonicalReceiptStore.ts.  A handler looks the receipt up, works, and   *)
(* appends; between these steps others append too, so that "proved once",  *)
(* "evaluated once" and "the retry gets the same receipt" rest on the      *)
(* unique constraints and on what is re-read after a refused append.       *)
(* A receipt's hashes and signatures are those of a valid request: what is *)
(* rejected before the append leaves no trace and is the step GiveUp.      *)
(***************************************************************************)
EXTENDS Naturals

CONSTANTS
  Submissions,  \* execution proofs posted to /v1/execute-proof
  Key,          \* [Submissions -> ...]: idempotency key, hence execution id
  Judgment,     \* [Submissions -> ...]: the judgment it executes
  Settlement,   \* [Submissions -> ...]: the transaction it proves
  Requests,     \* evaluations posted to /v1/evaluate
  Token,        \* [Requests -> ...]: idempotency key, hence evaluation id
  Subject,      \* [Requests -> execution ids]: the execution they judge
  Callers,      \* concurrent handlers, of one process or of several
  MaxTime,      \* bound of the clock that stamps evaluated_at
  None          \* no such receipt

ASSUME SpineAssumption ==
  /\ Submissions \cap Requests = {}
  /\ MaxTime \in Nat
  /\ None \notin Submissions \cup Requests \cup [request : Requests, at : 0..MaxTime]

VARIABLES
  executions,   \* execution_receipts: execution id -> the proof recorded
  evaluations,  \* evaluation_receipts: evaluation id -> [request, at]
  calls,        \* each handler's place, request, sealed receipt and error
  now,          \* Date.now()
  answered,     \* history: [item, receipt] of every 200 response
  refused       \* history: every item that was answered 409

vars == <<executions, evaluations, calls, now, answered, refused>>

Items        == Submissions \cup Requests
ExecutionIds == {Key[s] : s \in Submissions}
Evaluation   == [request : Requests, at : 0..MaxTime]
Receipts     == Submissions \cup Evaluation
Resting      == {"idle", "unavailable"}
Working      == {"lookup", "verify", "parent", "append", "reread"}
Errors       == {"none", "conflict", "used", "failed"}
Call         == [at : Resting \cup Working, item : Items \cup {None},
                 sealed : Receipts \cup {None}, error : Errors]

TypeOK ==
  /\ executions \in [ExecutionIds -> Submissions \cup {None}]
  /\ evaluations \in [{Token[r] : r \in Requests} -> Evaluation \cup {None}]
  /\ calls \in [Callers -> Call]
  /\ now \in 0..MaxTime
  /\ answered \subseteq [item : Items, receipt : Receipts]
  /\ refused \subseteq Items

Rest == [at |-> "idle", item |-> None, sealed |-> None, error |-> "none"]

Init ==
  /\ executions = [id \in ExecutionIds |-> None]
  /\ evaluations = [id \in {Token[r] : r \in Requests} |-> None]
  /\ calls = [c \in Callers |-> Rest]
  /\ now = 0
  /\ answered = {}
  /\ refused = {}

-----------------------------------------------------------------------------
\* What the store holds under the id the item asks for, and whether that is
\* the item's own receipt: the same submission hash, the same request hash.
Stored(i) ==
  IF i \in Submissions THEN executions[Key[i]] ELSE evaluations[Token[i]]
Own(i, receipt) ==
  IF i \in Submissions THEN receipt = i
  ELSE receipt # None /\ receipt.request = i

Goto(c, where) == calls' = [calls EXCEPT ![c].at = where]
Fail(c, error) == calls' = [calls EXCEPT ![c].at = "reread", ![c].error = error]
Answer(c, receipt) ==
  /\ calls' = [calls EXCEPT ![c] = Rest]
  /\ answered' = answered \cup {[item |-> calls[c].item, receipt |-> receipt]}
  /\ UNCHANGED refused
Refuse(c) ==
  /\ calls' = [calls EXCEPT ![c] = Rest]
  /\ refused' = refused \cup {calls[c].item}
  /\ UNCHANGED answered
Silently == UNCHANGED <<answered, refused>>

\* A request arrives; a client may repeat any request at any time.
Begin(c, i) ==
  /\ calls[c].at \in Resting
  /\ calls' = [calls EXCEPT ![c] = [Rest EXCEPT !.at = "lookup", !.item = i]]
  /\ Silently /\ UNCHANGED <<executions, evaluations, now>>

\* The idempotent answer, or 409 when the key was used for something else.
Lookup(c) ==
  LET i == calls[c].item IN
  /\ calls[c].at = "lookup"
  /\ \/ /\ Stored(i) = None
        /\ Goto(c, IF i \in Submissions THEN "verify" ELSE "parent")
        /\ Silently
     \/ Stored(i) # None /\ Own(i, Stored(i)) /\ Answer(c, Stored(i))
     \/ Stored(i) # None /\ ~Own(i, Stored(i)) /\ Refuse(c)
  /\ UNCHANGED <<executions, evaluations, now>>

\* The judgment, its evidence, the signature and the finalized transfer hold.
Verify(c) ==
  /\ calls[c].at = "verify"
  /\ calls' = [calls EXCEPT ![c].at = "append", ![c].sealed = calls[c].item]
  /\ Silently /\ UNCHANGED <<executions, evaluations, now>>

\* write(): the parent execution is read, and the receipt stamped and sealed.
Executed(r) == Subject[r] \in ExecutionIds /\ executions[Subject[r]] # None
ReadParent(c) ==
  /\ calls[c].at = "parent"
  /\ Executed(calls[c].item)
  /\ calls' = [calls EXCEPT ![c].at = "append",
                 ![c].sealed = [request |-> calls[c].item, at |-> now]]
  /\ Silently /\ UNCHANGED <<executions, evaluations, now>>
-----------------------------------------------------------------------------
\* append(): one transaction.  The unique constraints beside the primary key:
\* the partial indexes on the judgment and on the settlement of a proof, and
\* the execution of an evaluation.  (TakenByJudgment, NeverEvaluated: a schema
\* without one of them.)
TakenByJudgment(s) ==
  \E id \in ExecutionIds \ {Key[s]} :
    executions[id] # None /\ Judgment[executions[id]] = Judgment[s]
Taken(s) ==
  \E id \in ExecutionIds \ {Key[s]} :
    /\ executions[id] # None
    /\ \/ Judgment[executions[id]] = Judgment[s]
       \/ Settlement[executions[id]] = Settlement[s]
NeverEvaluated(r) == FALSE
Evaluated(r) ==
  \E id \in DOMAIN evaluations \ {Token[r]} :
    evaluations[id] # None /\ Subject[evaluations[id].request] = Subject[r]
Constrained(i) == IF i \in Submissions THEN Taken(i) ELSE Evaluated(i)

\* INSERT ... ON CONFLICT (id) DO NOTHING, and COMMIT.
Write(i, receipt) ==
  IF i \in Submissions
  THEN /\ executions' = [executions EXCEPT ![Key[i]] = receipt]
       /\ UNCHANGED evaluations
  ELSE /\ evaluations' = [evaluations EXCEPT ![Token[i]] = receipt]
       /\ UNCHANGED executions

\* The row is written; the commit may be acknowledged or its answer lost.
Insert(c) ==
  LET i == calls[c].item IN
  /\ calls[c].at = "append"
  /\ Stored(i) = None /\ ~Constrained(i)
  /\ Write(i, calls[c].sealed)
  /\ Answer(c, calls[c].sealed) \/ (Fail(c, "failed") /\ Silently)
  /\ UNCHANGED now

\* The id exists: the identical receipt is returned, another one is an error.
\* A rival that inserts the same row at the same instant can also make the
\* unique index on receipt_hash fail before the id is seen to exist; that
\* error is no constraint on the execution evaluated.
Collide(c) ==
  LET i == calls[c].item IN
  /\ calls[c].at = "append"
  /\ Stored(i) # None
  /\ \/ Stored(i) = calls[c].sealed /\ Answer(c, calls[c].sealed)
     \/ Stored(i) # calls[c].sealed /\ Fail(c, "conflict") /\ Silently
     \/ /\ Stored(i) = calls[c].sealed
        /\ Fail(c, IF i \in Submissions THEN "used" ELSE "failed") /\ Silently
  /\ UNCHANGED <<executions, evaluations, now>>

\* SQLSTATE 23505 on a constraint other than the id.
Violate(c) ==
  /\ calls[c].at = "append"
  /\ Stored(calls[c].item) = None /\ Constrained(calls[c].item)
  /\ Fail(c, "used") /\ Silently
  /\ UNCHANGED <<executions, evaluations, now>>

\* The connection fails before anything is written.
Disconnect(c) ==
  /\ calls[c].at = "append"
  /\ Fail(c, "failed") /\ Silently
  /\ UNCHANGED <<executions, evaluations, now>>

\* What a handler answers once its append failed.  submit() always reads the
\* execution again; the evaluation only after the two errors of a rival.
Refusing(i, error) ==
  IF i \in Submissions THEN error = "used" ELSE error \in {"conflict", "used"}
RereadsUnavailable(i, error) == ~Refusing(i, error)
Rereads(i, error) == i \in Submissions \/ Refusing(i, error)
SealedAnyway(c) == calls[c].sealed
Winner(c) == Stored(calls[c].item)
Reread(c) ==
  LET i == calls[c].item
      won == Rereads(i, calls[c].error) /\ Own(i, Stored(i))
  IN
  /\ calls[c].at = "reread"
  /\ \/ won /\ Answer(c, Winner(c))
     \/ ~won /\ Refusing(i, calls[c].error) /\ Refuse(c)
     \/ ~won /\ ~Refusing(i, calls[c].error)
        /\ Goto(c, "unavailable") /\ Silently
  /\ UNCHANGED <<executions, evaluations, now>>

\* Any step may throw, the process may die, the client may go: no answer.
GiveUp(c) ==
  /\ calls[c].at \in Working
  /\ calls' = [calls EXCEPT ![c] = Rest]
  /\ Silently /\ UNCHANGED <<executions, evaluations, now>>

Tick ==
  /\ now < MaxTime
  /\ now' = now + 1
  /\ UNCHANGED <<executions, evaluations, calls, answered, refused>>

Step(c) ==
  \/ \E i \in Items : Begin(c, i)
  \/ Lookup(c) \/ Verify(c) \/ ReadParent(c)
  \/ Insert(c) \/ Collide(c) \/ Violate(c) \/ Disconnect(c)
  \/ Reread(c) \/ GiveUp(c)
Next == Tick \/ \E c \in Callers : Step(c)
Spec == Init /\ [][Next]_vars
-----------------------------------------------------------------------------
\* A judgment authorizes one proved execution and a transaction proves one,
\* whatever idempotency keys the racing submissions carry.
ProvedOnce ==
  \A a, b \in ExecutionIds :
    (a # b /\ executions[a] # None /\ executions[b] # None)
      => /\ Judgment[executions[a]] # Judgment[executions[b]]
         /\ Settlement[executions[a]] # Settlement[executions[b]]

\* One execution moves the score once: its evaluations under different keys
\* never both exist, and none exists without its execution.
EvaluatedOnce ==
  \A a, b \in DOMAIN evaluations :
    (evaluations[a] # None /\ evaluations[b] # None) =>
      /\ Executed(evaluations[a].request)
      /\ a # b => Subject[evaluations[a].request] # Subject[evaluations[b].request]

\* Handlers that race, retry and die look to their clients like one registry:
\* "concurrent retry winners return that same receipt", a receipt once answered
\* stays the recorded one, a 409 is never given for what is or will be recorded.
Rivals ==
  {p \in (Submissions \X Submissions) \cup (Requests \X Requests) :
     /\ p[1] # p[2]
     /\ IF p[1] \in Submissions
        THEN \/ Key[p[1]] = Key[p[2]] \/ Judgment[p[1]] = Judgment[p[2]]
             \/ Settlement[p[1]] = Settlement[p[2]]
        ELSE Token[p[1]] = Token[p[2]] \/ Subject[p[1]] = Subject[p[2]]}
Recorded == [i \in Items |-> IF Own(i, Stored(i)) THEN Stored(i) ELSE None]
Registry == INSTANCE ReceiptRegistry WITH recorded <- Recorded
ImplementsRegistry == Registry!RegistrySpec
=============================================================================
