---------------------------- MODULE ExecutionGate ----------------------------
(***************************************************************************)
(* The economic execution gate, execute() and reconcile() of               *)
(* src/services/economicExecutionGate.ts, composed with the engine that    *)
(* issues the authorizations it spends (EconomicEngine).                   *)
(*                                                                         *)
(* The payment rail behind an executor is external: once the operation of  *)
(* an authorization has been dispatched it may settle, at any time, also   *)
(* after the gate's timeout, and never twice (authorization_id is the      *)
(* rail's idempotency key).  What an executor claims about the outcome is  *)
(* not trusted; executor.verify() answers from the settlement itself.      *)
(***************************************************************************)
EXTENDS EconomicEngine

CONSTANTS
  Gates,         \* execute() and reconcile() calls that may be in progress at once
  Refs,          \* settlement references of the chain the operations run on
  Charges,       \* amounts a rail may charge, fee included
  Details,       \* response hash, status and artifacts of an outcome
  NoOutcome

VARIABLES
  execution,    \* state of the execution record
  submittedAt,  \* its submitted_at
  outcome,      \* its outcome
  latency,      \* 1 once its latency_ms is recorded
  receipt,      \* the execution receipt in the receipt store
  dispatched,   \* times executor.execute() was called for the authorization
  settled,      \* what the rail has settled for it
  gate          \* calls in progress

gateVars == <<execution, submittedAt, outcome, latency, receipt, dispatched, settled, gate>>
vars == <<engineVars, gateVars>>

Outcome == [ref : Refs, charge : Charges, detail : Details]
Settlement == [ref : Refs, charge : Charges]
Receipt == [outcome : Outcome, latency : {0, 1}, at : Nat]

ASSUME GateAssumption ==
  /\ Charges \subseteq Nat
  /\ NoOutcome \notin Outcome /\ NoOutcome \notin Settlement /\ NoOutcome \notin Receipt

\* A call: the next await to resume, the evidence and policy it has read, the
\* executor's claim, and the latency in the record it publishes from.
GateCall == [pc : {"idle", "preflight", "policy", "submit", "dispatch", "reply", "query",
                   "verify", "publish", "finalize"},
             req : Requests \cup {NoRequest}, seen : Evidence, policyOk : BOOLEAN,
             claim : Outcome \cup {NoOutcome}, latency : {0, 1}]
GateCallOf(r, pc, o, ms) == [pc |-> pc, req |-> r, seen |-> "approves", policyOk |-> FALSE,
                             claim |-> o, latency |-> ms]
Resting == GateCallOf(NoRequest, "idle", NoOutcome, 0)

GateTypeOK ==
  /\ execution \in [Requests -> {"none", "submitted", "verified", "finalized"}]
  /\ submittedAt \in [Requests -> Nat]
  /\ outcome \in [Requests -> Outcome \cup {NoOutcome}]
  /\ latency \in [Requests -> {0, 1}]
  /\ receipt \in [Requests -> Receipt \cup {NoOutcome}]
  /\ dispatched \in [Requests -> Nat]
  /\ settled \in [Requests -> Settlement \cup {NoOutcome}]
  /\ gate \in [Gates -> GateCall]

TypeOK == EngineTypeOK /\ GateTypeOK

Init ==
  /\ EngineInit
  /\ execution = [r \in Requests |-> "none"]
  /\ submittedAt = [r \in Requests |-> 0]
  /\ outcome = [r \in Requests |-> NoOutcome]
  /\ latency = [r \in Requests |-> 0]
  /\ receipt = [r \in Requests |-> NoOutcome]
  /\ dispatched = [r \in Requests |-> 0]
  /\ settled = [r \in Requests |-> NoOutcome]
  /\ gate = [g \in Gates |-> Resting]

------------------------------------------------------------------------------
GoTo(g, pc) == gate' = [gate EXCEPT ![g].pc = pc]
Begin(g, r, pc) == gate' = [gate EXCEPT ![g] = GateCallOf(r, pc, NoOutcome, 0)]
Leave(g) == gate' = [gate EXCEPT ![g] = Resting]

\* Variant: finish() is given the record as it was submitted, without its latency.
PublishFromSubmitted(g, r, o) ==
  gate' = [gate EXCEPT ![g] = GateCallOf(r, "publish", o, 0)]

\* finish() starts from the execution record as it is persisted.
PublishFrom(g, r, o) ==
  gate' = [gate EXCEPT ![g] = GateCallOf(r, "publish", o, latency[r])]

\* executionAuthorizationIssuer.verify(): the capability is inside its validity window.
CapabilityValid(r) == assessedAt[r] <= clock /\ clock < validUntil[r]

\* binding(): issued, valid, not revoked, under the policy in force, and resting on a
\* published judgment that lets the principal spend.
Bound(r) ==
  /\ issuing
  /\ CapabilityValid(r)
  /\ PolicyInForce(r)
  /\ ~Withdrawn(r)
  /\ r \in issued
  /\ r \in judged /\ verdict[r] = "ALLOW"

\* execute(): bind, look for an execution record, start the preflight.  A record that
\* is verified goes straight to finish(); a submitted one is refused as pending.
Execute(g, r) ==
  /\ gate[g].pc = "idle"
  /\ Bound(r)
  /\ execution[r] = "none"
  /\ Begin(g, r, "preflight")
  /\ UNCHANGED <<engineVars, execution, submittedAt, outcome, latency, receipt, dispatched, settled>>

ExecuteAgain(g, r) ==
  /\ gate[g].pc = "idle"
  /\ Bound(r)
  /\ execution[r] = "verified"
  /\ PublishFrom(g, r, outcome[r])
  /\ UNCHANGED <<engineVars, execution, submittedAt, outcome, latency, receipt, dispatched, settled>>

\* Variant: the observations are those of the assessment.
RefreshUnlisted(g) ==
  LET r == gate[g].req IN
  /\ gate[g].pc = "preflight"
  /\ Bound(r)
  /\ GoTo(g, "policy")
  /\ UNCHANGED <<engineVars, execution, submittedAt, outcome, latency, receipt, dispatched, settled>>

\* The preflight has passed: bind again, then list the observations.
Refresh(g) ==
  LET r == gate[g].req IN
  /\ gate[g].pc = "preflight"
  /\ Bound(r)
  /\ gate' = [gate EXCEPT ![g] = [@ EXCEPT !.pc = "policy", !.seen = evidence[r]]]
  /\ UNCHANGED <<engineVars, execution, submittedAt, outcome, latency, receipt, dispatched, settled>>

\* The host policy is read once more, for the transaction that follows.
ReadPolicy(g) ==
  LET r == gate[g].req IN
  /\ gate[g].pc = "policy"
  /\ gate' = [gate EXCEPT ![g] = [@ EXCEPT !.pc = "submit", !.policyOk = PolicyInForce(r)]]
  /\ UNCHANGED <<engineVars, execution, submittedAt, outcome, latency, receipt, dispatched, settled>>

\* Variant: the record and the reservation were looked at before the awaits only.
ClaimableBefore(g, r) ==
  /\ ~Withdrawn(r)
  /\ CapabilityValid(r) /\ gate[g].policyOk
  /\ Judge(r, "selects", gate[g].seen, clock) = "ALLOW"

\* What the submit transaction checks before it claims the capability.
Claimable(g, r) ==
  /\ execution[r] = "none"
  /\ ~Withdrawn(r)
  /\ CapabilityValid(r) /\ gate[g].policyOk
  /\ reservation[r] = "authorized"
  /\ Judge(r, "selects", gate[g].seen, clock) = "ALLOW"

\* The submit transaction.  submitted_at is read from the clock again after the
\* checks, so time may have moved on by then.
Submit(g) ==
  LET r == gate[g].req IN
  /\ gate[g].pc = "submit"
  /\ Claimable(g, r)
  /\ clock' \in {clock, clock + 1} /\ clock' <= MaxTime
  /\ execution' = [execution EXCEPT ![r] = "submitted"]
  /\ submittedAt' = [submittedAt EXCEPT ![r] = clock']
  /\ reservation' = [reservation EXCEPT ![r] = "submitted"]
  /\ GoTo(g, "dispatch")
  /\ UNCHANGED <<policy, evidence, issuing, attempt, expiry, verdict, assessedAt, validUntil, actual,
                 issued, revoked, disabled, costed, judged, caller,
                 outcome, latency, receipt, dispatched, settled>>

\* executor.execute() is called.
Dispatch(g) ==
  LET r == gate[g].req IN
  /\ gate[g].pc = "dispatch"
  /\ dispatched' = [dispatched EXCEPT ![r] = @ + 1]
  /\ GoTo(g, "reply")
  /\ UNCHANGED <<engineVars, execution, submittedAt, outcome, latency, receipt, settled>>

\* It answers within the timeout; the latency is recorded while the record is still
\* "submitted" (reconcile() may have verified it already).
Reply(g, o) ==
  LET r == gate[g].req IN
  /\ gate[g].pc = "reply"
  /\ latency' = IF execution[r] = "submitted" THEN [latency EXCEPT ![r] = 1] ELSE latency
  /\ gate' = [gate EXCEPT ![g] = [@ EXCEPT !.pc = "verify", !.claim = o]]
  /\ UNCHANGED <<engineVars, execution, submittedAt, outcome, receipt, dispatched, settled>>

\* reconcile(): only ever of an execution that was submitted.
Reconcile(g, r) ==
  /\ gate[g].pc = "idle"
  /\ r \in issued /\ execution[r] = "submitted"
  /\ Begin(g, r, "query")
  /\ UNCHANGED <<engineVars, execution, submittedAt, outcome, latency, receipt, dispatched, settled>>

ReconcileVerified(g, r) ==
  /\ gate[g].pc = "idle"
  /\ r \in issued /\ execution[r] = "verified"
  /\ PublishFrom(g, r, outcome[r])
  /\ UNCHANGED <<engineVars, execution, submittedAt, outcome, latency, receipt, dispatched, settled>>

\* executor.reconcile() finds an outcome.
Query(g, o) ==
  /\ gate[g].pc = "query"
  /\ gate' = [gate EXCEPT ![g] = [@ EXCEPT !.pc = "verify", !.claim = o]]
  /\ UNCHANGED <<engineVars, execution, submittedAt, outcome, latency, receipt, dispatched, settled>>

\* Variant: the executor's claim is trusted.
ConfirmedByClaim(r, o) == o.charge <= Cost[r]

\* verifyOutcome(): the caps, then executor.verify().
Confirmed(r, o) ==
  /\ o.charge <= Cost[r]
  /\ settled[r] = [ref |-> o.ref, charge |-> o.charge]

\* Variant: only executions that await their publication are compared.
SettlementReusedMeanwhile(r, o) ==
  \E q \in Requests \ {r} : execution[q] = "verified" /\ outcome[q].ref = o.ref

SettlementReused(r, o) ==
  \E q \in Requests \ {r} : outcome[q] # NoOutcome /\ outcome[q].ref = o.ref

\* verifyOutcome(), transaction: the first verified outcome of the execution.
VerifyFirst(g) ==
  LET r == gate[g].req
      o == gate[g].claim
  IN
  /\ gate[g].pc = "verify"
  /\ Confirmed(r, o)
  /\ execution[r] = "submitted"
  /\ ~SettlementReused(r, o)
  /\ execution' = [execution EXCEPT ![r] = "verified"]
  /\ outcome' = [outcome EXCEPT ![r] = o]
  /\ PublishFrom(g, r, o)
  /\ UNCHANGED <<engineVars, submittedAt, latency, receipt, dispatched, settled>>

\* Another call verified it first: the same outcome joins its publication.
VerifyAgain(g) ==
  LET r == gate[g].req
      o == gate[g].claim
  IN
  /\ gate[g].pc = "verify"
  /\ Confirmed(r, o)
  /\ execution[r] \in {"verified", "finalized"} /\ outcome[r] = o
  /\ PublishFrom(g, r, o)
  /\ UNCHANGED <<engineVars, execution, submittedAt, outcome, latency, receipt, dispatched, settled>>

\* finish(): append the execution receipt.  The receipt authority wants the execution
\* inside the judgment's window; an equal receipt is accepted, a different one is not.
ReceiptOf(g) ==
  [outcome |-> gate[g].claim, latency |-> gate[g].latency, at |-> submittedAt[gate[g].req]]
InsideWindowLess(r) == assessedAt[r] <= submittedAt[r] /\ submittedAt[r] + 1 < validUntil[r]
InsideWindow(r) == assessedAt[r] <= submittedAt[r] /\ submittedAt[r] < validUntil[r]

PublishExecution(g) ==
  LET r == gate[g].req IN
  /\ gate[g].pc = "publish"
  /\ InsideWindow(r)
  /\ receipt[r] \in {NoOutcome, ReceiptOf(g)}
  /\ receipt' = [receipt EXCEPT ![r] = ReceiptOf(g)]
  /\ GoTo(g, "finalize")
  /\ UNCHANGED <<engineVars, execution, submittedAt, outcome, latency, dispatched, settled>>

\* finish(), transaction: unless another call has done it, finalize the reservation
\* at what was charged, and the execution.
Finalize(g) ==
  LET r == gate[g].req IN
  /\ gate[g].pc = "finalize"
  /\ execution[r] # "finalized" /\ reservation[r] = "submitted"
  /\ reservation' = [reservation EXCEPT ![r] = "finalized"]
  /\ actual' = [actual EXCEPT ![r] = gate[g].claim.charge]
  /\ execution' = [execution EXCEPT ![r] = "finalized"]
  /\ Leave(g)
  /\ UNCHANGED <<hostVars, attempt, expiry, verdict, assessedAt, validUntil, issued, revoked,
                 disabled, costed, judged, caller,
                 submittedAt, outcome, latency, receipt, dispatched, settled>>

\* A call ends without a further effect: a check refused it, bounded() timed it out,
\* a store or the rail failed, or its process died.
Drop(g) ==
  /\ gate[g].pc # "idle"
  /\ Leave(g)
  /\ UNCHANGED <<engineVars, execution, submittedAt, outcome, latency, receipt, dispatched, settled>>

\* The rail settles a dispatched operation, within the authorized amount.
Settle(r) ==
  /\ dispatched[r] > 0
  /\ settled[r] = NoOutcome
  /\ \E s \in Settlement : s.charge <= Cost[r] /\ settled' = [settled EXCEPT ![r] = s]
  /\ UNCHANGED <<engineVars, execution, submittedAt, outcome, latency, receipt, dispatched, gate>>

GateStep(g) ==
  \/ Refresh(g) \/ ReadPolicy(g) \/ Submit(g) \/ Dispatch(g)
  \/ \E o \in Outcome : Reply(g, o) \/ Query(g, o)
  \/ VerifyFirst(g) \/ VerifyAgain(g) \/ PublishExecution(g) \/ Finalize(g)

GateNext ==
  \/ \E g \in Gates, r \in Requests :
       Execute(g, r) \/ ExecuteAgain(g, r) \/ Reconcile(g, r) \/ ReconcileVerified(g, r)
  \/ \E g \in Gates : GateStep(g) \/ Drop(g)
  \/ \E r \in Requests : Settle(r)

Next ==
  \/ EngineNext /\ UNCHANGED gateVars
  \/ GateNext

Spec == Init /\ [][Next]_vars

(***************************************************************************)
(* Calls end (every external await is bounded, or the process dies), and   *)
(* an operator keeps reconciling: not every attempt dies at the same       *)
(* await, and the rail does answer with what it settled.  Nothing obliges  *)
(* anyone to decide, execute or settle.                                    *)
(***************************************************************************)
Answers(g) == \E o \in Outcome : Confirmed(gate[g].req, o) /\ Query(g, o)
Reconciling(r) ==
  /\ SF_vars(\E g \in Gates : Reconcile(g, r) \/ ReconcileVerified(g, r))
  /\ SF_vars(\E g \in Gates : gate[g].req = r /\ Answers(g))
  /\ SF_vars(\E g \in Gates : gate[g].req = r /\ VerifyFirst(g))
  /\ SF_vars(\E g \in Gates : gate[g].req = r /\ PublishExecution(g))
  /\ SF_vars(\E g \in Gates : gate[g].req = r /\ Finalize(g))
FairSpec ==
  /\ Spec
  /\ \A g \in Gates : WF_vars(GateStep(g) \/ Drop(g))
  /\ \A r \in Requests : Reconciling(r)

------------------------------------------------------------------------------
\* An authorization reaches its executor at most once, whatever concurrent execute()
\* and reconcile() calls, timeouts and crashes do, and only with its capacity committed.
DispatchedOnce ==
  \A r \in Requests :
    /\ dispatched[r] <= 1
    /\ dispatched[r] = 1 => reservation[r] \in {"submitted", "finalized"}

\* What a rail settles is covered for ever: its reservation can no longer be released
\* and counts for at least what was charged, also for a settlement after the timeout.
EffectCovered ==
  \A r \in Requests : settled[r] # NoOutcome =>
    reservation[r] \in {"submitted", "finalized"} /\ settled[r].charge <= Counted(r)

\* "Concurrent requests cannot exceed caps" (docs/autonomous-economic-judgment-spec.md:213): the
\* money a principal's operations really moved stays within a budget it reserved under.
Charge(r) == settled[r].charge
Moved(p) == {r \in Requests : Payer[r] = p /\ settled[r] # NoOutcome}
RealSpend(p) == SumFunction([r \in Requests |-> IF r \in Moved(p) THEN Charge(r) ELSE 0])
RealSpendWithinBudget ==
  \A p \in Principals : Moved(p) # {} =>
    \E r \in Requests : /\ Payer[r] = p /\ reservation[r] # "none"
                        /\ RealSpend(p) <= Budget[PolicyOf[r]]

\* The engine and its gate keep the promise of SpendLedger: a principal's limit is the
\* largest budget of the policies it reserves under.
HoldOf == [none |-> "free", reserved |-> "held", authorized |-> "held",
           submitted |-> "committed", finalized |-> "spent", released |-> "returned"]
Ledger == INSTANCE SpendLedger WITH
  Limit <- [p \in Principals |-> Max({Budget[PolicyOf[r]] : r \in {q \in Requests : Payer[q] = p}})],
  hold <- [r \in Requests |-> HoldOf[reservation[r]]],
  charged <- actual,
  paid <- [r \in Requests |-> IF settled[r] = NoOutcome THEN 0 ELSE settled[r].charge]
ImplementsLedger == Ledger!LedgerSpec

\* One settlement proves one execution: no two executions rest on the same reference.
SettlementUnique ==
  \A q, r \in Requests :
    outcome[q] # NoOutcome /\ outcome[r] # NoOutcome /\ outcome[q].ref = outcome[r].ref => q = r

\* The canonical receipt says what the execution record says, although an execute() and
\* a reconcile() may both publish it and the latency is recorded concurrently; a
\* finalized execution has its receipt and was charged by it.
ReceiptMatchesRecord ==
  \A r \in Requests :
    /\ receipt[r] # NoOutcome =>
         receipt[r] = [outcome |-> outcome[r], latency |-> latency[r], at |-> submittedAt[r]]
    /\ execution[r] = "finalized" => receipt[r] # NoOutcome /\ actual[r] = outcome[r].charge

\* "Refresh after preflight: expiry, revocation, and newer negative observations win"
\* (economicExecutionGate.ts:111): once the cited evidence is superseded, an execution
\* not yet past its preflight is never submitted.
BeforeRefresh(r) ==
  execution[r] = "none" /\ \A g \in Gates : gate[g].req = r => gate[g].pc = "preflight"
NegativeEvidenceWins ==
  \A r \in Requests :
    [](evidence[r] = "superseded" /\ BeforeRefresh(r) => [](execution[r] = "none"))

\* "Verified outcomes persist before canonical execution publication, allowing receipt
\* recovery" (docs/economic-engine-implementation.md:85): what the rail settled is finally
\* accounted for, unless its reference already proves another execution, or it was
\* submitted as its window closed, when no receipt can be published (line 130).
SettlementAccounted ==
  \A r \in Requests : settled[r] # NoOutcome ~>
    \/ execution[r] = "finalized"
    \/ settled[r] # NoOutcome /\ SettlementReused(r, settled[r])
    \/ submittedAt[r] >= validUntil[r]
=============================================================================
