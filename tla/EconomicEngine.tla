---------------------------- MODULE EconomicEngine ----------------------------
(***************************************************************************)
(* The economic judgment engine: decide() and recoverAssessment() of       *)
(* src/services/economicJudgmentEngine.ts, revoke() of                     *)
(* economicExecutionGate.ts, over the durable records of                   *)
(* src/persistence/economicEngineStore.ts.                                 *)
(*                                                                         *)
(* store.transaction() holds one advisory lock, so a transaction is one    *)
(* action here.  Between two transactions a call awaits the observation    *)
(* list, the model, the host policy or the receipt store; every such await *)
(* is a point where other calls, the host and the clock take their steps,  *)
(* and where the process can die.  What the call has read so far is in its *)
(* record of "caller"; everything else is durable.                         *)
(*                                                                         *)
(* A request is a (principal, request_id) pair.  Its attempt, reservation, *)
(* authorization and execution have ids derived from it, so each is a      *)
(* function of the request.  DEGRADE is treated as ALLOW: both reserve,    *)
(* authorize and execute.  A verdict citing no evidence (UNPROVEN, or      *)
(* BLOCK by a static policy gate) publishes and reserves nothing and is    *)
(* called "UNPROVEN"; "BLOCK" is a refusal that cites evidence.            *)
(*                                                                         *)
(* An operator introduced as a "Variant" is a plausible slip in the        *)
(* operator that follows it; no action uses it.                            *)
(***************************************************************************)
EXTENDS Naturals, FiniteSets, FiniteSetsExt

CONSTANTS
  Requests, Principals, Profiles, Policies, Callers,
  Payer,       \* Payer[r]: principal_id of request r
  ProfileOf,   \* ProfileOf[r]: profile_id of the operation r's candidate would run
  PolicyOf,    \* PolicyOf[r]: the policy revision frozen in r's job
  Cost,        \* Cost[r]: amount_atomic + max_fee_atomic of that operation
  FreshUntil,  \* FreshUntil[r]: freshness_expires_at of the evidence r cites
  Budget,      \* Budget[v]: budget_atomic of policy revision v
  MaxCalls,    \* MaxCalls[v]: max_calls_per_window
  Window,      \* Window[v]: velocity_window_ms
  Lifetime,    \* Lifetime[v]: ttl_ms of the decision envelope
  NoRequest, NoPolicy,
  HostEvents,  \* kinds of host events in the instance: bounds the environment, not the code
  MaxTime      \* bound on the clock

ASSUME EngineAssumption ==
  /\ IsFiniteSet(Requests) /\ Payer \in [Requests -> Principals]
  /\ ProfileOf \in [Requests -> Profiles]
  /\ PolicyOf \in [Requests -> Policies]
  /\ Cost \in [Requests -> Nat] /\ FreshUntil \in [Requests -> Nat]
  /\ Budget \in [Policies -> Nat] /\ MaxCalls \in [Policies -> Nat]
  /\ Window \in [Policies -> Nat] /\ Lifetime \in [Policies -> Nat]
  /\ NoRequest \notin Requests /\ NoPolicy \notin Policies
  /\ MaxTime \in Nat

VARIABLES
  clock,        \* the wall clock of the host
  policy,       \* options.currentPolicy(principal): the host's policy in force
  evidence,     \* what the receipt store holds on the evidence a request cites
  issuing,      \* allowAuthorizations, an issuer and the executors are configured
  attempt,      \* status of the attempt record
  expiry,       \* envelope.expires_at, frozen in the attempt
  verdict,      \* attempt.result.verdict
  assessedAt,   \* attempt.assessed_at, also the reservation's created_at
  validUntil,   \* attempt.valid_until, also the reservation's expires_at
  reservation,  \* state of the spend reservation
  actual,       \* its actual_amount_atomic, once finalized
  issued,       \* requests with an authorization record
  revoked,      \* requests whose authorization has a revocation record
  disabled,     \* profiles with a revocation record
  costed,       \* attempts with an 'inference_attempt_' cost record
  judged,       \* requests whose judgment receipt is published
  caller        \* decide() and recoverAssessment() calls in progress

hostVars   == <<clock, policy, evidence, issuing>>
storeVars  == <<attempt, expiry, verdict, assessedAt, validUntil, reservation, actual, issued, revoked, disabled, costed>>
engineVars == <<hostVars, storeVars, judged, caller>>

Evidence == {"approves", "vetoes", "superseded"}
Verdict == {"ALLOW", "BLOCK", "UNPROVEN"}
AttemptStatus == {"none", "evaluating", "assessed", "complete"}
ReservationState == {"none", "reserved", "authorized", "submitted", "finalized", "released"}

\* A call: the next await to resume, the request, the observations and answer it
\* has read, the time of its assessment, whether the policy read is the job's and
\* whether it holds the judgment receipt.
Call == [pc : {"idle", "observe", "infer", "reserve", "publish", "complete"},
         req : Requests \cup {NoRequest}, seen : Evidence, verdict : Verdict,
         at : Nat, policyOk : BOOLEAN, judgment : BOOLEAN]
CallOf(r, pc) == [pc |-> pc, req |-> r, seen |-> "approves", verdict |-> "UNPROVEN",
                  at |-> 0, policyOk |-> FALSE, judgment |-> FALSE]
Idle == CallOf(NoRequest, "idle")

EngineTypeOK ==
  /\ clock \in 0 .. MaxTime
  /\ policy \in [Principals -> Policies \cup {NoPolicy}]
  /\ evidence \in [Requests -> Evidence]
  /\ issuing \in BOOLEAN
  /\ attempt \in [Requests -> AttemptStatus]
  /\ expiry \in [Requests -> Nat]
  /\ verdict \in [Requests -> Verdict]
  /\ assessedAt \in [Requests -> Nat]
  /\ validUntil \in [Requests -> Nat]
  /\ reservation \in [Requests -> ReservationState]
  /\ actual \in [Requests -> Nat]
  /\ issued \subseteq Requests
  /\ revoked \subseteq Requests
  /\ disabled \subseteq Profiles
  /\ costed \subseteq Requests
  /\ judged \subseteq Requests
  /\ caller \in [Callers -> Call]

EngineInit ==
  /\ clock = 0
  /\ policy \in [Principals -> Policies]
  /\ evidence \in [Requests -> IF "evidence" \in HostEvents THEN {"approves", "vetoes"} ELSE {"approves"}]
  /\ issuing = TRUE
  /\ attempt = [r \in Requests |-> "none"]
  /\ expiry = [r \in Requests |-> 0]
  /\ verdict = [r \in Requests |-> "UNPROVEN"]
  /\ assessedAt = [r \in Requests |-> 0]
  /\ validUntil = [r \in Requests |-> 0]
  /\ reservation = [r \in Requests |-> "none"]
  /\ actual = [r \in Requests |-> 0]
  /\ issued = {} /\ revoked = {} /\ disabled = {} /\ costed = {} /\ judged = {}
  /\ caller = [c \in Callers |-> Idle]

------------------------------------------------------------------------------
Earlier(s, t) == IF s < t THEN s ELSE t
PolicyInForce(r) == policy[Payer[r]] = PolicyOf[r]
Withdrawn(r) == r \in revoked \/ ProfileOf[r] \in disabled

\* judgeEconomicDecision: a verified veto comes before the model's abstention,
\* expiry before both, and approval needs current, fresh, cited evidence.
Judge(r, answer, seen, now) ==
  IF expiry[r] <= now THEN "UNPROVEN"
  ELSE IF seen = "vetoes" /\ FreshUntil[r] > now THEN "BLOCK"
  ELSE IF answer = "selects" /\ seen = "approves" /\ FreshUntil[r] > now THEN "ALLOW"
  ELSE "UNPROVEN"

\* Variant: capacity is no longer held once the operation is submitted.
LiveUnlessSubmitted(state) == state \in {"reserved", "authorized", "finalized"}
\* Reservations that count against the caps, and what each of them counts for.
Live(state) == state \in {"reserved", "authorized", "submitted", "finalized"}
Counted(r) == IF reservation[r] = "finalized" THEN actual[r] ELSE Cost[r]
Spent(held, p) ==
  SumFunction([r \in Requests |-> IF r \in held /\ Payer[r] = p THEN Counted(r) ELSE 0])

\* Variant: expiry and revocation release submitted reservations too.
Unfinalized(r) == reservation[r] \in {"reserved", "authorized", "submitted"}
Unsubmitted(r) == reservation[r] \in {"reserved", "authorized"}
\* Variant: off by one at the end of the window.
ExpiredEarly(now) == {r \in Requests : Unsubmitted(r) /\ validUntil[r] <= now + 1}
\* The sweep of decide(): unsubmitted reservations that had expired at time "now".
Expired(now) == {r \in Requests : Unsubmitted(r) /\ validUntil[r] <= now}
HeldAfterSweep(now) == {r \in Requests : Live(reservation[r])} \ Expired(now)

\* Variant: the new amount is not added.
WithinBudgetBefore(r, now) ==
  Spent(HeldAfterSweep(now), Payer[r]) <= Budget[PolicyOf[r]]
WithinBudget(r, now) ==
  Spent(HeldAfterSweep(now), Payer[r]) + Cost[r] <= Budget[PolicyOf[r]]
Recent(r, now) ==
  {q \in HeldAfterSweep(now) : Payer[q] = Payer[r] /\ assessedAt[q] + Window[PolicyOf[r]] > now}
\* Variant: off by one.
WithinVelocityInclusive(r, now) == Cardinality(Recent(r, now)) <= MaxCalls[PolicyOf[r]]
WithinVelocity(r, now) == Cardinality(Recent(r, now)) < MaxCalls[PolicyOf[r]]

Release(rs) == [r \in Requests |-> IF r \in rs THEN "released" ELSE reservation[r]]
Released(rs) == reservation' = Release(rs)

Step(c, pc) == caller' = [caller EXCEPT ![c].pc = pc]
Return(c) == caller' = [caller EXCEPT ![c] = Idle]

------------------------------------------------------------------------------
\* Variant: an attempt left "evaluating" is started again.
UnassessedRequest(r) == attempt[r] \in {"none", "evaluating"}
NewRequest(r) == attempt[r] = "none"

\* decide(), first transaction: freeze the job and its envelope as an attempt.
Decide(c, r) ==
  /\ caller[c].pc = "idle"
  /\ NewRequest(r)
  /\ attempt' = [attempt EXCEPT ![r] = "evaluating"]
  /\ expiry' = [expiry EXCEPT ![r] = clock + Lifetime[PolicyOf[r]]]
  /\ caller' = [caller EXCEPT ![c] = CallOf(r, "observe")]
  /\ UNCHANGED <<hostVars, verdict, assessedAt, validUntil, reservation, actual,
                 issued, revoked, disabled, costed, judged>>

\* decide() of a request that has an attempt, or recoverAssessment(): an attempt
\* still "evaluating" is refused and a "complete" one is returned as it stands.
Resume(c, r) ==
  /\ caller[c].pc = "idle"
  /\ attempt[r] = "assessed"
  /\ caller' = [caller EXCEPT ![c] = CallOf(r, "publish")]
  /\ UNCHANGED <<hostVars, storeVars, judged>>

\* The observations are listed, then the cost of the model call is recorded as
\* unknown before the call is made.
Observe(c) ==
  LET r == caller[c].req IN
  /\ caller[c].pc = "observe"
  /\ costed' = costed \cup {r}
  /\ caller' = [caller EXCEPT ![c] = [@ EXCEPT !.pc = "infer", !.seen = evidence[r]]]
  /\ UNCHANGED <<hostVars, attempt, expiry, verdict, assessedAt, validUntil, reservation,
                 actual, issued, revoked, disabled, judged>>

\* The model answers or the host turns its timeout into an abstention; the answer is
\* judged at that time, and a policy that is no longer the host's makes it UNPROVEN.
Infer(c) ==
  LET r == caller[c].req IN
  /\ caller[c].pc = "infer"
  /\ \E answer \in {"selects", "abstains"} :
       LET v == IF PolicyInForce(r) THEN Judge(r, answer, caller[c].seen, clock) ELSE "UNPROVEN"
       IN caller' = [caller EXCEPT ![c] = [@ EXCEPT !.pc = "reserve", !.verdict = v, !.at = clock]]
  /\ UNCHANGED <<hostVars, storeVars, judged>>

\* Variant: profile revocations are not looked at in the transaction.
ApprovedWhenJudged(c) == caller[c].verdict = "ALLOW"
\* An assessment that may still approve when it is persisted.
Approved(c) == caller[c].verdict = "ALLOW" /\ ProfileOf[caller[c].req] \notin disabled

\* decide(), second transaction.  A revoked profile turns approval into refusal; an
\* approval releases what had expired by the time it was assessed, then reserves its
\* cost if the principal's budget and velocity allow, and is a refusal otherwise.
Reserve(c) ==
  LET r == caller[c].req
      now == caller[c].at
      sweeps == Approved(c) /\ issuing
      fits == WithinBudget(r, now) /\ WithinVelocity(r, now)
      swept == IF sweeps THEN Expired(now) ELSE {}
      result == IF caller[c].verdict = "ALLOW" /\ (~Approved(c) \/ (sweeps /\ ~fits))
                THEN "BLOCK" ELSE caller[c].verdict
  IN
  /\ caller[c].pc = "reserve"
  /\ reservation' = IF sweeps /\ fits THEN [Release(swept) EXCEPT ![r] = "reserved"] ELSE Release(swept)
  /\ attempt' = [attempt EXCEPT ![r] = "assessed"]
  /\ verdict' = [verdict EXCEPT ![r] = result]
  /\ assessedAt' = [assessedAt EXCEPT ![r] = now]
  /\ validUntil' = [validUntil EXCEPT ![r] =
       IF caller[c].verdict = "UNPROVEN" THEN expiry[r] ELSE Earlier(expiry[r], FreshUntil[r])]
  /\ Step(c, "publish")
  /\ UNCHANGED <<hostVars, expiry, actual, issued, revoked, disabled, costed, judged>>

\* The assessment is cited: a judgment receipt is made for it.
Cited(r) == verdict[r] # "UNPROVEN" /\ validUntil[r] > assessedAt[r]

\* Variant: a call that resumes takes the receipt of the first call for appended.
AppendsFirst(c) == Cited(caller[c].req) /\ caller[c].verdict # "UNPROVEN"
\* Every call appends the receipt; appending it again is idempotent.
Appends(c) == Cited(caller[c].req)

\* resume(): publish the judgment receipt, then read the host policy that issuance
\* will be held to.
Publish(c) ==
  LET r == caller[c].req IN
  /\ caller[c].pc = "publish"
  /\ judged' = IF Appends(c) THEN judged \cup {r} ELSE judged
  /\ caller' = [caller EXCEPT ![c] = [@ EXCEPT !.pc = "complete", !.judgment = Cited(r),
                                               !.policyOk = PolicyInForce(r)]]
  /\ UNCHANGED <<hostVars, storeVars>>

\* Authority is looked for when the attempt has a reservation and the call a judgment.
Reserving(c) == reservation[caller[c].req] # "none" /\ caller[c].judgment
\* Variant: only an attempt with a judgment completes.
JudgedAlone(c) == attempt[caller[c].req] = "assessed" /\ ~Reserving(c) /\ caller[c].judgment
Unreserved(c) == attempt[caller[c].req] = "assessed" /\ ~Reserving(c)
Reserved(c) == attempt[caller[c].req] = "assessed" /\ Reserving(c) /\ reservation[caller[c].req] = "reserved"

\* resume(), transaction: an attempt without a reservation, or a call without a judgment,
\* completes as it is; a reservation is authorized, or released when authority is gone.
CompletePlain(c) ==
  LET r == caller[c].req IN
  /\ caller[c].pc = "complete"
  /\ Unreserved(c)
  /\ attempt' = [attempt EXCEPT ![r] = "complete"]
  /\ Return(c)
  /\ UNCHANGED <<hostVars, expiry, verdict, assessedAt, validUntil, reservation, actual,
                 issued, revoked, disabled, costed, judged>>

MayIssue(c, r) ==
  /\ issuing /\ ProfileOf[r] \notin disabled
  /\ caller[c].policyOk
  /\ validUntil[r] > clock

CompleteReserved(c) ==
  LET r == caller[c].req IN
  /\ caller[c].pc = "complete"
  /\ Reserved(c)
  /\ attempt' = [attempt EXCEPT ![r] = "complete"]
  /\ issued' = IF MayIssue(c, r) THEN issued \cup {r} ELSE issued
  /\ reservation' = [reservation EXCEPT ![r] = IF MayIssue(c, r) THEN "authorized" ELSE "released"]
  /\ Return(c)
  /\ UNCHANGED <<hostVars, expiry, verdict, assessedAt, validUntil, actual,
                 revoked, disabled, costed, judged>>

\* Another call completed the attempt first (it is returned), or the reservation is
\* no longer "reserved" (reservation_invalid): either way nothing is written.
CompleteRefused(c) ==
  /\ caller[c].pc = "complete"
  /\ ~Unreserved(c) /\ ~Reserved(c)
  /\ Return(c)
  /\ UNCHANGED <<hostVars, storeVars, judged>>

\* A call disappears between two awaits: its process died, the store or the receipt
\* service failed, or signing was unavailable.
Abandon(c) ==
  /\ caller[c].pc # "idle"
  /\ Return(c)
  /\ UNCHANGED <<hostVars, storeVars, judged>>

------------------------------------------------------------------------------
\* revoke() of one authorization, which must exist, or of a profile: a permanent
\* record, and every unsubmitted reservation in its scope is released.
RevokeAuthorization(r) ==
  /\ "revoke" \in HostEvents
  /\ r \in issued \ revoked
  /\ revoked' = revoked \cup {r}
  /\ Released({q \in {r} : Unsubmitted(q)})
  /\ UNCHANGED <<hostVars, attempt, expiry, verdict, assessedAt, validUntil, actual,
                 issued, disabled, costed, judged, caller>>

RevokeProfile(f) ==
  /\ "profile" \in HostEvents
  /\ f \notin disabled
  /\ disabled' = disabled \cup {f}
  /\ Released({q \in Requests : ProfileOf[q] = f /\ Unsubmitted(q)})
  /\ UNCHANGED <<hostVars, attempt, expiry, verdict, assessedAt, validUntil, actual,
                 issued, revoked, costed, judged, caller>>

\* The host resolver answers with another policy revision, or with none.
ChangePolicy(p) ==
  /\ "policy" \in HostEvents
  /\ \E v \in (Policies \cup {NoPolicy}) \ {policy[p]} : policy' = [policy EXCEPT ![p] = v]
  /\ UNCHANGED <<clock, evidence, issuing, storeVars, judged, caller>>

\* A newer snapshot of the cited source reaches the receipt store.
Supersede(r) ==
  /\ "evidence" \in HostEvents
  /\ evidence[r] = "approves"
  /\ evidence' = [evidence EXCEPT ![r] = "superseded"]
  /\ UNCHANGED <<clock, policy, issuing, storeVars, judged, caller>>

\* A deployment turns authorizations off.
StopIssuing ==
  /\ "config" \in HostEvents
  /\ issuing
  /\ issuing' = FALSE
  /\ UNCHANGED <<clock, policy, evidence, storeVars, judged, caller>>

Tick ==
  /\ clock < MaxTime
  /\ clock' = clock + 1
  /\ UNCHANGED <<policy, evidence, issuing, storeVars, judged, caller>>

CallStep(c) ==
  \/ Observe(c) \/ Infer(c) \/ Reserve(c) \/ Publish(c)
  \/ CompletePlain(c) \/ CompleteReserved(c) \/ CompleteRefused(c)

HostStep ==
  \/ \E r \in Requests : RevokeAuthorization(r) \/ Supersede(r)
  \/ \E f \in Profiles : RevokeProfile(f)
  \/ \E p \in Principals : ChangePolicy(p)
  \/ StopIssuing
  \/ Tick

EngineNext ==
  \/ \E c \in Callers, r \in Requests : Decide(c, r) \/ Resume(c, r)
  \/ \E c \in Callers : CallStep(c) \/ Abandon(c)
  \/ HostStep

EngineSpec == EngineInit /\ [][EngineNext]_engineVars

\* Recovery: every call ends, by its next step or by dying; an operator keeps retrying
\* an assessed attempt, and not every retry dies at the same await.
OnRequest(r, A(_)) == \E c \in Callers : caller[c].req = r /\ A(c)
Completing(c) == CompletePlain(c) \/ CompleteReserved(c)
CallsEnd == \A c \in Callers : WF_engineVars(CallStep(c) \/ Abandon(c))
RetriesRecover(r) ==
  /\ SF_engineVars(\E c \in Callers : Resume(c, r))
  /\ SF_engineVars(OnRequest(r, Publish))
  /\ SF_engineVars(OnRequest(r, Completing))
EngineFairSpec == EngineSpec /\ CallsEnd /\ \A r \in Requests : RetriesRecover(r)

------------------------------------------------------------------------------
SamePayer(r) == {q \in Requests : Payer[q] = Payer[r]}
HeldBy(p) == {r \in Requests : Live(reservation[r]) /\ Payer[r] = p}

\* What a principal's unreleased reservations count for stays within the budget of one
\* of the policies it reserved under, whatever calls interleave, expire or die.
BudgetRespected ==
  \A p \in Principals : HeldBy(p) # {} =>
    \E r \in Requests : /\ Payer[r] = p /\ reservation[r] # "none"
                        /\ Spent(HeldBy(p), p) <= Budget[PolicyOf[r]]

\* No window of the velocity policy holds more unreleased reservations of a principal
\* than allowed, although calls reserve in another order than they were assessed in.
VelocityRespected ==
  \A r \in Requests : Live(reservation[r]) =>
    LET span == Min({Window[PolicyOf[q]] : q \in SamePayer(r)})
        recent == {q \in HeldBy(Payer[r]) : assessedAt[q] <= assessedAt[r] /\ assessedAt[q] + span > assessedAt[r]}
    IN Cardinality(recent) <= Max({MaxCalls[PolicyOf[q]] : q \in SamePayer(r)})

\* Both caps of the policy hold at once for what a principal holds, although every call
\* judges them over what it read before the others wrote.
LimitsRespected == BudgetRespected /\ VelocityRespected

\* The model is asked once per attempt, retries and lost calls included: whoever is on the
\* way to it is the only call of its request, over an attempt that is not assessed, and
\* finds no cost record of an earlier model call (it is written before the call is made).
SingleAssessment ==
  \A c, d \in Callers :
    /\ caller[c].pc \in {"observe", "infer", "reserve"}
    /\ caller[d].req = caller[c].req
    => /\ attempt[caller[c].req] = "evaluating" /\ d = c
       /\ caller[c].pc = "observe" => caller[c].req \notin costed

\* An authorization exists only over a completed attempt that was approved, whose
\* judgment is published and whose cost is held, spent or was released afterwards.
AuthorizationGrounded ==
  \A r \in issued :
    /\ attempt[r] = "complete" /\ verdict[r] = "ALLOW"
    /\ r \in judged \cap costed
    /\ reservation[r] \notin {"none", "reserved"}

\* Capacity is freed only from an authorization that can no longer be used: one that
\* is revoked, by itself or with its profile, or that has expired.
ReleasedIsUnusable ==
  \A r \in issued : reservation[r] = "released" => Withdrawn(r) \/ validUntil[r] <= clock

\* A revocation holds against decisions already under way: once it is recorded, nothing
\* in its scope holds unsubmitted capacity, whatever was assessed before it.
RevokedHoldsNothing == \A r \in Requests : Withdrawn(r) => ~Unsubmitted(r)

\* Capacity and authority end together: it is freed only where the authorization is dead,
\* and it is not held where the authorization was withdrawn.
CapacityFollowsAuthority == ReleasedIsUnusable /\ RevokedHoldsNothing

\* "Recover a persisted assessed attempt without another inference call"
\* (docs/economic-engine-implementation.md:33): retried for ever, an assessed attempt
\* completes, or its reservation was released while it waited (by another decision's
\* sweep or by a profile revocation), an exception the documentation does not make.
AssessedSettles ==
  \A r \in Requests : attempt[r] = "assessed" ~> (attempt[r] = "complete" \/ reservation[r] = "released")
==============================================================================
