-------------------------- MODULE ExecutionGateProofs --------------------------
(***************************************************************************)
(* Proofs about the economic engine, alone and together with its execution *)
(* gate, for all requests, policies, callers, calls, rails and host        *)
(* events.  The lemmas of the first part are about one step of EngineNext, *)
(* so that the second part uses them for the engine's steps of the         *)
(* composed system: what is new there is that gate and engine share the    *)
(* clock and the reservations.                                             *)
(***************************************************************************)
EXTENDS ExecutionGate, FiniteSums, TLAPS

-------------------------------------------------------------------------------
(* The engine *)

Pc == {"idle", "observe", "infer", "reserve", "publish", "complete"}

\* Every record a call can be set to is a call.
LEMMA CallTyped ==
  /\ Idle \in Call
  /\ \A r \in Requests, pc \in Pc : CallOf(r, pc) \in Call
  BY DEF Idle, CallOf, Call, Evidence, Verdict, Pc

\* The step of a call keeps its record well typed.
LEMMA StepTyped ==
  ASSUME caller \in [Callers -> Call], NEW c \in Callers, NEW pc \in Pc, Step(c, pc)
  PROVE  caller' \in [Callers -> Call]
  BY DEF Step, Call, Pc

LEMMA ReturnTyped ==
  ASSUME caller \in [Callers -> Call], NEW c \in Callers, Return(c)
  PROVE  caller' \in [Callers -> Call]
  BY CallTyped DEF Return

LEMMA ReleaseTyped ==
  ASSUME reservation \in [Requests -> ReservationState], NEW rs
  PROVE  Release(rs) \in [Requests -> ReservationState]
  BY DEF Release, ReservationState

LEMMA InitTyped == EngineInit => EngineTypeOK
  BY EngineAssumption, CallTyped
  DEF EngineInit, EngineTypeOK, Evidence, Verdict, AttemptStatus, ReservationState

LEMMA DecideTyped ==
  ASSUME EngineTypeOK, NEW c \in Callers, NEW r \in Requests, Decide(c, r)
  PROVE  EngineTypeOK'
<1>1. caller' \in [Callers -> Call]
  BY CallTyped DEF EngineTypeOK, Decide, Pc
<1>2. attempt' \in [Requests -> AttemptStatus]
  BY DEF EngineTypeOK, Decide, AttemptStatus
<1>3. expiry' \in [Requests -> Nat]
  <2>1. clock + Lifetime[PolicyOf[r]] \in Nat
    BY EngineAssumption DEF EngineTypeOK
  <2> QED BY <2>1 DEF EngineTypeOK, Decide
<1> QED BY <1>1, <1>2, <1>3 DEF EngineTypeOK, Decide, hostVars

LEMMA ResumeTyped ==
  ASSUME EngineTypeOK, NEW c \in Callers, NEW r \in Requests, Resume(c, r)
  PROVE  EngineTypeOK'
<1>1. caller' \in [Callers -> Call]
  BY CallTyped DEF EngineTypeOK, Resume, Pc
<1> QED BY <1>1 DEF EngineTypeOK, Resume, hostVars, storeVars

\* A call that is not idle works on a request.
CallsHaveRequest == \A c \in Callers : caller[c].pc = "idle" <=> caller[c].req = NoRequest

LEMMA ObserveTyped ==
  ASSUME EngineTypeOK, CallsHaveRequest, NEW c \in Callers, Observe(c)
  PROVE  EngineTypeOK'
<1>1. caller[c].req \in Requests
  BY DEF EngineTypeOK, CallsHaveRequest, Call, Observe
<1>2. caller' \in [Callers -> Call]
  <2>1. evidence[caller[c].req] \in Evidence
    BY <1>1 DEF EngineTypeOK
  <2>2. [caller[c] EXCEPT !.pc = "infer", !.seen = evidence[caller[c].req]] \in Call
    BY <2>1 DEF EngineTypeOK, Call
  <2> QED BY <2>2 DEF EngineTypeOK, Observe
<1> QED BY <1>1, <1>2 DEF EngineTypeOK, Observe, hostVars

LEMMA InferTyped ==
  ASSUME EngineTypeOK, NEW c \in Callers, Infer(c)
  PROVE  EngineTypeOK'
<1>1. PICK v \in Verdict :
         caller' = [caller EXCEPT ![c] = [@ EXCEPT !.pc = "reserve", !.verdict = v, !.at = clock]]
  BY DEF Infer, Judge, Verdict
<1>2. caller' \in [Callers -> Call]
  <2>1. clock \in Nat
    BY EngineAssumption DEF EngineTypeOK
  <2>2. [caller[c] EXCEPT !.pc = "reserve", !.verdict = v, !.at = clock] \in Call
    BY <2>1 DEF EngineTypeOK, Call
  <2> QED BY <1>1, <2>2 DEF EngineTypeOK
<1> QED BY <1>2 DEF EngineTypeOK, Infer, hostVars, storeVars

LEMMA ReserveTyped ==
  ASSUME EngineTypeOK, CallsHaveRequest, NEW c \in Callers, Reserve(c)
  PROVE  EngineTypeOK'
<1> DEFINE r == caller[c].req
<1>1. r \in Requests
  BY DEF EngineTypeOK, CallsHaveRequest, Call, Reserve
<1>2. caller' \in [Callers -> Call]
  BY StepTyped DEF EngineTypeOK, Reserve, Pc
<1>3. reservation' \in [Requests -> ReservationState]
  BY ReleaseTyped, Zenon DEF EngineTypeOK, Reserve, ReservationState
<1>4. attempt' \in [Requests -> AttemptStatus]
  BY DEF EngineTypeOK, Reserve, AttemptStatus
<1>5. verdict' \in [Requests -> Verdict]
  <2>1. caller[c].verdict \in Verdict
    BY DEF EngineTypeOK, Call
  <2> QED BY <2>1 DEF EngineTypeOK, Reserve, Verdict
<1>6. assessedAt' \in [Requests -> Nat]
  <2>1. caller[c].at \in Nat
    BY DEF EngineTypeOK, Call
  <2> QED BY <2>1 DEF EngineTypeOK, Reserve
<1>7. validUntil' \in [Requests -> Nat]
  <2>1. expiry[r] \in Nat /\ FreshUntil[r] \in Nat
    BY <1>1, EngineAssumption DEF EngineTypeOK
  <2>2. Earlier(expiry[r], FreshUntil[r]) \in Nat
    BY <2>1 DEF Earlier
  <2> QED BY <2>1, <2>2 DEF EngineTypeOK, Reserve
<1> QED BY <1>2, <1>3, <1>4, <1>5, <1>6, <1>7 DEF EngineTypeOK, Reserve, hostVars

LEMMA PublishTyped ==
  ASSUME EngineTypeOK, CallsHaveRequest, NEW c \in Callers, Publish(c)
  PROVE  EngineTypeOK'
<1> DEFINE r == caller[c].req
<1>1. r \in Requests
  BY DEF EngineTypeOK, CallsHaveRequest, Call, Publish
<1>2. caller' \in [Callers -> Call]
  <2>1. PolicyInForce(r) \in BOOLEAN
    BY DEF PolicyInForce
  <2>2. Cited(r) \in BOOLEAN
    BY DEF Cited
  <2>3. [caller[c] EXCEPT !.pc = "complete", !.judgment = Cited(r), !.policyOk = PolicyInForce(r)] \in Call
    BY <2>1, <2>2 DEF EngineTypeOK, Call
  <2> QED BY <2>3 DEF EngineTypeOK, Publish
<1> QED BY <1>1, <1>2 DEF EngineTypeOK, Publish, hostVars, storeVars

LEMMA CompletionTyped ==
  ASSUME EngineTypeOK, CallsHaveRequest, NEW c \in Callers,
         CompletePlain(c) \/ CompleteReserved(c) \/ CompleteRefused(c) \/ Abandon(c)
  PROVE  EngineTypeOK'
<1>1. caller' \in [Callers -> Call]
  BY ReturnTyped DEF EngineTypeOK, CompletePlain, CompleteReserved, CompleteRefused, Abandon
<1>2. CASE CompletePlain(c)
  <2>1. attempt' \in [Requests -> AttemptStatus]
    BY <1>2 DEF EngineTypeOK, CompletePlain, AttemptStatus
  <2> QED BY <1>1, <1>2, <2>1 DEF EngineTypeOK, CompletePlain, hostVars
<1>3. CASE CompleteReserved(c)
  <2>1. caller[c].req \in Requests
    BY <1>3 DEF EngineTypeOK, CallsHaveRequest, Call, CompleteReserved
  <2>2. attempt' \in [Requests -> AttemptStatus]
    BY <1>3 DEF EngineTypeOK, CompleteReserved, AttemptStatus
  <2>3. reservation' \in [Requests -> ReservationState]
    BY <1>3 DEF EngineTypeOK, CompleteReserved, ReservationState
  <2>4. issued' \subseteq Requests
    BY <1>3, <2>1 DEF EngineTypeOK, CompleteReserved
  <2> QED BY <1>1, <1>3, <2>2, <2>3, <2>4 DEF EngineTypeOK, CompleteReserved, hostVars
<1>4. CASE CompleteRefused(c)
  BY <1>1, <1>4 DEF EngineTypeOK, CompleteRefused, hostVars, storeVars
<1>5. CASE Abandon(c)
  BY <1>1, <1>5 DEF EngineTypeOK, Abandon, hostVars, storeVars
<1> QED BY <1>2, <1>3, <1>4, <1>5

LEMMA HostTyped ==
  ASSUME EngineTypeOK, HostStep
  PROVE  EngineTypeOK'
<1>1. ASSUME NEW r \in Requests, RevokeAuthorization(r) PROVE EngineTypeOK'
  BY <1>1, ReleaseTyped DEF EngineTypeOK, RevokeAuthorization, Released, hostVars
<1>2. ASSUME NEW r \in Requests, Supersede(r) PROVE EngineTypeOK'
  BY <1>2 DEF EngineTypeOK, Supersede, Evidence, storeVars
<1>3. ASSUME NEW f \in Profiles, RevokeProfile(f) PROVE EngineTypeOK'
  BY <1>3, ReleaseTyped DEF EngineTypeOK, RevokeProfile, Released, hostVars
<1>4. ASSUME NEW p \in Principals, ChangePolicy(p) PROVE EngineTypeOK'
  BY <1>4 DEF EngineTypeOK, ChangePolicy, storeVars
<1>5. CASE StopIssuing
  BY <1>5 DEF EngineTypeOK, StopIssuing, storeVars
<1>6. CASE Tick
  BY <1>6, EngineAssumption DEF EngineTypeOK, Tick, storeVars
<1> QED BY <1>1, <1>2, <1>3, <1>4, <1>5, <1>6 DEF HostStep

------------------------------------------------------------------------------
(***************************************************************************)
(* The inductive invariant.  An authorization is issued from a call that   *)
(* published and a reservation made earlier, by possibly another call: the *)
(* invariant carries what each call knows about its request, and what a    *)
(* reservation says about its attempt, from one transaction to the next.   *)
(***************************************************************************)
Asking(c) == caller[c].pc \in {"observe", "infer", "reserve"}
CallGrounded(c) ==
  LET r == caller[c].req IN
  /\ Asking(c) => attempt[r] = "evaluating"
  /\ caller[c].pc \in {"infer", "reserve"} => r \in costed
  /\ caller[c].pc = "observe" => r \notin costed
  /\ caller[c].pc = "reserve" /\ caller[c].verdict = "ALLOW" =>
       caller[c].at < expiry[r] /\ caller[c].at < FreshUntil[r]
  /\ caller[c].pc \in {"publish", "complete"} => attempt[r] \in {"assessed", "complete"}
  /\ caller[c].pc = "complete" /\ Cited(r) => r \in judged
CallsGrounded ==
  /\ \A c \in Callers : CallGrounded(c)
  /\ \A r \in costed : attempt[r] # "none"
OneAssessor == \A c, d \in Callers : Asking(c) /\ caller[d].req = caller[c].req => d = c
HeldGrounded ==
  \A r \in Requests : reservation[r] # "none" =>
    attempt[r] \in {"assessed", "complete"} /\ r \in costed /\ verdict[r] = "ALLOW" /\ Cited(r)

EngineInv ==
  /\ EngineTypeOK /\ CallsHaveRequest /\ CallsGrounded /\ OneAssessor
  /\ HeldGrounded /\ AuthorizationGrounded

LEMMA InitInv == EngineInit => EngineInv
  BY InitTyped, EngineAssumption
  DEF EngineInit, EngineInv, CallsHaveRequest, CallsGrounded, CallGrounded, OneAssessor, Asking,
      HeldGrounded, AuthorizationGrounded, Idle, CallOf

LEMMA DecideInv ==
  ASSUME EngineInv, NEW c \in Callers, NEW r \in Requests, Decide(c, r)
  PROVE  EngineInv'
<1> USE DEF EngineInv
<1>1. caller' = [caller EXCEPT ![c] = CallOf(r, "observe")] /\ caller \in [Callers -> Call]
  BY DEF Decide, EngineTypeOK
<1>2. caller'[c].pc = "observe" /\ caller'[c].req = r /\ \A d \in Callers \ {c} : caller'[d] = caller[d]
  BY <1>1 DEF CallOf
<1>3. \A d \in Callers : caller[d].req # r
  BY EngineAssumption DEF Decide, NewRequest, CallsHaveRequest, CallsGrounded, CallGrounded, Asking, EngineTypeOK, Call
<1>4. attempt'[r] = "evaluating" /\ \A q \in Requests \ {r} : attempt'[q] = attempt[q] /\ expiry'[q] = expiry[q]
  BY DEF Decide, EngineTypeOK
<1>5. EngineTypeOK'
  BY DecideTyped
<1>6. CallsHaveRequest'
  BY <1>2, EngineAssumption DEF CallsHaveRequest
<1>7. CallsGrounded'
  <2>1. r \notin costed /\ costed' = costed
    BY DEF Decide, NewRequest, CallsGrounded
  <2>2. CallGrounded(c)'
    BY <1>2, <1>4, <2>1 DEF CallGrounded, Asking
  <2>3. ASSUME NEW d \in Callers \ {c} PROVE CallGrounded(d)'
    <3>1. CASE caller[d].pc = "idle"
      BY <3>1, <1>2 DEF CallGrounded, Asking
    <3>2. CASE caller[d].pc # "idle"
      <4>1. caller[d].req \in Requests \ {r} /\ CallGrounded(d)
        BY <3>2, <1>3 DEF EngineTypeOK, CallsHaveRequest, Call, CallsGrounded
      <4> QED BY <4>1, <1>2, <1>4, <2>1 DEF CallGrounded, Asking, Decide, Cited
    <3> QED BY <3>1, <3>2
  <2>4. \A q \in costed' : attempt'[q] # "none"
    BY <1>4, <2>1 DEF CallsGrounded, EngineTypeOK
  <2> QED BY <2>2, <2>3, <2>4 DEF CallsGrounded
<1>8. OneAssessor'
  BY <1>2, <1>3 DEF OneAssessor, Asking
<1>9. HeldGrounded' /\ AuthorizationGrounded'
  BY <1>4 DEF HeldGrounded, AuthorizationGrounded, Decide, NewRequest, Cited, EngineTypeOK
<1> QED BY <1>5, <1>6, <1>7, <1>8, <1>9

LEMMA ResumeInv ==
  ASSUME EngineInv, NEW c \in Callers, NEW r \in Requests, Resume(c, r)
  PROVE  EngineInv'
<1> USE DEF EngineInv
<1>1. caller' = [caller EXCEPT ![c] = CallOf(r, "publish")] /\ caller \in [Callers -> Call]
  BY DEF Resume, EngineTypeOK
<1>2. caller'[c].pc = "publish" /\ caller'[c].req = r /\ \A d \in Callers \ {c} : caller'[d] = caller[d]
  BY <1>1 DEF CallOf
<1>3. \A d \in Callers : Asking(d) => caller[d].req # r
  BY DEF Resume, CallsGrounded, CallGrounded
<1>4. EngineTypeOK'
  BY ResumeTyped
<1>5. CallsHaveRequest'
  BY <1>2, EngineAssumption DEF CallsHaveRequest
<1>6. CallsGrounded'
  BY <1>2 DEF CallsGrounded, CallGrounded, Asking, Resume, Cited, storeVars
<1>7. OneAssessor'
  BY <1>2, <1>3 DEF OneAssessor, Asking
<1>8. HeldGrounded' /\ AuthorizationGrounded'
  BY DEF HeldGrounded, AuthorizationGrounded, Resume, Cited, storeVars
<1> QED BY <1>4, <1>5, <1>6, <1>7, <1>8

LEMMA ObserveInv ==
  ASSUME EngineInv, NEW c \in Callers, Observe(c)
  PROVE  EngineInv'
<1> USE DEF EngineInv
<1> DEFINE r == caller[c].req
<1>1. caller' = [caller EXCEPT ![c] = [@ EXCEPT !.pc = "infer", !.seen = evidence[r]]]
      /\ caller \in [Callers -> Call]
  BY DEF Observe, EngineTypeOK
<1>2. /\ caller'[c].pc = "infer" /\ caller'[c].req = r
      /\ \A d \in Callers \ {c} : caller'[d] = caller[d]
  BY <1>1 DEF Call
<1>3. EngineTypeOK'
  BY ObserveTyped
<1>4. CallsHaveRequest'
  BY <1>2 DEF CallsHaveRequest, Observe
<1>5. CallsGrounded'
  <2>1. costed' = costed \cup {r} /\ attempt[r] = "evaluating" /\ \A d \in Callers \ {c} : caller[d].req # r
    BY DEF Observe, CallsGrounded, CallGrounded, OneAssessor, Asking
  <2> QED BY <1>2, <2>1 DEF CallsGrounded, CallGrounded, Asking, Observe, Cited
<1>6. OneAssessor'
  BY <1>2 DEF OneAssessor, Asking, Observe
<1>7. HeldGrounded' /\ AuthorizationGrounded'
  BY DEF HeldGrounded, AuthorizationGrounded, Observe, Cited
<1> QED BY <1>3, <1>4, <1>5, <1>6, <1>7

\* An approval is inside the windows of the envelope and of the evidence.
LEMMA JudgeAllows ==
  ASSUME NEW r, NEW answer, NEW seen, NEW now, Judge(r, answer, seen, now) = "ALLOW"
  PROVE  ~(expiry[r] <= now) /\ FreshUntil[r] > now
  BY DEF Judge

LEMMA InferInv ==
  ASSUME EngineInv, NEW c \in Callers, Infer(c)
  PROVE  EngineInv'
<1> USE DEF EngineInv
<1> DEFINE r == caller[c].req
<1>1. r \in Requests
  BY DEF EngineTypeOK, CallsHaveRequest, Call, Infer
<1>0. PICK answer \in {"selects", "abstains"} :
        caller' = [caller EXCEPT ![c] = [@ EXCEPT !.pc = "reserve", !.verdict =
          (IF PolicyInForce(r) THEN Judge(r, answer, caller[c].seen, clock) ELSE "UNPROVEN"), !.at = clock]]
  BY DEF Infer
<1> DEFINE v == IF PolicyInForce(r) THEN Judge(r, answer, caller[c].seen, clock) ELSE "UNPROVEN"
<1>2. v = "ALLOW" => ~(expiry[r] <= clock) /\ FreshUntil[r] > clock
  BY JudgeAllows
<1>3. /\ caller'[c].pc = "reserve" /\ caller'[c].req = r /\ caller'[c].verdict = v /\ caller'[c].at = clock
      /\ \A d \in Callers \ {c} : caller'[d] = caller[d]
  BY <1>0 DEF Call, EngineTypeOK
<1>4. v = "ALLOW" => clock < expiry[r] /\ clock < FreshUntil[r]
  BY <1>1, <1>2, EngineAssumption DEF EngineTypeOK
<1>5. EngineTypeOK'
  BY InferTyped
<1>6. CallsHaveRequest'
  BY <1>3 DEF CallsHaveRequest, Infer
<1>7. CallsGrounded'
  BY <1>3, <1>4 DEF CallsGrounded, CallGrounded, Asking, Infer, Cited, storeVars
<1>8. OneAssessor'
  BY <1>3 DEF OneAssessor, Asking, Infer
<1>9. HeldGrounded' /\ AuthorizationGrounded'
  BY DEF HeldGrounded, AuthorizationGrounded, Infer, Cited, storeVars
<1> QED BY <1>5, <1>6, <1>7, <1>8, <1>9

LEMMA PublishInv ==
  ASSUME EngineInv, NEW c \in Callers, Publish(c)
  PROVE  EngineInv'
<1> USE DEF EngineInv
<1> DEFINE r == caller[c].req
<1>1. caller' = [caller EXCEPT ![c] = [@ EXCEPT !.pc = "complete", !.judgment = Cited(r), !.policyOk = PolicyInForce(r)]]
      /\ caller \in [Callers -> Call]
  BY DEF Publish, EngineTypeOK
<1>2. /\ caller'[c].pc = "complete" /\ caller'[c].req = r
      /\ \A d \in Callers \ {c} : caller'[d] = caller[d]
  BY <1>1 DEF Call
<1>3. judged \subseteq judged' /\ (Cited(r) => r \in judged')
  BY DEF Publish, Appends
<1>4. EngineTypeOK'
  BY PublishTyped
<1>5. CallsHaveRequest'
  BY <1>2 DEF CallsHaveRequest, Publish
<1>6. CallsGrounded'
  BY <1>2, <1>3 DEF CallsGrounded, CallGrounded, Asking, Publish, Cited, storeVars
<1>7. OneAssessor'
  BY <1>2 DEF OneAssessor, Asking, Publish
<1>8. HeldGrounded' /\ AuthorizationGrounded'
  BY <1>3 DEF HeldGrounded, AuthorizationGrounded, Publish, Cited, storeVars
<1> QED BY <1>4, <1>5, <1>6, <1>7, <1>8

\* A call that returns leaves what the others know alone.
LEMMA ReturnCalls ==
  ASSUME EngineInv, NEW c \in Callers, Return(c)
  PROVE  /\ caller'[c].pc = "idle" /\ \A d \in Callers \ {c} : caller'[d] = caller[d]
         /\ CallsHaveRequest' /\ OneAssessor'
<1>1. caller'[c] = Idle /\ \A d \in Callers \ {c} : caller'[d] = caller[d]
  BY DEF EngineInv, EngineTypeOK, Return
<1>2. caller'[c].pc = "idle" /\ caller'[c].req = NoRequest
  BY <1>1 DEF Idle, CallOf
<1>3. CallsHaveRequest'
  BY <1>1, <1>2 DEF EngineInv, CallsHaveRequest
<1>4. OneAssessor'
  BY <1>1, <1>2 DEF EngineInv, OneAssessor, Asking, CallsHaveRequest
<1> QED BY <1>1, <1>2, <1>3, <1>4

LEMMA CompletionInv ==
  ASSUME EngineInv, NEW c \in Callers,
         CompletePlain(c) \/ CompleteReserved(c) \/ CompleteRefused(c) \/ Abandon(c)
  PROVE  EngineInv'
<1> USE DEF EngineInv
<1> DEFINE r == caller[c].req
<1>1. EngineTypeOK'
  BY CompletionTyped
<1>2. Return(c) /\ caller[c].pc # "idle"
  BY DEF CompletePlain, CompleteReserved, CompleteRefused, Abandon
<1>3. r \in Requests
  BY <1>2 DEF EngineTypeOK, CallsHaveRequest, Call
<1>4. /\ caller'[c].pc = "idle" /\ \A d \in Callers \ {c} : caller'[d] = caller[d]
      /\ CallsHaveRequest' /\ OneAssessor'
  BY <1>2, ReturnCalls
<1>5. CASE CompletePlain(c)
  <2>1. attempt[r] = "assessed" /\ attempt' = [attempt EXCEPT ![r] = "complete"]
    BY <1>5 DEF CompletePlain, Unreserved
  <2>2. CallsGrounded'
    BY <1>4, <1>5, <2>1 DEF CallsGrounded, CallGrounded, Asking, CompletePlain, Cited, EngineTypeOK, Call
  <2>3. HeldGrounded' /\ AuthorizationGrounded'
    BY <1>5, <2>1 DEF HeldGrounded, AuthorizationGrounded, CompletePlain, Cited, EngineTypeOK
  <2> QED BY <1>1, <1>4, <2>2, <2>3
<1>6. CASE CompleteReserved(c)
  <2>1. /\ attempt[r] = "assessed" /\ attempt' = [attempt EXCEPT ![r] = "complete"]
        /\ reservation[r] = "reserved" /\ caller[c].pc = "complete"
    BY <1>6 DEF CompleteReserved, Reserved
  <2>2. CallsGrounded'
    BY <1>4, <1>6, <2>1 DEF CallsGrounded, CallGrounded, Asking, CompleteReserved, Cited, EngineTypeOK, Call
  <2>3. HeldGrounded'
    BY <1>6, <2>1, <1>3 DEF HeldGrounded, CompleteReserved, Cited, EngineTypeOK
  <2>4. verdict[r] = "ALLOW" /\ r \in judged \cap costed
    BY <2>1, <1>3 DEF HeldGrounded, CallsGrounded, CallGrounded
  <2>5. issued' \subseteq issued \cup {r} /\ (r \in issued' => reservation'[r] = "authorized")
    BY <1>6, <2>1, <1>3 DEF CompleteReserved, AuthorizationGrounded, EngineTypeOK
  <2>6. AuthorizationGrounded'
    BY <1>6, <2>1, <2>4, <2>5, <1>3 DEF AuthorizationGrounded, CompleteReserved, EngineTypeOK
  <2> QED BY <1>1, <1>4, <2>2, <2>3, <2>6
<1>7. CASE CompleteRefused(c)
  <2>1. CallsGrounded'
    BY <1>4, <1>7 DEF CallsGrounded, CallGrounded, Asking, CompleteRefused, Cited, storeVars
  <2>2. HeldGrounded' /\ AuthorizationGrounded'
    BY <1>7 DEF HeldGrounded, AuthorizationGrounded, CompleteRefused, Cited, storeVars
  <2> QED BY <1>1, <1>4, <2>1, <2>2
<1>8. CASE Abandon(c)
  <2>1. CallsGrounded'
    BY <1>4, <1>8 DEF CallsGrounded, CallGrounded, Asking, Abandon, Cited, storeVars
  <2>2. HeldGrounded' /\ AuthorizationGrounded'
    BY <1>8 DEF HeldGrounded, AuthorizationGrounded, Abandon, Cited, storeVars
  <2> QED BY <1>1, <1>4, <2>1, <2>2
<1> QED BY <1>5, <1>6, <1>7, <1>8

\* What the second transaction of decide() makes of the reservation of its own request
\* and of those it sweeps.
LEMMA ReserveOutcome ==
  ASSUME EngineInv, NEW c \in Callers, Reserve(c)
  PROVE  /\ \A q \in Requests \ {caller[c].req} :
              reservation'[q] \in {reservation[q], "released"}
              /\ (reservation[q] = "none" => reservation'[q] = "none")
              /\ (reservation'[q] # reservation[q] => q \in Expired(caller[c].at))
         /\ reservation'[caller[c].req] \in {"none", "reserved"}
         /\ reservation'[caller[c].req] # "none" => Approved(c) /\ verdict'[caller[c].req] = "ALLOW"
<1> USE DEF EngineInv
<1> DEFINE r == caller[c].req
           now == caller[c].at
           sweeps == Approved(c) /\ issuing
           fits == WithinBudget(r, now) /\ WithinVelocity(r, now)
           swept == IF sweeps THEN Expired(now) ELSE {}
<1>1. r \in Requests /\ attempt[r] = "evaluating" /\ reservation[r] = "none"
  BY DEF EngineTypeOK, CallsHaveRequest, Call, Reserve, CallsGrounded, CallGrounded, Asking, HeldGrounded
<1>2. reservation' = IF sweeps /\ fits THEN [Release(swept) EXCEPT ![r] = "reserved"] ELSE Release(swept)
  BY DEF Reserve
<1>3. \A q \in swept : q \in Requests /\ reservation[q] # "none" /\ q \in Expired(now)
  BY DEF Expired, Unsubmitted
<1>4. r \notin swept
  BY <1>1, <1>3
<1>5. \A q \in Requests : Release(swept)[q] = IF q \in swept THEN "released" ELSE reservation[q]
  BY DEF Release
<1>6. \A q \in Requests \ {r} : reservation'[q] = Release(swept)[q]
  BY <1>2 DEF Release
<1>7. reservation'[r] = IF sweeps /\ fits THEN "reserved" ELSE reservation[r]
  BY <1>1, <1>2, <1>4, <1>5 DEF Release
<1>8. ASSUME sweeps, fits PROVE Approved(c) /\ verdict'[r] = "ALLOW"
  <2>1. Approved(c) /\ caller[c].verdict = "ALLOW"
    BY <1>8 DEF Approved
  <2>2. verdict' = [verdict EXCEPT ![r] = IF caller[c].verdict = "ALLOW" /\ (~Approved(c) \/ (sweeps /\ ~fits))
                                          THEN "BLOCK" ELSE caller[c].verdict]
    BY DEF Reserve
  <2> QED BY <1>1, <1>8, <2>1, <2>2 DEF EngineTypeOK
<1> HIDE DEF sweeps, fits, swept
<1> QED BY <1>1, <1>3, <1>5, <1>6, <1>7, <1>8

LEMMA ReserveInv ==
  ASSUME EngineInv, NEW c \in Callers, Reserve(c)
  PROVE  EngineInv'
<1> USE DEF EngineInv
<1>0. PICK r \in Requests : r = caller[c].req
  BY DEF EngineTypeOK, CallsHaveRequest, Call, Reserve
<1>1. r \in Requests /\ attempt[r] = "evaluating" /\ r \in costed /\ r \notin issued
  BY <1>0 DEF Reserve, CallsGrounded, CallGrounded, Asking, AuthorizationGrounded
<1>2. /\ caller'[c].pc = "publish" /\ caller'[c].req = r
      /\ \A d \in Callers \ {c} : caller'[d] = caller[d]
  BY <1>0 DEF Reserve, Step, EngineTypeOK, Call
<1>3. \A d \in Callers \ {c} : caller[d].req # r
  BY <1>0 DEF OneAssessor, Asking, Reserve
<1>4. /\ attempt'[r] = "assessed"
      /\ \A q \in Requests \ {r} : attempt'[q] = attempt[q] /\ verdict'[q] = verdict[q]
                                     /\ assessedAt'[q] = assessedAt[q] /\ validUntil'[q] = validUntil[q]
  <2>1. attempt' = [attempt EXCEPT ![r] = "assessed"] /\ assessedAt' = [assessedAt EXCEPT ![r] = caller[c].at]
    BY <1>0 DEF Reserve
  <2>2. \E v : verdict' = [verdict EXCEPT ![r] = v]
    BY <1>0 DEF Reserve
  <2>3. \E t : validUntil' = [validUntil EXCEPT ![r] = t]
    BY <1>0 DEF Reserve
  <2> QED BY <2>1, <2>2, <2>3, <1>1 DEF EngineTypeOK
<1>5. UNCHANGED <<expiry, issued, costed, judged>>
  BY DEF Reserve
<1>6. EngineTypeOK'
  BY ReserveTyped
<1>7. CallsHaveRequest'
  BY <1>0, <1>2 DEF CallsHaveRequest, Reserve
<1>8. CallsGrounded'
  <2>1. CallGrounded(c)'
    BY <1>2, <1>4 DEF CallGrounded, Asking
  <2>2. ASSUME NEW d \in Callers \ {c} PROVE CallGrounded(d)'
    <3>1. CASE caller[d].pc = "idle"
      BY <3>1, <1>2 DEF CallGrounded, Asking
    <3>2. CASE caller[d].pc # "idle"
      <4>1. caller[d].req \in Requests \ {r}
        BY <3>2, <1>3 DEF EngineTypeOK, CallsHaveRequest, Call
      <4>2. CallGrounded(d)
        BY DEF CallsGrounded
      <4> QED BY <4>1, <4>2, <1>2, <1>4, <1>5 DEF CallGrounded, Asking, Cited
    <3> QED BY <3>1, <3>2
  <2>3. \A q \in costed' : attempt'[q] # "none"
    BY <1>1, <1>4, <1>5 DEF CallsGrounded, EngineTypeOK
  <2> QED BY <2>1, <2>2, <2>3 DEF CallsGrounded
<1>9. OneAssessor'
  BY <1>0, <1>2 DEF OneAssessor, Asking, Reserve
<1>10. caller[c].verdict = "ALLOW" => assessedAt'[r] < validUntil'[r]
  <2>1. caller[c].verdict = "ALLOW" => caller[c].at < Earlier(expiry[r], FreshUntil[r])
    BY <1>0 DEF CallsGrounded, CallGrounded, Reserve, Earlier
  <2> QED BY <2>1, <1>0 DEF Reserve, EngineTypeOK
<1>11. HeldGrounded'
  <2>1. ASSUME NEW q \in Requests \ {r}, reservation'[q] # "none"
        PROVE  attempt'[q] \in {"assessed", "complete"} /\ q \in costed' /\ verdict'[q] = "ALLOW" /\ Cited(q)'
    <3>1. reservation[q] # "none"
      BY <2>1, <1>0, ReserveOutcome
    <3> QED BY <2>1, <3>1, <1>4, <1>5 DEF HeldGrounded, Cited
  <2>2. ASSUME reservation'[r] # "none"
        PROVE  attempt'[r] \in {"assessed", "complete"} /\ r \in costed' /\ verdict'[r] = "ALLOW" /\ Cited(r)'
    <3>1. caller[c].verdict = "ALLOW" /\ verdict'[r] = "ALLOW"
      BY <2>2, <1>0, ReserveOutcome DEF Approved
    <3>2. assessedAt'[r] < validUntil'[r] /\ assessedAt'[r] \in Nat /\ validUntil'[r] \in Nat
      BY <3>1, <1>10, <1>6, <1>1 DEF EngineTypeOK
    <3>3. Cited(r)'
      BY <3>1, <3>2 DEF Cited
    <3> QED BY <3>1, <3>3, <1>1, <1>4, <1>5
  <2> QED BY <2>1, <2>2, <1>1 DEF HeldGrounded
<1>12. AuthorizationGrounded'
  <2> SUFFICES ASSUME NEW q \in issued'
               PROVE  /\ attempt'[q] = "complete" /\ verdict'[q] = "ALLOW"
                      /\ q \in judged' \cap costed' /\ reservation'[q] \notin {"none", "reserved"}
    BY DEF AuthorizationGrounded
  <2>1. q \in Requests \ {r} /\ q \in issued
    BY <1>1, <1>5 DEF EngineTypeOK
  <2>2. reservation'[q] \in {reservation[q], "released"}
    BY <2>1, <1>0, ReserveOutcome
  <2> QED BY <2>1, <2>2, <1>4, <1>5 DEF AuthorizationGrounded
<1> QED BY <1>6, <1>7, <1>8, <1>9, <1>11, <1>12

LEMMA HostInv ==
  ASSUME EngineInv, HostStep
  PROVE  EngineInv'
<1> USE DEF EngineInv
<1>1. EngineTypeOK'
  BY HostTyped
<1>2. UNCHANGED <<attempt, expiry, verdict, assessedAt, validUntil, issued, costed, judged, caller>>
  BY DEF HostStep, RevokeAuthorization, Supersede, RevokeProfile, ChangePolicy, StopIssuing, Tick, storeVars
<1>3. \A q \in Requests : reservation'[q] = reservation[q] \/ (Unsubmitted(q) /\ reservation'[q] = "released")
  BY DEF HostStep, RevokeAuthorization, Supersede, RevokeProfile, ChangePolicy, StopIssuing, Tick, storeVars,
         Released, Release
<1>4. CallsHaveRequest' /\ OneAssessor'
  BY <1>2 DEF CallsHaveRequest, OneAssessor, Asking
<1>5. CallsGrounded'
  BY <1>2 DEF CallsGrounded, CallGrounded, Asking, Cited
<1>6. HeldGrounded' /\ AuthorizationGrounded'
  BY <1>1, <1>2, <1>3 DEF HeldGrounded, AuthorizationGrounded, Cited, Unsubmitted, EngineTypeOK
<1> QED BY <1>1, <1>4, <1>5, <1>6

LEMMA EngineStepInv == EngineInv /\ EngineNext => EngineInv'
  BY DecideInv, ResumeInv, ObserveInv, InferInv, ReserveInv, PublishInv, CompletionInv, HostInv
  DEF EngineNext, CallStep

LEMMA EngineStutterInv == EngineInv /\ UNCHANGED engineVars => EngineInv'
  BY DEF EngineInv, EngineTypeOK, CallsHaveRequest, CallsGrounded, CallGrounded, OneAssessor, Asking,
         HeldGrounded, AuthorizationGrounded, Cited, engineVars, hostVars, storeVars

LEMMA EngineInvariant == EngineSpec => []EngineInv
<1>1. EngineInit => EngineInv
  BY InitInv
<1>2. EngineInv /\ [EngineNext]_engineVars => EngineInv'
  BY EngineStepInv, EngineStutterInv
<1> QED BY <1>1, <1>2, PTL DEF EngineSpec

\* Type correctness: every step of the engine writes values of the schema.
THEOREM EngineTypeCorrect == EngineSpec => []EngineTypeOK
  BY EngineInvariant, PTL DEF EngineInv

\* An authorization is issued only over a completed, approved attempt whose judgment is
\* published, whose model call is costed and whose amount was reserved.
THEOREM AuthorizationsAreGrounded == EngineSpec => []AuthorizationGrounded
  BY EngineInvariant, PTL DEF EngineInv

\* The model is asked at most once for an attempt: by one call, before any cost of an
\* earlier one is recorded, and never again once the attempt is assessed.
THEOREM AssessedOnce == EngineSpec => []SingleAssessment
<1>1. EngineInv => SingleAssessment
  BY DEF EngineInv, SingleAssessment, OneAssessor, CallsGrounded, CallGrounded, Asking
<1> QED BY <1>1, EngineInvariant, PTL

------------------------------------------------------------------------------
(***************************************************************************)
(* Revocation and release.  A reservation changes hands between a revoke() *)
(* and the transactions of calls that began before it; what rules out a    *)
(* reservation outliving its revocation is that only issued authorizations *)
(* can be revoked one by one, and that an assessment cannot be in the      *)
(* clock's future.                                                         *)
(***************************************************************************)
CallsPast == \A c \in Callers : caller[c].at <= clock
RevocationInv == RevokedHoldsNothing /\ revoked \subseteq issued /\ CallsPast /\ ReleasedIsUnusable

\* The time of an assessment is read from the clock and the clock never goes back.
LEMMA CallsPastStep ==
  ASSUME EngineInv, CallsPast, EngineNext
  PROVE  CallsPast' /\ clock <= clock' /\ clock' \in Nat /\ clock \in Nat
<1>1. clock \in Nat
  BY EngineAssumption DEF EngineInv, EngineTypeOK
<1>2. clock' \in {clock, clock + 1}
  BY DEF EngineNext, CallStep, HostStep, Decide, Resume, Observe, Infer, Reserve, Publish, CompletePlain,
         CompleteReserved, CompleteRefused, Abandon, RevokeAuthorization, Supersede, RevokeProfile,
         ChangePolicy, StopIssuing, Tick, hostVars
<1>3. \A c \in Callers : caller'[c].at \in {caller[c].at, clock, 0}
  <2> USE DEF EngineInv, EngineTypeOK
  <2>1. ASSUME NEW d \in Callers, NEW r \in Requests, Decide(d, r) \/ Resume(d, r)
        PROVE  \A c \in Callers : caller'[c].at \in {caller[c].at, clock, 0}
    BY <2>1 DEF Decide, Resume, CallOf
  <2>2. ASSUME NEW d \in Callers, Observe(d) PROVE \A c \in Callers : caller'[c].at \in {caller[c].at, clock, 0}
    BY <2>2 DEF Observe, Call
  <2>3. ASSUME NEW d \in Callers, Infer(d) PROVE \A c \in Callers : caller'[c].at \in {caller[c].at, clock, 0}
    <3>1. PICK v : caller' = [caller EXCEPT ![d] = [@ EXCEPT !.pc = "reserve", !.verdict = v, !.at = clock]]
      BY <2>3 DEF Infer
    <3> QED BY <3>1 DEF Call
  <2>4. ASSUME NEW d \in Callers, Reserve(d) PROVE \A c \in Callers : caller'[c].at \in {caller[c].at, clock, 0}
    BY <2>4 DEF Reserve, Step, Call
  <2>5. ASSUME NEW d \in Callers, Publish(d) PROVE \A c \in Callers : caller'[c].at \in {caller[c].at, clock, 0}
    BY <2>5 DEF Publish, Call
  <2>6. ASSUME NEW d \in Callers, Return(d) PROVE \A c \in Callers : caller'[c].at \in {caller[c].at, clock, 0}
    BY <2>6 DEF Return, Idle, CallOf
  <2>7. CASE HostStep
    BY <2>7 DEF HostStep, RevokeAuthorization, Supersede, RevokeProfile, ChangePolicy, StopIssuing, Tick
  <2> QED BY <2>1, <2>2, <2>3, <2>4, <2>5, <2>6, <2>7
          DEF EngineNext, CallStep, CompletePlain, CompleteReserved, CompleteRefused, Abandon
<1>4. \A c \in Callers : caller[c].at \in Nat
  BY DEF EngineInv, EngineTypeOK, Call
<1>5. clock <= clock' /\ clock' \in Nat
  BY <1>1, <1>2
<1>6. CallsPast'
  <2> SUFFICES ASSUME NEW c \in Callers PROVE caller'[c].at <= clock'
    BY DEF CallsPast
  <2>1. caller[c].at <= clock /\ caller[c].at \in Nat /\ caller'[c].at \in {caller[c].at, clock, 0}
    BY <1>3, <1>4 DEF CallsPast
  <2> QED BY <2>1, <1>1, <1>5
<1> QED BY <1>1, <1>5, <1>6

\* Issued authorizations and revocations are for ever, and validity windows are frozen.
LEMMA IssuedFrozen ==
  ASSUME EngineInv, EngineNext
  PROVE  /\ issued \subseteq issued' /\ revoked \subseteq revoked' /\ disabled \subseteq disabled'
         /\ revoked' \subseteq revoked \cup issued
         /\ \A r \in issued : validUntil'[r] = validUntil[r]
<1> USE DEF EngineInv
<1>1. ASSUME NEW c \in Callers, Reserve(c)
      PROVE  \A r \in issued : validUntil'[r] = validUntil[r]
  <2>1. caller[c].req \notin issued
    BY <1>1 DEF Reserve, CallsGrounded, CallGrounded, Asking, AuthorizationGrounded
  <2>2. \E t : validUntil' = [validUntil EXCEPT ![caller[c].req] = t]
    BY <1>1 DEF Reserve
  <2> QED BY <2>1, <2>2 DEF EngineTypeOK
<1> QED BY <1>1
    DEF EngineNext, CallStep, HostStep, Decide, Resume, Observe, Infer, Reserve, Publish, CompletePlain,
        CompleteReserved, CompleteRefused, Abandon, RevokeAuthorization, Supersede, RevokeProfile,
        ChangePolicy, StopIssuing, Tick, hostVars, storeVars

LEMMA RevocationStep ==
  ASSUME EngineInv, RevocationInv, EngineNext
  PROVE  RevocationInv'
<1> USE DEF EngineInv, RevocationInv
<1>1. CallsPast' /\ clock <= clock' /\ clock \in Nat /\ clock' \in Nat
  BY CallsPastStep
<1>2. EngineTypeOK' /\ AuthorizationGrounded'
  BY EngineStepInv
<1>3. revoked' \subseteq issued'
  BY IssuedFrozen
<1>4. \A r \in issued : Withdrawn(r) \/ validUntil[r] <= clock => Withdrawn(r)' \/ validUntil'[r] <= clock'
  <2> SUFFICES ASSUME NEW r \in issued, Withdrawn(r) \/ validUntil[r] <= clock
               PROVE  Withdrawn(r)' \/ validUntil'[r] <= clock'
    OBVIOUS
  <2>1. validUntil'[r] = validUntil[r] /\ validUntil[r] \in Nat
    BY IssuedFrozen DEF EngineTypeOK
  <2> QED BY <2>1, <1>1, IssuedFrozen DEF Withdrawn
<1>5. ASSUME NEW c \in Callers, Reserve(c)
      PROVE  RevokedHoldsNothing' /\ ReleasedIsUnusable'
  <2>0. PICK s \in Requests : s = caller[c].req
    BY <1>5 DEF EngineTypeOK, CallsHaveRequest, Call, Reserve
  <2>1. UNCHANGED <<issued, revoked, disabled>> /\ s \notin issued /\ s \notin revoked
    BY <1>5, <2>0 DEF Reserve, CallsGrounded, CallGrounded, Asking, AuthorizationGrounded
  <2>2. ASSUME NEW r \in Requests, Withdrawn(r)' PROVE ~Unsubmitted(r)'
    <3>1. Withdrawn(r) /\ ~Unsubmitted(r)
      BY <2>1, <2>2 DEF Withdrawn, RevokedHoldsNothing
    <3>2. CASE r = s
      BY <3>1, <3>2, <1>5, <2>0, <2>1, ReserveOutcome DEF Approved, Withdrawn, Unsubmitted
    <3>3. CASE r # s
      BY <3>1, <3>3, <1>5, <2>0, ReserveOutcome DEF Unsubmitted
    <3> QED BY <3>2, <3>3
  <2>3. ASSUME NEW r \in issued', reservation'[r] = "released" PROVE Withdrawn(r)' \/ validUntil'[r] <= clock'
    <3>1. r \in issued /\ r \in Requests \ {s}
      BY <2>1 DEF EngineTypeOK
    <3>2. CASE reservation[r] = "released"
      BY <3>1, <3>2, <1>4 DEF ReleasedIsUnusable
    <3>3. CASE reservation[r] # "released"
      <4>1. r \in Expired(caller[c].at)
        BY <3>1, <3>3, <2>3, <1>5, <2>0, ReserveOutcome
      <4>2. validUntil[r] <= caller[c].at /\ caller[c].at <= clock /\ caller[c].at \in Nat /\ validUntil[r] \in Nat
        BY <4>1, <3>1 DEF Expired, CallsPast, EngineTypeOK, Call
      <4> QED BY <4>2, <3>1, <1>1, <1>4
    <3> QED BY <3>2, <3>3
  <2> QED BY <2>2, <2>3 DEF RevokedHoldsNothing, ReleasedIsUnusable
<1>6. ASSUME NEW c \in Callers, CompleteReserved(c)
      PROVE  RevokedHoldsNothing' /\ ReleasedIsUnusable'
  <2>0. PICK s \in Requests : s = caller[c].req
    BY <1>6 DEF EngineTypeOK, CallsHaveRequest, Call, CompleteReserved
  <2>1. /\ attempt[s] = "assessed" /\ reservation[s] = "reserved" /\ s \notin issued
        /\ UNCHANGED <<revoked, disabled>> /\ issued' \subseteq issued \cup {s}
        /\ (s \in issued' => reservation'[s] = "authorized")
        /\ \A r \in Requests \ {s} : reservation'[r] = reservation[r]
    BY <1>6, <2>0 DEF CompleteReserved, Reserved, AuthorizationGrounded, EngineTypeOK
  <2>2. ~Withdrawn(s)'
    BY <2>1 DEF RevokedHoldsNothing, Unsubmitted, Withdrawn
  <2>3. RevokedHoldsNothing'
    BY <2>1, <2>2 DEF RevokedHoldsNothing, Unsubmitted, Withdrawn
  <2>4. ReleasedIsUnusable'
    BY <2>1, <1>4, <1>2 DEF ReleasedIsUnusable, EngineTypeOK
  <2> QED BY <2>3, <2>4
<1>7. CASE HostStep
  <2>1. issued' = issued
    BY <1>7 DEF HostStep, RevokeAuthorization, Supersede, RevokeProfile, ChangePolicy, StopIssuing, Tick, storeVars
  <2>2. \A r \in Requests : \/ UNCHANGED <<reservation, revoked, disabled>>
                            \/ reservation'[r] = reservation[r] /\ (Withdrawn(r) <=> Withdrawn(r)')
                            \/ Withdrawn(r)' /\ reservation'[r] = IF Unsubmitted(r) THEN "released" ELSE reservation[r]
    BY <1>7 DEF HostStep, RevokeAuthorization, Supersede, RevokeProfile, ChangePolicy, StopIssuing, Tick,
                storeVars, Released, Release, Withdrawn
  <2>3. RevokedHoldsNothing'
    BY <2>2 DEF RevokedHoldsNothing, Unsubmitted, Withdrawn
  <2>4. ReleasedIsUnusable'
    BY <2>1, <2>2, <1>4 DEF ReleasedIsUnusable, Unsubmitted, EngineTypeOK
  <2> QED BY <2>3, <2>4, <1>1, <1>3
<1>8. ASSUME UNCHANGED <<reservation, issued, revoked, disabled>>
      PROVE  RevokedHoldsNothing' /\ ReleasedIsUnusable'
  BY <1>8, <1>4 DEF RevokedHoldsNothing, ReleasedIsUnusable, Unsubmitted, Withdrawn
<1>9. ASSUME NEW c \in Callers, NEW r \in Requests, Decide(c, r) \/ Resume(c, r)
      PROVE  RevokedHoldsNothing' /\ ReleasedIsUnusable'
  BY <1>8, <1>9 DEF Decide, Resume, storeVars
<1>10. ASSUME NEW c \in Callers,
              Observe(c) \/ Infer(c) \/ Publish(c) \/ CompletePlain(c) \/ CompleteRefused(c) \/ Abandon(c)
       PROVE  RevokedHoldsNothing' /\ ReleasedIsUnusable'
  BY <1>8, <1>10 DEF Observe, Infer, Publish, CompletePlain, CompleteRefused, Abandon, storeVars
<1>11. RevokedHoldsNothing' /\ ReleasedIsUnusable'
  BY <1>5, <1>6, <1>7, <1>9, <1>10 DEF EngineNext, CallStep
<1> QED BY <1>1, <1>3, <1>11

LEMMA RevocationInvariant == EngineSpec => []RevocationInv
<1>1. EngineInit => RevocationInv
  BY EngineAssumption DEF EngineInit, RevocationInv, RevokedHoldsNothing, ReleasedIsUnusable, CallsPast,
     Unsubmitted, Idle, CallOf
<1>2. EngineInv /\ RevocationInv /\ [EngineNext]_engineVars => RevocationInv'
  <2>1. RevocationInv /\ UNCHANGED engineVars => RevocationInv'
    BY DEF RevocationInv, RevokedHoldsNothing, ReleasedIsUnusable, CallsPast, Unsubmitted, Withdrawn,
           engineVars, hostVars, storeVars
  <2> QED BY <2>1, RevocationStep
<1> QED BY <1>1, <1>2, EngineInvariant, PTL DEF EngineSpec

\* A revocation holds against every decision already under way when it is recorded.
THEOREM RevocationHolds == EngineSpec => []RevokedHoldsNothing
  BY RevocationInvariant, PTL DEF RevocationInv

\* Capacity is freed from an authorization only when nothing can be spent under it.
THEOREM ReleaseIsSafe == EngineSpec => []ReleasedIsUnusable
  BY RevocationInvariant, PTL DEF RevocationInv

\* Capacity follows authority both ways: freed with it, withheld without it.
THEOREM CapacityFollows == EngineSpec => []CapacityFollowsAuthority
  BY RevocationInvariant, PTL DEF RevocationInv, CapacityFollowsAuthority

------------------------------------------------------------------------------
(***************************************************************************)
(* The caps.  The sum of what a principal holds is compared with a budget  *)
(* by one transaction only, and by what a call read before; every other    *)
(* step can at most lower what is held.  So both caps are inductive as     *)
(* they stand, one principal and one reservation at a time.                *)
(***************************************************************************)
BudgetHolds(p) ==
  HeldBy(p) # {} =>
    \E r \in Requests : /\ Payer[r] = p /\ reservation[r] # "none"
                        /\ Spent(HeldBy(p), p) <= Budget[PolicyOf[r]]
Span(r) == Min({Window[PolicyOf[q]] : q \in SamePayer(r)})
Most(r) == Max({MaxCalls[PolicyOf[q]] : q \in SamePayer(r)})
Around(r) == {q \in HeldBy(Payer[r]) : assessedAt[q] <= assessedAt[r] /\ assessedAt[q] + Span(r) > assessedAt[r]}
VelocityHolds(r) == Live(reservation[r]) => Cardinality(Around(r)) <= Most(r)

LEMMA LimitsAre ==
  LimitsRespected <=> (\A p \in Principals : BudgetHolds(p)) /\ \A r \in Requests : VelocityHolds(r)
  BY DEF LimitsRespected, BudgetRespected, VelocityRespected, BudgetHolds, VelocityHolds, Span, Most, Around

\* The largest and the smallest of a set are what their names say, when it has one.
LEMMA LargestIs ==
  ASSUME NEW f \in [Requests -> Nat], NEW S \in SUBSET Requests, S # {}
  PROVE  /\ Max({f[q] : q \in S}) \in Nat
         /\ \A q \in S : f[q] <= Max({f[x] : x \in S})
<1> DEFINE V == {f[q] : q \in S}
           Largest(T) == \E m \in T : \A q \in T : f[q] <= f[m]
           Bad == {T \in SUBSET S : T # {} /\ ~Largest(T)}
<1>1. IsFiniteSet(S)
  BY EngineAssumption, FS_Subset
<1>2. Largest(S)
  <2> SUFFICES ASSUME ~Largest(S) PROVE FALSE
    OBVIOUS
  <2>1. S \in Bad /\ Bad \in SUBSET SUBSET S
    OBVIOUS
  <2> HIDE DEF Bad
  <2>2. PICK T \in Bad : \A U \in Bad : U \subseteq T => U = T
    BY <1>1, <2>1, Smallest
  <2>3. T \in SUBSET S /\ T # {} /\ ~Largest(T)
    BY <2>2 DEF Bad
  <2>4. PICK x \in T : TRUE
    BY <2>3
  <2> DEFINE U == T \ {x}
  <2>5. U \notin Bad /\ U \in SUBSET S
    BY <2>2, <2>3, <2>4
  <2>6. CASE U = {}
    <3>1. \A q \in T : f[q] <= f[x]
      BY <2>3, <2>6
    <3> QED BY <2>3, <2>4, <3>1
  <2>7. CASE U # {}
    <3>1. PICK m \in U : \A q \in U : f[q] <= f[m]
      BY <2>5, <2>7 DEF Bad
    <3>2. f[m] \in Nat /\ f[x] \in Nat /\ \A q \in U : f[q] \in Nat
      BY <2>3, <2>4
    <3>3. (\A q \in T : f[q] <= f[m]) \/ (\A q \in T : f[q] <= f[x])
      <4>1. CASE f[x] <= f[m]
        BY <3>1, <4>1
      <4>2. CASE f[m] <= f[x]
        BY <3>1, <3>2, <4>2
      <4> QED BY <3>2, <4>1, <4>2
    <3> QED BY <2>3, <2>4, <3>3
  <2> QED BY <2>6, <2>7
<1>3. PICK m \in S : \A q \in S : f[q] <= f[m]
  BY <1>2
<1>4. V \in SUBSET Nat /\ f[m] \in V /\ \A v \in V : f[m] >= v
  BY <1>3
<1>5. Max(V) \in V /\ \A v \in V : Max(V) >= v
  <2> HIDE DEF V
  <2> QED BY <1>4 DEF Max
<1> QED BY <1>4, <1>5

LEMMA SmallestIs ==
  ASSUME NEW f \in [Requests -> Nat], NEW S \in SUBSET Requests, S # {}
  PROVE  /\ Min({f[q] : q \in S}) \in Nat
         /\ \A q \in S : Min({f[x] : x \in S}) <= f[q]
<1> DEFINE V == {f[q] : q \in S}
<1>1. V \in SUBSET Nat /\ V # {}
  OBVIOUS
<1> HIDE DEF V
<1>2. PICK m \in V : \A v \in V : ~(<<v, m>> \in OpToRel(<, Nat))
  BY <1>1, NatLessThanWellFounded, WFMin
<1>3. \A v \in V : m <= v
  <2> SUFFICES ASSUME NEW v \in V, v < m PROVE FALSE
    BY <1>1
  <2>1. <<v, m>> \in OpToRel(<, Nat)
    BY <1>1 DEF OpToRel
  <2> QED BY <1>2, <2>1
<1>4. Min(V) \in V /\ \A v \in V : Min(V) <= v
  BY <1>3 DEF Min
<1> QED BY <1>1, <1>4 DEF V

LEMMA CapsOf ==
  ASSUME NEW r \in Requests
  PROVE  /\ Span(r) \in Nat /\ Span(r) <= Window[PolicyOf[r]] /\ Window[PolicyOf[r]] \in Nat
         /\ Most(r) \in Nat /\ \A q \in SamePayer(r) : MaxCalls[PolicyOf[q]] <= Most(r)
<1> DEFINE w == [q \in Requests |-> Window[PolicyOf[q]]]
           m == [q \in Requests |-> MaxCalls[PolicyOf[q]]]
           S == SamePayer(r)
<1>1. w \in [Requests -> Nat] /\ m \in [Requests -> Nat] /\ S \in SUBSET Requests /\ r \in S
  BY EngineAssumption DEF SamePayer
<1>2. Span(r) = Min({w[q] : q \in S}) /\ Most(r) = Max({m[q] : q \in S})
  BY <1>1 DEF Span, Most
<1>3. w[r] = Window[PolicyOf[r]] /\ \A q \in S : m[q] = MaxCalls[PolicyOf[q]]
  BY <1>1
<1>4. w[r] \in Nat
  BY <1>1
<1> HIDE DEF w, m, S
<1>5. Span(r) \in Nat /\ Span(r) <= w[r]
  BY <1>1, <1>2, SmallestIs
<1>6. Most(r) \in Nat /\ \A q \in S : m[q] <= Most(r)
  BY <1>1, <1>2, LargestIs
<1> QED BY <1>3, <1>4, <1>5, <1>6 DEF S

\* What requests count for is an amount, and at most their cost while unsettled.
LEMMA CountedTyped ==
  ASSUME EngineTypeOK PROVE \A q \in Requests : Counted(q) \in Nat
  BY EngineAssumption DEF EngineTypeOK, Counted

\* A principal's budget survives a step that grants it nothing and counts nothing
\* for more than before.
LEMMA BudgetStays ==
  ASSUME EngineTypeOK, EngineTypeOK', NEW p, BudgetHolds(p),
         \A q \in Requests : Payer[q] = p =>
           /\ Live(reservation'[q]) => Live(reservation[q]) /\ Counted(q)' <= Counted(q)
           /\ reservation[q] # "none" => reservation'[q] # "none"
  PROVE  BudgetHolds(p)'
<1> SUFFICES ASSUME HeldBy(p)' # {}
             PROVE  \E r \in Requests : /\ Payer[r] = p /\ reservation'[r] # "none"
                                        /\ Spent(HeldBy(p), p)' <= Budget[PolicyOf[r]]
  BY DEF BudgetHolds
<1>1. HeldBy(p)' \subseteq HeldBy(p) /\ HeldBy(p) # {}
  BY DEF HeldBy
<1>2. PICK r \in Requests : /\ Payer[r] = p /\ reservation[r] # "none"
                            /\ Spent(HeldBy(p), p) <= Budget[PolicyOf[r]]
  BY <1>1 DEF BudgetHolds
<1> DEFINE F == [q \in Requests |-> IF q \in HeldBy(p)' /\ Payer[q] = p THEN Counted(q)' ELSE 0]
           G == [q \in Requests |-> IF q \in HeldBy(p) /\ Payer[q] = p THEN Counted(q) ELSE 0]
<1>3. /\ F \in [Requests -> Nat] /\ G \in [Requests -> Nat]
      /\ \A q \in Requests : F[q] <= G[q]
  <2>1. \A q \in Requests : Counted(q) \in Nat
    BY CountedTyped
  <2>2. \A q \in Requests : Counted(q)' \in Nat
    BY EngineAssumption DEF EngineTypeOK, Counted
  <2>3. \A q \in HeldBy(p)' : q \in HeldBy(p) /\ Counted(q)' <= Counted(q)
    BY DEF HeldBy
  <2> QED BY <2>1, <2>2, <2>3
<1>4. SumFunction(F) = Spent(HeldBy(p), p)' /\ SumFunction(G) = Spent(HeldBy(p), p)
  BY DEF Spent
<1> HIDE DEF F, G
<1>5. SumFunction(F) <= SumFunction(G) /\ SumFunction(F) \in Nat /\ SumFunction(G) \in Nat
  BY <1>3, TotalOrdered, TotalTyped, EngineAssumption
<1>6. Budget[PolicyOf[r]] \in Nat
  BY EngineAssumption
<1> QED BY <1>2, <1>4, <1>5, <1>6

\* So does the velocity cap.
LEMMA VelocityStays ==
  ASSUME EngineTypeOK, NEW r \in Requests, VelocityHolds(r),
         \A q \in Requests : Live(reservation'[q]) => Live(reservation[q]) /\ assessedAt'[q] = assessedAt[q]
  PROVE  VelocityHolds(r)'
<1> SUFFICES ASSUME Live(reservation'[r]) PROVE Cardinality(Around(r)') <= Most(r)
  BY DEF VelocityHolds, Most
<1>1. assessedAt'[r] = assessedAt[r] /\ Cardinality(Around(r)) <= Most(r)
  BY DEF VelocityHolds
<1>2. HeldBy(Payer[r])' \subseteq HeldBy(Payer[r]) /\ Span(r)' = Span(r)
  BY DEF HeldBy, Span
<1>3. \A q \in HeldBy(Payer[r])' : assessedAt'[q] = assessedAt[q]
  BY DEF HeldBy
<1>4. Around(r)' \in SUBSET Around(r)
  BY <1>1, <1>2, <1>3 DEF Around
<1>5. IsFiniteSet(Around(r))
  <2>1. Around(r) \in SUBSET Requests
    BY DEF Around, HeldBy
  <2> QED BY <2>1, FS_Subset, EngineAssumption
<1>6. /\ IsFiniteSet(Around(r)') /\ Cardinality(Around(r)') <= Cardinality(Around(r))
  BY <1>4, <1>5, FS_Subset
<1>7. Cardinality(Around(r)') \in Nat /\ Cardinality(Around(r)) \in Nat /\ Most(r) \in Nat
  BY <1>5, <1>6, FS_CardinalityType, CapsOf
<1> QED BY <1>1, <1>6, <1>7

\* The engine never touches a reservation that is submitted or finalized, and never
\* makes one so.
LEMMA EngineKeepsSubmitted ==
  ASSUME EngineInv, EngineNext
  PROVE  /\ actual' = actual
         /\ \A r \in Requests : \/ reservation'[r] = reservation[r]
                                \/ /\ reservation[r] \in {"none", "reserved", "authorized"}
                                   /\ reservation'[r] \in {"reserved", "authorized", "released"}
<1> USE DEF EngineInv
<1>1. ASSUME NEW c \in Callers, Reserve(c)
      PROVE  \A r \in Requests : \/ reservation'[r] = reservation[r]
                                 \/ /\ reservation[r] \in {"none", "reserved", "authorized"}
                                    /\ reservation'[r] \in {"reserved", "authorized", "released"}
  <2>1. PICK s \in Requests : s = caller[c].req
    BY <1>1 DEF EngineTypeOK, CallsHaveRequest, Call, Reserve
  <2>2. reservation[s] = "none"
    BY <1>1, <2>1 DEF Reserve, CallsGrounded, CallGrounded, Asking, HeldGrounded
  <2>3. \A q \in Expired(caller[c].at) : Unsubmitted(q)
    BY DEF Expired
  <2> QED BY <1>1, <2>1, <2>2, <2>3, ReserveOutcome DEF Unsubmitted
<1>2. ASSUME NEW c \in Callers, CompleteReserved(c)
      PROVE  \A r \in Requests : \/ reservation'[r] = reservation[r]
                                 \/ /\ reservation[r] \in {"none", "reserved", "authorized"}
                                    /\ reservation'[r] \in {"reserved", "authorized", "released"}
  BY <1>2 DEF CompleteReserved, Reserved, EngineTypeOK
<1>3. CASE HostStep
  BY <1>3 DEF HostStep, RevokeAuthorization, Supersede, RevokeProfile, ChangePolicy, StopIssuing, Tick,
              storeVars, Released, Release, Unsubmitted
<1>4. actual' = actual
  BY DEF EngineNext, CallStep, HostStep, Decide, Resume, Observe, Infer, Reserve, Publish, CompletePlain,
         CompleteReserved, CompleteRefused, Abandon, RevokeAuthorization, Supersede, RevokeProfile,
         ChangePolicy, StopIssuing, Tick, storeVars
<1> QED BY <1>1, <1>2, <1>3, <1>4
        DEF EngineNext, CallStep, Decide, Resume, Observe, Infer, Publish, CompletePlain, CompleteRefused,
            Abandon, storeVars

\* A reservation is made over what is held once the sweep is done, by one call.
Granting(c) == Reserve(c) /\ reservation'[caller[c].req] = "reserved"

LEMMA GrantFits ==
  ASSUME EngineInv, NEW c \in Callers, Granting(c)
  PROVE  LET r == caller[c].req
             now == caller[c].at
         IN  /\ r \in Requests /\ reservation[r] = "none"
             /\ WithinBudget(r, now) /\ WithinVelocity(r, now) /\ assessedAt'[r] = now /\ now \in Nat
             /\ \A q \in Requests \ {r} :
                  /\ Live(reservation'[q]) <=> q \in HeldAfterSweep(now)
                  /\ Live(reservation'[q]) => reservation'[q] = reservation[q]
                  /\ assessedAt'[q] = assessedAt[q]
                  /\ reservation[q] # "none" => reservation'[q] # "none"
<1> USE DEF EngineInv
<1> DEFINE now == caller[c].at
           r == caller[c].req
           sweeps == Approved(c) /\ issuing
           fits == WithinBudget(r, now) /\ WithinVelocity(r, now)
           swept == IF sweeps THEN Expired(now) ELSE {}
<1>1. Reserve(c) /\ reservation'[r] = "reserved"
  BY DEF Granting
<1>2. /\ r \in Requests /\ attempt[r] = "evaluating" /\ reservation[r] = "none"
      /\ caller[c].pc = "reserve" /\ now \in Nat
  BY <1>1 DEF EngineTypeOK, CallsHaveRequest, Call, Reserve, CallsGrounded, CallGrounded, Asking, HeldGrounded
<1>3. reservation' = IF sweeps /\ fits THEN [Release(swept) EXCEPT ![r] = "reserved"] ELSE Release(swept)
  BY <1>1 DEF Reserve
<1>4. assessedAt' = [assessedAt EXCEPT ![r] = now]
  BY <1>1 DEF Reserve
<1>5. \A q \in Requests : Release(swept)[q] = IF q \in swept THEN "released" ELSE reservation[q]
  BY DEF Release
<1>6. r \notin swept
  BY <1>2 DEF Expired, Unsubmitted
<1>7. sweeps /\ fits
  <2> HIDE DEF sweeps, fits, swept
  <2> QED BY <1>1, <1>2, <1>3, <1>5, <1>6
<1>8. \A q \in Requests \ {r} : reservation'[q] = IF q \in Expired(now) THEN "released" ELSE reservation[q]
  <2>1. swept = Expired(now)
    BY <1>7
  <2>2. reservation' = [Release(swept) EXCEPT ![r] = "reserved"]
    BY <1>3, <1>7
  <2> HIDE DEF sweeps, fits, swept
  <2> QED BY <1>5, <2>1, <2>2 DEF Release
<1>9. \A q \in Requests \ {r} : assessedAt'[q] = assessedAt[q]
  BY <1>4 DEF EngineTypeOK
<1>10. assessedAt'[r] = now
  BY <1>2, <1>4 DEF EngineTypeOK
<1>11. \A q \in Requests \ {r} :
         /\ Live(reservation'[q]) <=> q \in HeldAfterSweep(now)
         /\ Live(reservation'[q]) => reservation'[q] = reservation[q]
  BY <1>8 DEF HeldAfterSweep, Live, Expired
<1>12. \A q \in Requests \ {r} : reservation[q] # "none" => reservation'[q] # "none"
  BY <1>8
<1> QED BY <1>2, <1>7, <1>9, <1>10, <1>11, <1>12

\* What the granted principal holds afterwards is what was compared with its budget.
LEMMA GrantInBudget ==
  ASSUME EngineInv, EngineInv', NEW c \in Callers, Granting(c), UNCHANGED actual,
         NEW r \in Requests, r = caller[c].req
  PROVE  /\ Spent(HeldBy(Payer[r]), Payer[r])' <= Budget[PolicyOf[r]]
         /\ reservation'[r] # "none"
<1> DEFINE now == caller[c].at
           p == Payer[r]
           F == [q \in Requests |-> IF q \in HeldAfterSweep(now) /\ Payer[q] = p THEN Counted(q) ELSE 0]
           G == [q \in Requests |-> IF q \in HeldBy(p)' /\ Payer[q] = p THEN Counted(q)' ELSE 0]
<1>1. /\ reservation[r] = "none" /\ reservation'[r] = "reserved" /\ WithinBudget(r, now)
      /\ \A q \in Requests \ {r} :
           /\ Live(reservation'[q]) <=> q \in HeldAfterSweep(now)
           /\ Live(reservation'[q]) => reservation'[q] = reservation[q]
  BY GrantFits DEF Granting
<1>2. \A q \in Requests : Counted(q) \in Nat /\ Counted(q)' \in Nat
  <2>1. \A q \in Requests : Counted(q) \in Nat
    BY CountedTyped DEF EngineInv
  <2>2. \A q \in Requests : Counted(q)' \in Nat
    BY EngineAssumption DEF EngineInv, EngineTypeOK, Counted
  <2> QED BY <2>1, <2>2
<1>3. F \in [Requests -> Nat] /\ G \in [Requests -> Nat]
  BY <1>2
<1>4. \A q \in Requests \ {r} : F[q] = G[q]
  <2>1. \A q \in Requests \ {r} : Live(reservation'[q]) => Counted(q)' = Counted(q)
    BY <1>1 DEF Counted
  <2> QED BY <1>1, <2>1 DEF HeldBy
<1>5. F[r] = 0 /\ G[r] = Cost[r]
  <2>1. r \notin HeldAfterSweep(now)
    BY <1>1 DEF HeldAfterSweep, Live
  <2>2. r \in HeldBy(p)' /\ Counted(r)' = Cost[r]
    BY <1>1 DEF HeldBy, Live, Counted
  <2> QED BY <2>1, <2>2
<1>6. SumFunction(F) = Spent(HeldAfterSweep(now), p) /\ SumFunction(G) = Spent(HeldBy(p), p)'
  BY DEF Spent
<1> HIDE DEF F, G
<1>7. SumFunction(G) = (SumFunction(F) - F[r]) + G[r] /\ SumFunction(F) \in Nat /\ SumFunction(G) \in Nat
  <2>1. IsFiniteSet(Requests)
    BY EngineAssumption
  <2> QED BY <1>3, <1>4, <2>1, TotalChanges
<1>8. SumFunction(G) = SumFunction(F) + Cost[r]
  <2>1. Cost[r] \in Nat
    BY EngineAssumption
  <2> QED BY <1>5, <1>7, <2>1
<1>9. SumFunction(G) <= Budget[PolicyOf[r]]
  BY <1>1, <1>6, <1>8 DEF WithinBudget
<1> QED BY <1>1, <1>6, <1>9

\* Whatever window the new reservation falls in held less than the cap before: a
\* reservation assessed later may already be there, and is counted.
LEMMA GrantInVelocity ==
  ASSUME EngineInv, EngineInv', NEW c \in Callers, Granting(c), NEW s \in Requests, VelocityHolds(s)
  PROVE  VelocityHolds(s)'
<1>0. PICK r \in Requests : r = caller[c].req
  BY GrantFits
<1> DEFINE now == caller[c].at
           before == Recent(r, now)
<1>1. /\ reservation[r] = "none" /\ reservation'[r] = "reserved" /\ WithinVelocity(r, now)
      /\ assessedAt'[r] = now /\ now \in Nat
      /\ \A q \in Requests \ {r} :
           /\ Live(reservation'[q]) <=> q \in HeldAfterSweep(now)
           /\ Live(reservation'[q]) => reservation'[q] = reservation[q]
           /\ assessedAt'[q] = assessedAt[q]
  BY <1>0, GrantFits DEF Granting
<1> SUFFICES ASSUME Live(reservation'[s]) PROVE Cardinality(Around(s)') <= Most(s)
  BY DEF VelocityHolds, Most
<1>2. /\ Span(s) \in Nat /\ Span(s) <= Window[PolicyOf[s]] /\ Most(s) \in Nat
      /\ Span(s)' = Span(s)
      /\ \A q \in SamePayer(s) : MaxCalls[PolicyOf[q]] <= Most(s)
  BY CapsOf DEF Span
<1>3. /\ \A q \in Requests : assessedAt[q] \in Nat /\ assessedAt'[q] \in Nat
      /\ \A q \in Requests : Window[PolicyOf[q]] \in Nat /\ MaxCalls[PolicyOf[q]] \in Nat
  BY EngineAssumption DEF EngineInv, EngineTypeOK
<1>4. IsFiniteSet(Around(s)) /\ IsFiniteSet(Around(s)') /\ IsFiniteSet(before)
  <2>1. Around(s) \in SUBSET Requests /\ Around(s)' \in SUBSET Requests /\ before \in SUBSET Requests
    BY DEF Around, HeldBy, Recent, HeldAfterSweep
  <2> QED BY <2>1, FS_Subset, EngineAssumption
<1>5. CASE r \in Around(s)'
  <2>1. Payer[s] = Payer[r] /\ now <= assessedAt'[s] /\ now + Span(s) > assessedAt'[s]
    BY <1>1, <1>2, <1>5 DEF Around, HeldBy
  <2>2. Span(s) <= Window[PolicyOf[r]]
    <3>1. Span(s) = Span(r)
      BY <2>1 DEF Span, SamePayer
    <3> QED BY <3>1, CapsOf
  <2>3. \A q \in Around(s)' \ {r} : q \in before
    <3> SUFFICES ASSUME NEW q \in Around(s)', q # r PROVE q \in before
      OBVIOUS
    <3>1. q \in Requests /\ Live(reservation'[q]) /\ Payer[q] = Payer[s]
          /\ assessedAt'[q] + Span(s) > assessedAt'[s]
      BY <1>2 DEF Around, HeldBy
    <3>2. q \in HeldAfterSweep(now) /\ assessedAt'[q] = assessedAt[q]
      BY <1>1, <3>1
    <3>3. assessedAt[q] + Window[PolicyOf[r]] > now
      BY <1>1, <1>2, <1>3, <2>1, <2>2, <3>1, <3>2
    <3> QED BY <2>1, <3>1, <3>2, <3>3 DEF Recent
  <2>4. Around(s)' \in SUBSET (before \cup {r}) /\ r \notin before
    BY <1>1, <2>3 DEF Recent, HeldAfterSweep, Live
  <2>5. IsFiniteSet(before \cup {r}) /\ Cardinality(before \cup {r}) = Cardinality(before) + 1
    BY <1>4, <2>4, FS_AddElement
  <2>6. Cardinality(Around(s)') <= Cardinality(before) + 1
    BY <2>4, <2>5, FS_Subset
  <2>7. Cardinality(before) < MaxCalls[PolicyOf[r]] /\ MaxCalls[PolicyOf[r]] <= Most(s)
    BY <1>1, <1>2, <2>1 DEF WithinVelocity, SamePayer
  <2>8. Cardinality(Around(s)') \in Nat /\ Cardinality(before) \in Nat
    BY <1>4, FS_CardinalityType
  <2> QED BY <1>2, <1>3, <2>6, <2>7, <2>8
<1>6. CASE r \notin Around(s)'
  <2>1. CASE s = r
    <3>1. r \in HeldBy(Payer[s])'
      BY <2>1 DEF HeldBy
    <3>2. Span(s) = 0
      BY <1>1, <1>2, <1>3, <1>6, <2>1, <3>1 DEF Around
    <3>3. Around(s)' = {}
      BY <1>2, <1>3, <3>2 DEF Around, HeldBy
    <3>4. Cardinality(Around(s)') = 0
      BY <3>3, FS_EmptySet
    <3> QED BY <1>2, <3>4
  <2> SUFFICES ASSUME s # r PROVE Cardinality(Around(s)') <= Most(s)
    BY <2>1
  <2>2. Live(reservation[s]) /\ assessedAt'[s] = assessedAt[s] /\ Cardinality(Around(s)) <= Most(s)
    BY <1>1 DEF VelocityHolds
  <2>3. Around(s)' \in SUBSET Around(s)
    <3> SUFFICES ASSUME NEW q \in Around(s)' PROVE q \in Around(s)
      OBVIOUS
    <3>1. q # r /\ q \in Requests /\ Live(reservation'[q]) /\ Payer[q] = Payer[s]
          /\ assessedAt'[q] <= assessedAt'[s] /\ assessedAt'[q] + Span(s) > assessedAt'[s]
      BY <1>2, <1>6 DEF Around, HeldBy
    <3>2. Live(reservation[q]) /\ assessedAt'[q] = assessedAt[q]
      BY <1>1, <3>1
    <3> QED BY <2>2, <3>1, <3>2 DEF Around, HeldBy
  <2>4. Cardinality(Around(s)') <= Cardinality(Around(s))
    BY <1>4, <2>3, FS_Subset
  <2>5. Cardinality(Around(s)') \in Nat /\ Cardinality(Around(s)) \in Nat
    BY <1>4, FS_CardinalityType
  <2> QED BY <1>2, <2>2, <2>4, <2>5
<1> QED BY <1>5, <1>6

\* No other step of the engine makes a reservation that counts.
LEMMA OnlyGrants ==
  ASSUME EngineInv, EngineNext, \A c \in Callers : ~Granting(c)
  PROVE  \A q \in Requests :
           /\ Live(reservation'[q]) => Live(reservation[q]) /\ assessedAt'[q] = assessedAt[q]
           /\ reservation[q] # "none" <=> reservation'[q] # "none"
<1> USE DEF EngineInv
<1>1. ASSUME NEW c \in Callers, Reserve(c)
      PROVE  \A q \in Requests :
               /\ Live(reservation'[q]) => Live(reservation[q]) /\ assessedAt'[q] = assessedAt[q]
               /\ reservation[q] # "none" <=> reservation'[q] # "none"
  <2>1. PICK r \in Requests : r = caller[c].req
    BY <1>1 DEF EngineTypeOK, CallsHaveRequest, Call, Reserve
  <2>2. reservation'[r] = "none" /\ reservation[r] = "none"
    BY <1>1, <2>1, ReserveOutcome DEF Granting, Reserve, CallsGrounded, CallGrounded, Asking, HeldGrounded
  <2>3. \A q \in Requests \ {r} : reservation'[q] \in {reservation[q], "released"}
                                  /\ (reservation[q] = "none" => reservation'[q] = "none")
    BY <1>1, <2>1, ReserveOutcome
  <2>4. \A q \in Requests \ {r} : assessedAt'[q] = assessedAt[q]
    BY <1>1, <2>1 DEF Reserve, EngineTypeOK
  <2> QED BY <2>2, <2>3, <2>4 DEF Live
<1>2. ASSUME NEW c \in Callers, CompleteReserved(c)
      PROVE  \A q \in Requests :
               /\ Live(reservation'[q]) => Live(reservation[q]) /\ assessedAt'[q] = assessedAt[q]
               /\ reservation[q] # "none" <=> reservation'[q] # "none"
  BY <1>2 DEF CompleteReserved, Reserved, EngineTypeOK, Live
<1>3. ASSUME HostStep
      PROVE  \A q \in Requests :
               /\ Live(reservation'[q]) => Live(reservation[q]) /\ assessedAt'[q] = assessedAt[q]
               /\ reservation[q] # "none" <=> reservation'[q] # "none"
  BY <1>3 DEF HostStep, RevokeAuthorization, Supersede, RevokeProfile, ChangePolicy, StopIssuing, Tick,
              storeVars, Released, Release, Live, Unsubmitted
<1> QED BY <1>1, <1>2, <1>3
        DEF EngineNext, CallStep, Decide, Resume, Observe, Infer, Publish, CompletePlain, CompleteRefused,
            Abandon, storeVars

LEMMA EngineLimits ==
  ASSUME EngineInv, LimitsRespected, EngineNext PROVE LimitsRespected'
<1>1. EngineInv' /\ UNCHANGED actual
  BY EngineStepInv, EngineKeepsSubmitted
<1>2. EngineTypeOK /\ EngineTypeOK' /\ (\A p \in Principals : BudgetHolds(p)) /\ \A r \in Requests : VelocityHolds(r)
  BY <1>1, LimitsAre DEF EngineInv
<1>3. \A q \in Requests : Live(reservation'[q]) /\ Live(reservation[q]) => Counted(q)' <= Counted(q)
  <2> SUFFICES ASSUME NEW q \in Requests, Live(reservation'[q]), Live(reservation[q])
               PROVE  Counted(q)' <= Counted(q)
    OBVIOUS
  <2>1. Counted(q)' = Counted(q)
    BY <1>1, EngineKeepsSubmitted DEF Counted
  <2>2. Counted(q) \in Nat
    BY <1>2, CountedTyped
  <2> QED BY <2>1, <2>2
<1>4. CASE \A c \in Callers : ~Granting(c)
  <2>1. \A q \in Requests :
           /\ Live(reservation'[q]) => Live(reservation[q]) /\ assessedAt'[q] = assessedAt[q]
           /\ reservation[q] # "none" => reservation'[q] # "none"
    BY <1>4, OnlyGrants
  <2>2. ASSUME NEW p \in Principals PROVE BudgetHolds(p)'
    BY <1>2, <1>3, <2>1, BudgetStays
  <2>3. ASSUME NEW r \in Requests PROVE VelocityHolds(r)'
    BY <1>2, <2>1, VelocityStays
  <2> QED BY <2>2, <2>3, LimitsAre DEF LimitsRespected, BudgetRespected, VelocityRespected, BudgetHolds,
                                       VelocityHolds, Span, Most, Around
<1>5. ASSUME NEW c \in Callers, Granting(c) PROVE LimitsRespected'
  <2>1. PICK r \in Requests : r = caller[c].req
    BY <1>5, GrantFits
  <2>2. \A q \in Requests \ {r} :
           /\ Live(reservation'[q]) => Live(reservation[q])
           /\ reservation[q] # "none" => reservation'[q] # "none"
    BY <1>5, <2>1, GrantFits
  <2>3. ASSUME NEW p \in Principals PROVE BudgetHolds(p)'
    <3>1. CASE p = Payer[r]
      BY <1>1, <1>5, <2>1, <3>1, GrantInBudget DEF BudgetHolds
    <3>2. CASE p # Payer[r]
      BY <1>2, <1>3, <2>2, <3>2, BudgetStays
    <3> QED BY <3>1, <3>2
  <2>4. ASSUME NEW s \in Requests PROVE VelocityHolds(s)'
    BY <1>1, <1>2, <1>5, GrantInVelocity
  <2> QED BY <2>3, <2>4, LimitsAre DEF LimitsRespected, BudgetRespected, VelocityRespected, BudgetHolds,
                                       VelocityHolds, Span, Most, Around
<1> QED BY <1>4, <1>5

LEMMA InitLimits == EngineInit => LimitsRespected
  BY DEF EngineInit, LimitsRespected, BudgetRespected, VelocityRespected, HeldBy, Live

LEMMA StutterLimits ==
  ASSUME LimitsRespected, UNCHANGED <<reservation, assessedAt, actual>> PROVE LimitsRespected'
<1>1. \A p \in Principals : HeldBy(p)' = HeldBy(p) /\ Spent(HeldBy(p), p)' = Spent(HeldBy(p), p)
  BY DEF HeldBy, Spent, Counted
<1>2. BudgetRespected'
  BY <1>1 DEF LimitsRespected, BudgetRespected
<1>3. VelocityRespected'
  <2>1. \A r \in Requests : Around(r)' = Around(r) /\ Most(r)' = Most(r)
    BY DEF Around, HeldBy, Span, Most
  <2>2. \A r \in Requests : VelocityHolds(r)
    BY LimitsAre
  <2>3. \A r \in Requests : VelocityHolds(r)'
    BY <2>1, <2>2 DEF VelocityHolds
  <2> QED BY <2>3 DEF VelocityRespected, VelocityHolds, Span, Most, Around
<1> QED BY <1>2, <1>3 DEF LimitsRespected

\* Both caps of the policy hold at once for whatever a principal holds, although a call
\* compares with them what it read before the calls it races with wrote.
THEOREM LimitsAreRespected == EngineSpec => []LimitsRespected
<1>1. EngineInit => LimitsRespected
  BY InitLimits
<1>2. EngineInv /\ LimitsRespected /\ [EngineNext]_engineVars => LimitsRespected'
  <2>1. UNCHANGED engineVars => UNCHANGED <<reservation, assessedAt, actual>>
    BY DEF engineVars, storeVars
  <2> QED BY <2>1, EngineLimits, StutterLimits
<1> QED BY <1>1, <1>2, EngineInvariant, PTL DEF EngineSpec

-------------------------------------------------------------------------------
(* Engine and gate *)

(***************************************************************************)
(* The inductive invariant: the execution record and the reservation move  *)
(* together, a verified outcome is what the rail settled, and what a call  *)
(* in progress believes about its record stays true until it acts on it.   *)
(***************************************************************************)
GatesHaveRequest == \A g \in Gates : gate[g].pc = "idle" <=> gate[g].req = NoRequest

RecordFollowsReservation ==
  \A r \in Requests :
    /\ execution[r] \in {"submitted", "verified"} <=> reservation[r] = "submitted"
    /\ execution[r] = "finalized" <=> reservation[r] = "finalized"

DispatchGrounded ==
  \A r \in Requests :
    /\ dispatched[r] <= 1
    /\ dispatched[r] # 0 => execution[r] # "none"
    /\ settled[r] # NoOutcome => dispatched[r] # 0 /\ settled[r].charge <= Cost[r]

OutcomeGrounded ==
  \A r \in Requests :
    /\ outcome[r] # NoOutcome <=> execution[r] \in {"verified", "finalized"}
    /\ outcome[r] # NoOutcome => settled[r] = [ref |-> outcome[r].ref, charge |-> outcome[r].charge]
    /\ receipt[r] # NoOutcome => outcome[r] # NoOutcome

GateGrounded(g) ==
  LET r == gate[g].req IN
  /\ gate[g].pc = "dispatch" => dispatched[r] = 0 /\ execution[r] # "none"
  /\ gate[g].pc = "verify" => gate[g].claim # NoOutcome
  /\ gate[g].pc \in {"publish", "finalize"} =>
       outcome[r] # NoOutcome /\ gate[g].claim = outcome[r] /\ gate[g].latency = latency[r]
  /\ gate[g].pc = "finalize" => receipt[r] # NoOutcome
GatesGrounded == \A g \in Gates : GateGrounded(g)
OneDispatcher ==
  \A g, h \in Gates :
    gate[g].pc = "dispatch" /\ gate[h].pc = "dispatch" /\ gate[h].req = gate[g].req => h = g

RecordsInv ==
  /\ GateTypeOK /\ GatesHaveRequest /\ RecordFollowsReservation /\ DispatchGrounded
  /\ OutcomeGrounded /\ GatesGrounded /\ OneDispatcher
  /\ SettlementUnique /\ ReceiptMatchesRecord
GateInv == EngineInv /\ RecordsInv

------------------------------------------------------------------------------
(***************************************************************************)
(* Steps that change nothing but the record of one call.                   *)
(***************************************************************************)
GatePc == {"idle", "preflight", "policy", "submit", "dispatch", "reply", "query", "verify",
           "publish", "finalize"}
records == <<execution, submittedAt, outcome, latency, receipt, dispatched, settled>>

LEMMA GateCallTyped ==
  /\ Resting \in GateCall
  /\ \A r \in Requests, pc \in GatePc, o \in Outcome \cup {NoOutcome}, ms \in {0, 1} :
       GateCallOf(r, pc, o, ms) \in GateCall
  BY DEF Resting, GateCallOf, GateCall, GatePc, Evidence

\* A call in progress has a request.
LEMMA GateRequest ==
  ASSUME RecordsInv, NEW g \in Gates, gate[g].pc # "idle"
  PROVE  gate[g].req \in Requests
  BY DEF RecordsInv, GateTypeOK, GatesHaveRequest, GateCall

\* The other calls keep what they know, and the records say what they said.
LEMMA OneCallMoves ==
  ASSUME RecordsInv, NEW g \in Gates, NEW n \in GateCall,
         gate' = [gate EXCEPT ![g] = n],
         n.pc = "idle" <=> n.req = NoRequest,
         n.pc # "dispatch",
         n.pc = "verify" => n.claim # NoOutcome,
         n.pc \in {"publish", "finalize"} =>
           outcome[n.req] # NoOutcome /\ n.claim = outcome[n.req] /\ n.latency = latency[n.req],
         n.pc # "finalize",
         UNCHANGED <<engineVars, records>>
  PROVE  RecordsInv'
<1> USE DEF RecordsInv
<1>1. gate'[g] = n /\ \A h \in Gates \ {g} : gate'[h] = gate[h]
  BY DEF GateTypeOK
<1>2. GateTypeOK'
  BY DEF GateTypeOK, records
<1>3. GatesHaveRequest'
  BY <1>1 DEF GatesHaveRequest
<1>4. GatesGrounded'
  BY <1>1 DEF GatesGrounded, GateGrounded, records
<1>5. OneDispatcher'
  BY <1>1 DEF OneDispatcher
<1>6. RecordFollowsReservation' /\ DispatchGrounded' /\ OutcomeGrounded' /\ SettlementUnique' /\ ReceiptMatchesRecord'
  BY DEF RecordFollowsReservation, DispatchGrounded, OutcomeGrounded, SettlementUnique, ReceiptMatchesRecord,
         records, engineVars, storeVars
<1> QED BY <1>2, <1>3, <1>4, <1>5, <1>6

LEMMA BeginSteps ==
  ASSUME GateInv, NEW g \in Gates, NEW r \in Requests, Execute(g, r) \/ Reconcile(g, r)
  PROVE  GateInv'
<1>1. PICK pc \in {"preflight", "query"} : Begin(g, r, pc) /\ UNCHANGED <<engineVars, records>>
  BY DEF Execute, Reconcile, records
<1>2. GateCallOf(r, pc, NoOutcome, 0) \in GateCall
  BY GateCallTyped DEF GatePc
<1>3. RecordsInv'
  BY <1>1, <1>2, OneCallMoves, EngineAssumption DEF GateInv, Begin, GateCallOf
<1> QED BY <1>1, <1>3, EngineStutterInv DEF GateInv

\* finish() of a record that is verified: by a fresh call or after verifyOutcome().
LEMMA PublishingSteps ==
  ASSUME GateInv, NEW g \in Gates, NEW r \in Requests, NEW o,
         outcome[r] # NoOutcome, o = outcome[r], PublishFrom(g, r, o), UNCHANGED <<engineVars, records>>
  PROVE  GateInv'
<1>1. o \in Outcome \cup {NoOutcome} /\ latency[r] \in {0, 1}
  BY DEF GateInv, RecordsInv, GateTypeOK
<1>2. GateCallOf(r, "publish", o, latency[r]) \in GateCall
  BY <1>1, GateCallTyped DEF GatePc
<1>3. RecordsInv'
  BY <1>2, OneCallMoves, EngineAssumption DEF GateInv, PublishFrom, GateCallOf
<1> QED BY <1>3, EngineStutterInv DEF GateInv

LEMMA FinishAgain ==
  ASSUME GateInv, NEW g \in Gates, NEW r \in Requests, ExecuteAgain(g, r) \/ ReconcileVerified(g, r)
  PROVE  GateInv'
<1>1. outcome[r] # NoOutcome
  BY DEF ExecuteAgain, ReconcileVerified, GateInv, RecordsInv, OutcomeGrounded
<1> QED BY <1>1, PublishingSteps DEF ExecuteAgain, ReconcileVerified, records

LEMMA VerifyAgainStep ==
  ASSUME GateInv, NEW g \in Gates, VerifyAgain(g)
  PROVE  GateInv'
<1>1. gate[g].req \in Requests
  BY GateRequest DEF VerifyAgain, GateInv
<1>2. outcome[gate[g].req] # NoOutcome /\ gate[g].claim = outcome[gate[g].req]
  BY <1>1 DEF VerifyAgain, GateInv, RecordsInv, OutcomeGrounded
<1> QED BY <1>1, <1>2, PublishingSteps DEF VerifyAgain, records

LEMMA RefreshStep ==
  ASSUME GateInv, NEW g \in Gates, Refresh(g)
  PROVE  GateInv'
<1> DEFINE n == [gate[g] EXCEPT !.pc = "policy", !.seen = evidence[gate[g].req]]
<1>1. gate[g].req \in Requests
  BY GateRequest DEF Refresh, GateInv
<1>2. n \in GateCall
  <2>1. evidence[gate[g].req] \in Evidence
    BY <1>1 DEF GateInv, EngineInv, EngineTypeOK
  <2> QED BY <2>1 DEF GateInv, RecordsInv, GateTypeOK, GateCall
<1>3. n.pc = "policy" /\ n.req # NoRequest
  BY <1>1, EngineAssumption DEF GateInv, RecordsInv, GateTypeOK, GateCall
<1>4. gate' = [gate EXCEPT ![g] = n] /\ UNCHANGED <<engineVars, records>>
  BY DEF Refresh, records
<1> HIDE DEF n
<1>5. RecordsInv'
  BY <1>2, <1>3, <1>4, OneCallMoves DEF GateInv
<1> QED BY <1>4, <1>5, EngineStutterInv DEF GateInv

LEMMA ReadPolicyStep ==
  ASSUME GateInv, NEW g \in Gates, ReadPolicy(g)
  PROVE  GateInv'
<1> DEFINE n == [gate[g] EXCEPT !.pc = "submit", !.policyOk = PolicyInForce(gate[g].req)]
<1>1. gate[g].req \in Requests
  BY GateRequest DEF ReadPolicy, GateInv
<1>2. n \in GateCall
  BY <1>1 DEF GateInv, RecordsInv, GateTypeOK, GateCall, PolicyInForce
<1>3. n.pc = "submit" /\ n.req # NoRequest
  BY <1>1, EngineAssumption DEF GateInv, RecordsInv, GateTypeOK, GateCall
<1>4. gate' = [gate EXCEPT ![g] = n] /\ UNCHANGED <<engineVars, records>>
  BY DEF ReadPolicy, records
<1> HIDE DEF n
<1>5. RecordsInv'
  BY <1>2, <1>3, <1>4, OneCallMoves DEF GateInv
<1> QED BY <1>4, <1>5, EngineStutterInv DEF GateInv

LEMMA QueryStep ==
  ASSUME GateInv, NEW g \in Gates, NEW o \in Outcome, Query(g, o)
  PROVE  GateInv'
<1> DEFINE n == [gate[g] EXCEPT !.pc = "verify", !.claim = o]
<1>1. gate[g].req \in Requests
  BY GateRequest DEF Query, GateInv
<1>2. n \in GateCall
  BY DEF GateInv, RecordsInv, GateTypeOK, GateCall
<1>3. n.pc = "verify" /\ n.req # NoRequest /\ n.claim # NoOutcome
  BY <1>1, EngineAssumption, GateAssumption DEF GateInv, RecordsInv, GateTypeOK, GateCall
<1>4. gate' = [gate EXCEPT ![g] = n] /\ UNCHANGED <<engineVars, records>>
  BY DEF Query, records
<1> HIDE DEF n
<1>5. RecordsInv'
  BY <1>2, <1>3, <1>4, OneCallMoves DEF GateInv
<1> QED BY <1>4, <1>5, EngineStutterInv DEF GateInv

LEMMA DropStep ==
  ASSUME GateInv, NEW g \in Gates, Drop(g)
  PROVE  GateInv'
<1>1. gate' = [gate EXCEPT ![g] = Resting] /\ UNCHANGED <<engineVars, records>>
  BY DEF Drop, Leave, records
<1>2. Resting \in GateCall /\ Resting.pc = "idle" /\ Resting.req = NoRequest
  BY GateCallTyped DEF Resting, GateCallOf
<1>3. RecordsInv'
  BY <1>1, <1>2, OneCallMoves DEF GateInv
<1> QED BY <1>1, <1>3, EngineStutterInv DEF GateInv

------------------------------------------------------------------------------
(***************************************************************************)
(* Steps that write records.                                               *)
(***************************************************************************)

LEMMA EngineStep ==
  ASSUME GateInv, EngineNext, UNCHANGED gateVars
  PROVE  GateInv'
<1> USE DEF GateInv, RecordsInv
<1>1. EngineInv'
  BY EngineStepInv
<1>2. GateTypeOK' /\ GatesHaveRequest' /\ DispatchGrounded' /\ OutcomeGrounded' /\ OneDispatcher'
      /\ SettlementUnique'
  BY DEF GateTypeOK, GatesHaveRequest, DispatchGrounded, OutcomeGrounded, OneDispatcher, SettlementUnique, gateVars
<1>3. GatesGrounded'
  BY DEF GatesGrounded, GateGrounded, gateVars
<1>4. ReceiptMatchesRecord'
  BY EngineKeepsSubmitted DEF ReceiptMatchesRecord, gateVars
<1>5. RecordFollowsReservation'
  BY EngineKeepsSubmitted DEF RecordFollowsReservation, gateVars
<1> QED BY <1>1, <1>2, <1>3, <1>4, <1>5

LEMMA SubmitStep ==
  ASSUME GateInv, NEW g \in Gates, Submit(g)
  PROVE  GateInv'
<1> USE DEF GateInv, RecordsInv
<1>0. PICK r \in Requests : r = gate[g].req
  BY GateRequest DEF Submit
<1>1. /\ execution[r] = "none" /\ reservation[r] = "authorized"
      /\ execution' = [execution EXCEPT ![r] = "submitted"]
      /\ reservation' = [reservation EXCEPT ![r] = "submitted"]
      /\ submittedAt' = [submittedAt EXCEPT ![r] = clock']
      /\ UNCHANGED <<outcome, latency, receipt, dispatched, settled, actual>>
  BY <1>0 DEF Submit, Claimable
<1>2. /\ gate'[g] = [gate[g] EXCEPT !.pc = "dispatch"]
      /\ \A h \in Gates \ {g} : gate'[h] = gate[h]
  BY DEF Submit, GoTo, GateTypeOK
<1>3. /\ gate'[g].pc = "dispatch" /\ gate'[g].req = r /\ gate[g].pc = "submit"
  BY <1>0, <1>2 DEF Submit, GateTypeOK, GateCall
<1>4. clock' \in 0 .. MaxTime
  BY EngineAssumption DEF Submit, EngineInv, EngineTypeOK
<1>5. EngineInv'
  <2>1. UNCHANGED <<attempt, expiry, verdict, assessedAt, validUntil, issued, costed, judged, caller>>
    BY DEF Submit
  <2>2. EngineTypeOK'
    BY <1>1, <1>4 DEF Submit, EngineInv, EngineTypeOK, ReservationState
  <2>3. CallsHaveRequest' /\ CallsGrounded' /\ OneAssessor'
    BY <2>1 DEF EngineInv, CallsHaveRequest, CallsGrounded, CallGrounded, OneAssessor, Asking, Cited
  <2>4. HeldGrounded' /\ AuthorizationGrounded'
    BY <2>1, <1>1 DEF EngineInv, EngineTypeOK, HeldGrounded, AuthorizationGrounded, Cited
  <2> QED BY <2>2, <2>3, <2>4 DEF EngineInv
<1>6. GateTypeOK'
  <2>1. gate' \in [Gates -> GateCall]
    BY DEF Submit, GoTo, GateTypeOK, GateCall
  <2>2. clock' \in Nat
    BY <1>4, EngineAssumption
  <2> QED BY <2>1, <2>2, <1>1 DEF GateTypeOK
<1>7. GatesHaveRequest'
  BY <1>2, <1>3, <1>0, EngineAssumption DEF GatesHaveRequest
<1>8. RecordFollowsReservation'
  BY <1>1 DEF RecordFollowsReservation, GateTypeOK, EngineInv, EngineTypeOK
<1>9. outcome[r] = NoOutcome /\ receipt[r] = NoOutcome /\ dispatched[r] = 0
  BY <1>1 DEF OutcomeGrounded, DispatchGrounded
<1>10. DispatchGrounded' /\ OutcomeGrounded' /\ SettlementUnique' /\ ReceiptMatchesRecord'
  BY <1>1, <1>9 DEF DispatchGrounded, OutcomeGrounded, SettlementUnique, ReceiptMatchesRecord, GateTypeOK
<1>11. GatesGrounded'
  <2>1. GateGrounded(g)'
    BY <1>1, <1>3, <1>9 DEF GateGrounded, GateTypeOK
  <2>2. ASSUME NEW h \in Gates \ {g} PROVE GateGrounded(h)'
    BY <1>1, <1>2 DEF GatesGrounded, GateGrounded, GateTypeOK
  <2> QED BY <2>1, <2>2 DEF GatesGrounded
<1>12. OneDispatcher'
  <2>1. \A h \in Gates \ {g} : ~(gate'[h].pc = "dispatch" /\ gate'[h].req = r)
    BY <1>1, <1>2 DEF GatesGrounded, GateGrounded
  <2> QED BY <1>2, <1>3, <2>1 DEF OneDispatcher
<1> QED BY <1>5, <1>6, <1>7, <1>8, <1>10, <1>11, <1>12

\* What holds after a gate step that leaves the engine alone.
LEMMA EngineKept ==
  ASSUME GateInv, UNCHANGED engineVars
  PROVE  EngineInv' /\ (RecordFollowsReservation /\ UNCHANGED execution => RecordFollowsReservation')
  BY EngineStutterInv DEF GateInv, RecordFollowsReservation, engineVars, storeVars

LEMMA DispatchStep ==
  ASSUME GateInv, NEW g \in Gates, Dispatch(g)
  PROVE  GateInv'
<1> USE DEF GateInv, RecordsInv
<1>0. PICK r \in Requests : r = gate[g].req
  BY GateRequest DEF Dispatch
<1>1. dispatched[r] = 0 /\ execution[r] # "none"
  BY <1>0 DEF Dispatch, GatesGrounded, GateGrounded
<1>2. dispatched'[r] = 1 /\ \A q \in Requests \ {r} : dispatched'[q] = dispatched[q]
  BY <1>0, <1>1 DEF Dispatch, GateTypeOK
<1>3. /\ gate'[g].pc = "reply" /\ gate'[g].req = r
      /\ \A h \in Gates \ {g} : gate'[h] = gate[h]
  BY <1>0 DEF Dispatch, GoTo, GateTypeOK, GateCall
<1>4. UNCHANGED <<engineVars, execution, submittedAt, outcome, latency, receipt, settled>>
  BY DEF Dispatch
<1>5. GateTypeOK'
  <2>1. gate' \in [Gates -> GateCall]
    BY DEF Dispatch, GoTo, GateTypeOK, GateCall
  <2>2. dispatched' \in [Requests -> Nat]
    BY <1>0, <1>1 DEF Dispatch, GateTypeOK
  <2> QED BY <2>1, <2>2, <1>4 DEF GateTypeOK
<1>6. GatesHaveRequest'
  BY <1>3, <1>0, EngineAssumption DEF GatesHaveRequest
<1>7. \A h \in Gates \ {g} : ~(gate'[h].pc = "dispatch" /\ gate'[h].req = r)
  BY <1>0, <1>3 DEF OneDispatcher, Dispatch
<1>8. GatesGrounded'
  <2>1. GateGrounded(g)'
    BY <1>3 DEF GateGrounded
  <2>2. ASSUME NEW h \in Gates \ {g} PROVE GateGrounded(h)'
    <3>1. CASE gate[h].pc = "idle"
      BY <3>1, <1>3 DEF GateGrounded
    <3>2. CASE gate[h].pc # "idle"
      <4>1. gate[h].req \in Requests
        BY <3>2, GateRequest
      <4> QED BY <4>1, <1>2, <1>3, <1>4, <1>7 DEF GatesGrounded, GateGrounded
    <3> QED BY <3>1, <3>2
  <2> QED BY <2>1, <2>2 DEF GatesGrounded
<1>9. OneDispatcher'
  BY <1>3, <1>7 DEF OneDispatcher
<1>10. DispatchGrounded'
  BY <1>1, <1>2, <1>4 DEF DispatchGrounded, GateTypeOK
<1>11. OutcomeGrounded' /\ SettlementUnique' /\ ReceiptMatchesRecord'
  BY <1>4 DEF OutcomeGrounded, SettlementUnique, ReceiptMatchesRecord, engineVars, storeVars
<1> QED BY <1>4, <1>5, <1>6, <1>8, <1>9, <1>10, <1>11, EngineKept

LEMMA ReplyStep ==
  ASSUME GateInv, NEW g \in Gates, NEW o \in Outcome, Reply(g, o)
  PROVE  GateInv'
<1> USE DEF GateInv, RecordsInv
<1>0. PICK r \in Requests : r = gate[g].req
  BY GateRequest DEF Reply
<1>1. \/ UNCHANGED latency
      \/ execution[r] = "submitted" /\ latency' = [latency EXCEPT ![r] = 1]
  BY <1>0 DEF Reply
<1>2. \A q \in Requests : outcome[q] # NoOutcome => latency'[q] = latency[q]
  BY <1>1 DEF OutcomeGrounded, GateTypeOK
<1>3. /\ gate'[g].pc = "verify" /\ gate'[g].req = r /\ gate'[g].claim = o
      /\ \A h \in Gates \ {g} : gate'[h] = gate[h]
  BY <1>0 DEF Reply, GateTypeOK, GateCall
<1>4. UNCHANGED <<engineVars, execution, submittedAt, outcome, receipt, dispatched, settled>>
  BY DEF Reply
<1>5. GateTypeOK'
  <2>1. [gate[g] EXCEPT !.pc = "verify", !.claim = o] \in GateCall
    BY DEF GateTypeOK, GateCall
  <2>2. gate' \in [Gates -> GateCall]
    BY <2>1 DEF Reply, GateTypeOK
  <2>3. latency' \in [Requests -> {0, 1}]
    BY <1>1 DEF GateTypeOK
  <2> QED BY <2>2, <2>3, <1>4 DEF GateTypeOK
<1>6. GatesHaveRequest'
  BY <1>3, <1>0, EngineAssumption DEF GatesHaveRequest
<1>7. GatesGrounded'
  <2>1. GateGrounded(g)'
    BY <1>3, GateAssumption DEF GateGrounded
  <2>2. ASSUME NEW h \in Gates \ {g} PROVE GateGrounded(h)'
    <3>1. CASE gate[h].pc = "idle"
      BY <3>1, <1>3 DEF GateGrounded
    <3>2. CASE gate[h].pc # "idle"
      <4>1. gate[h].req \in Requests
        BY <3>2, GateRequest
      <4> QED BY <4>1, <1>2, <1>3, <1>4 DEF GatesGrounded, GateGrounded
    <3> QED BY <3>1, <3>2
  <2> QED BY <2>1, <2>2 DEF GatesGrounded
<1>8. OneDispatcher'
  BY <1>3 DEF OneDispatcher
<1>9. DispatchGrounded' /\ OutcomeGrounded' /\ SettlementUnique'
  BY <1>4 DEF DispatchGrounded, OutcomeGrounded, SettlementUnique
<1>10. ReceiptMatchesRecord'
  BY <1>2, <1>4 DEF ReceiptMatchesRecord, OutcomeGrounded, engineVars, storeVars
<1> QED BY <1>4, <1>5, <1>6, <1>7, <1>8, <1>9, <1>10, EngineKept

LEMMA VerifyFirstStep ==
  ASSUME GateInv, NEW g \in Gates, VerifyFirst(g)
  PROVE  GateInv'
<1> USE DEF GateInv, RecordsInv
<1>0. PICK r \in Requests : r = gate[g].req
  BY GateRequest DEF VerifyFirst
<1>1. PICK o \in Outcome : o = gate[g].claim
  BY DEF VerifyFirst, GatesGrounded, GateGrounded, GateTypeOK, GateCall
<1>2. /\ settled[r] = [ref |-> o.ref, charge |-> o.charge]
      /\ execution[r] = "submitted" /\ ~SettlementReused(r, o) /\ o # NoOutcome
  BY <1>0, <1>1, GateAssumption DEF VerifyFirst, Confirmed
<1>3. outcome[r] = NoOutcome /\ receipt[r] = NoOutcome
  BY <1>2 DEF OutcomeGrounded
<1>4. /\ UNCHANGED <<engineVars, submittedAt, latency, receipt, dispatched, settled>>
      /\ execution' = [execution EXCEPT ![r] = "verified"]
      /\ outcome' = [outcome EXCEPT ![r] = o]
      /\ gate' = [gate EXCEPT ![g] = GateCallOf(r, "publish", o, latency[r])]
  BY <1>0, <1>1 DEF VerifyFirst, PublishFrom
<1>5. /\ outcome'[r] = o /\ execution'[r] = "verified"
      /\ \A q \in Requests \ {r} : outcome'[q] = outcome[q] /\ execution'[q] = execution[q]
  BY <1>4 DEF GateTypeOK
<1>6. /\ gate'[g].pc = "publish" /\ gate'[g].req = r /\ gate'[g].claim = o /\ gate'[g].latency = latency[r]
      /\ \A h \in Gates \ {g} : gate'[h] = gate[h]
  BY <1>4 DEF GateTypeOK, GateCallOf
<1>7. GateTypeOK'
  <2>1. GateCallOf(r, "publish", o, latency[r]) \in GateCall
    BY GateCallTyped DEF GateTypeOK, GatePc
  <2>2. gate' \in [Gates -> GateCall]
    BY <2>1, <1>4 DEF GateTypeOK
  <2> QED BY <2>2, <1>4 DEF GateTypeOK
<1>8. GatesHaveRequest'
  BY <1>6, EngineAssumption DEF GatesHaveRequest
<1>9. EngineInv' /\ reservation' = reservation
  BY <1>4, EngineKept DEF engineVars, storeVars
<1>10. RecordFollowsReservation'
  BY <1>2, <1>5, <1>9 DEF RecordFollowsReservation
<1>11. DispatchGrounded' /\ OutcomeGrounded'
  BY <1>2, <1>3, <1>4, <1>5 DEF DispatchGrounded, OutcomeGrounded
<1>12. GatesGrounded'
  <2>1. GateGrounded(g)'
    BY <1>2, <1>4, <1>5, <1>6 DEF GateGrounded
  <2>2. ASSUME NEW h \in Gates \ {g} PROVE GateGrounded(h)'
    <3>1. CASE gate[h].pc = "idle"
      BY <3>1, <1>6 DEF GateGrounded
    <3>2. CASE gate[h].pc # "idle"
      <4>1. gate[h].req \in Requests
        BY <3>2, GateRequest
      <4> QED BY <4>1, <1>3, <1>4, <1>5, <1>6 DEF GatesGrounded, GateGrounded
    <3> QED BY <3>1, <3>2
  <2> QED BY <2>1, <2>2 DEF GatesGrounded
<1>13. OneDispatcher'
  BY <1>6 DEF OneDispatcher
<1>14. SettlementUnique'
  <2>1. \A q \in Requests \ {r} : outcome[q] # NoOutcome => outcome[q].ref # o.ref
    BY <1>2 DEF SettlementReused
  <2> QED BY <2>1, <1>5 DEF SettlementUnique
<1>15. ReceiptMatchesRecord'
  <2>1. actual' = actual
    BY <1>4 DEF engineVars, storeVars
  <2> QED BY <2>1, <1>3, <1>4, <1>5 DEF ReceiptMatchesRecord
<1> QED BY <1>7, <1>8, <1>9, <1>10, <1>11, <1>12, <1>13, <1>14, <1>15

LEMMA PublishExecutionStep ==
  ASSUME GateInv, NEW g \in Gates, PublishExecution(g)
  PROVE  GateInv'
<1> USE DEF GateInv, RecordsInv
<1>0. PICK r \in Requests : r = gate[g].req
  BY GateRequest DEF PublishExecution
<1>1. PICK rec : rec = [outcome |-> outcome[r], latency |-> latency[r], at |-> submittedAt[r]]
  OBVIOUS
<1>2. outcome[r] # NoOutcome /\ ReceiptOf(g) = rec
  BY <1>0, <1>1 DEF PublishExecution, GatesGrounded, GateGrounded, ReceiptOf
<1>3. rec \in Receipt /\ rec # NoOutcome
  BY <1>1, <1>2, GateAssumption DEF GateTypeOK, Receipt
<1>4. /\ receipt' = [receipt EXCEPT ![r] = rec]
      /\ UNCHANGED <<engineVars, execution, submittedAt, outcome, latency, dispatched, settled>>
  BY <1>0, <1>2 DEF PublishExecution
<1>5. receipt'[r] = rec /\ \A q \in Requests \ {r} : receipt'[q] = receipt[q]
  BY <1>4 DEF GateTypeOK
<1>6. /\ gate'[g].pc = "finalize" /\ gate'[g].req = r /\ gate'[g].claim = gate[g].claim
      /\ gate'[g].latency = gate[g].latency /\ gate[g].pc = "publish"
      /\ \A h \in Gates \ {g} : gate'[h] = gate[h]
  BY <1>0 DEF PublishExecution, GoTo, GateTypeOK, GateCall
<1>7. GateTypeOK'
  <2>1. gate' \in [Gates -> GateCall]
    BY DEF PublishExecution, GoTo, GateTypeOK, GateCall
  <2> QED BY <2>1, <1>3, <1>4 DEF GateTypeOK
<1>8. GatesHaveRequest'
  BY <1>6, <1>0, EngineAssumption DEF GatesHaveRequest
<1>9. GatesGrounded'
  <2>1. GateGrounded(g)'
    BY <1>0, <1>3, <1>4, <1>5, <1>6 DEF GatesGrounded, GateGrounded
  <2>2. ASSUME NEW h \in Gates \ {g} PROVE GateGrounded(h)'
    <3>1. CASE gate[h].pc = "idle"
      BY <3>1, <1>6 DEF GateGrounded
    <3>2. CASE gate[h].pc # "idle"
      <4>1. gate[h].req \in Requests
        BY <3>2, GateRequest
      <4> QED BY <4>1, <1>3, <1>4, <1>5, <1>6 DEF GatesGrounded, GateGrounded
    <3> QED BY <3>1, <3>2
  <2> QED BY <2>1, <2>2 DEF GatesGrounded
<1>10. OneDispatcher'
  BY <1>6 DEF OneDispatcher
<1>11. DispatchGrounded' /\ OutcomeGrounded' /\ SettlementUnique'
  BY <1>2, <1>4, <1>5 DEF DispatchGrounded, OutcomeGrounded, SettlementUnique
<1>12. ReceiptMatchesRecord'
  <2>1. actual' = actual
    BY <1>4 DEF engineVars, storeVars
  <2> QED BY <2>1, <1>1, <1>3, <1>4, <1>5 DEF ReceiptMatchesRecord
<1> QED BY <1>4, <1>7, <1>8, <1>9, <1>10, <1>11, <1>12, EngineKept

LEMMA FinalizeStep ==
  ASSUME GateInv, NEW g \in Gates, Finalize(g)
  PROVE  GateInv'
<1> USE DEF GateInv, RecordsInv
<1>0. PICK r \in Requests : r = gate[g].req
  BY GateRequest DEF Finalize
<1>1. /\ reservation[r] = "submitted" /\ outcome[r] # NoOutcome /\ receipt[r] # NoOutcome
      /\ gate[g].claim = outcome[r] /\ execution[r] = "verified"
  BY <1>0 DEF Finalize, GatesGrounded, GateGrounded, OutcomeGrounded
<1>2. /\ reservation' = [reservation EXCEPT ![r] = "finalized"]
      /\ actual' = [actual EXCEPT ![r] = outcome[r].charge]
      /\ execution' = [execution EXCEPT ![r] = "finalized"]
      /\ UNCHANGED <<submittedAt, outcome, latency, receipt, dispatched, settled>>
      /\ gate' = [gate EXCEPT ![g] = Resting]
  BY <1>0, <1>1 DEF Finalize, Leave
<1>3. /\ gate'[g].pc = "idle" /\ gate'[g].req = NoRequest
      /\ \A h \in Gates \ {g} : gate'[h] = gate[h]
  BY <1>2 DEF GateTypeOK, Resting, GateCallOf
<1>4. outcome[r] \in Outcome /\ outcome[r].charge \in Nat
  BY <1>1, GateAssumption DEF GateTypeOK, Outcome
<1>5. EngineInv'
  <2>1. UNCHANGED <<hostVars, attempt, expiry, verdict, assessedAt, validUntil, issued, revoked, disabled,
                    costed, judged, caller>>
    BY DEF Finalize
  <2>2. EngineTypeOK'
    BY <2>1, <1>2, <1>4 DEF EngineInv, EngineTypeOK, ReservationState, hostVars
  <2>3. CallsHaveRequest' /\ CallsGrounded' /\ OneAssessor'
    BY <2>1 DEF EngineInv, CallsHaveRequest, CallsGrounded, CallGrounded, OneAssessor, Asking, Cited
  <2>4. HeldGrounded' /\ AuthorizationGrounded'
    BY <2>1, <1>1, <1>2 DEF EngineInv, EngineTypeOK, HeldGrounded, AuthorizationGrounded, Cited
  <2> QED BY <2>2, <2>3, <2>4 DEF EngineInv
<1>6. GateTypeOK'
  BY <1>2, GateCallTyped DEF GateTypeOK
<1>7. GatesHaveRequest'
  BY <1>3 DEF GatesHaveRequest
<1>8. RecordFollowsReservation'
  BY <1>2 DEF RecordFollowsReservation, GateTypeOK, EngineInv, EngineTypeOK
<1>9. DispatchGrounded' /\ OutcomeGrounded' /\ SettlementUnique'
  BY <1>1, <1>2 DEF DispatchGrounded, OutcomeGrounded, SettlementUnique, GateTypeOK
<1>10. ReceiptMatchesRecord'
  BY <1>1, <1>2 DEF ReceiptMatchesRecord, GateTypeOK, EngineInv, EngineTypeOK
<1>11. GatesGrounded'
  <2>1. GateGrounded(g)'
    BY <1>3 DEF GateGrounded
  <2>2. ASSUME NEW h \in Gates \ {g} PROVE GateGrounded(h)'
    BY <1>2, <1>3 DEF GatesGrounded, GateGrounded, GateTypeOK
  <2> QED BY <2>1, <2>2 DEF GatesGrounded
<1>12. OneDispatcher'
  BY <1>3 DEF OneDispatcher
<1> QED BY <1>5, <1>6, <1>7, <1>8, <1>9, <1>10, <1>11, <1>12

LEMMA SettleStep ==
  ASSUME GateInv, NEW r \in Requests, Settle(r)
  PROVE  GateInv'
<1> USE DEF GateInv, RecordsInv
<1>1. PICK s \in Settlement : s.charge <= Cost[r] /\ settled' = [settled EXCEPT ![r] = s]
  BY DEF Settle
<1>2. /\ dispatched[r] # 0 /\ settled[r] = NoOutcome
      /\ UNCHANGED <<engineVars, execution, submittedAt, outcome, latency, receipt, dispatched, gate>>
  BY DEF Settle, GateTypeOK
<1>3. outcome[r] = NoOutcome
  BY <1>2, GateAssumption DEF OutcomeGrounded, GateTypeOK, Settlement, Outcome
<1>4. GateTypeOK' /\ GatesHaveRequest' /\ GatesGrounded' /\ OneDispatcher' /\ SettlementUnique'
  BY <1>1, <1>2 DEF GateTypeOK, GatesHaveRequest, GatesGrounded, GateGrounded, OneDispatcher, SettlementUnique
<1>5. DispatchGrounded' /\ OutcomeGrounded'
  BY <1>1, <1>2, <1>3 DEF DispatchGrounded, OutcomeGrounded, GateTypeOK
<1>6. ReceiptMatchesRecord'
  BY <1>2 DEF ReceiptMatchesRecord, engineVars, storeVars
<1> QED BY <1>2, <1>4, <1>5, <1>6, EngineKept

LEMMA GateStepInv == GateInv /\ [Next]_vars => GateInv'
<1> SUFFICES ASSUME GateInv, [Next]_vars PROVE GateInv'
  OBVIOUS
<1>1. CASE GateNext
  BY <1>1, BeginSteps, FinishAgain, RefreshStep, ReadPolicyStep, SubmitStep, DispatchStep, ReplyStep,
     QueryStep, VerifyFirstStep, VerifyAgainStep, PublishExecutionStep, FinalizeStep, DropStep, SettleStep
  DEF GateNext, GateStep
<1>2. CASE EngineNext /\ UNCHANGED gateVars
  BY <1>2, EngineStep
<1>3. CASE UNCHANGED vars
  BY <1>3, EngineStutterInv
  DEF vars, gateVars, GateInv, RecordsInv, GateTypeOK, GatesHaveRequest, RecordFollowsReservation,
      DispatchGrounded, OutcomeGrounded, GatesGrounded, GateGrounded, OneDispatcher, SettlementUnique,
      ReceiptMatchesRecord, engineVars, storeVars
<1> QED BY <1>1, <1>2, <1>3 DEF Next

LEMMA GateInitInv == Init => GateInv
<1> SUFFICES ASSUME Init PROVE GateInv
  OBVIOUS
<1>1. EngineInv
  BY InitInv DEF Init
<1>2. GateTypeOK
  BY GateCallTyped DEF Init, GateTypeOK
<1>3. \A g \in Gates : gate[g].pc = "idle" /\ gate[g].req = NoRequest
  BY DEF Init, Resting, GateCallOf
<1>4. GatesHaveRequest /\ GatesGrounded /\ OneDispatcher
  BY <1>3 DEF GatesHaveRequest, GatesGrounded, GateGrounded, OneDispatcher
<1>5. RecordFollowsReservation /\ DispatchGrounded /\ OutcomeGrounded /\ SettlementUnique /\ ReceiptMatchesRecord
  BY DEF Init, EngineInit, RecordFollowsReservation, DispatchGrounded, OutcomeGrounded, SettlementUnique,
         ReceiptMatchesRecord
<1> QED BY <1>1, <1>2, <1>4, <1>5 DEF GateInv, RecordsInv

LEMMA GateInvariant == Spec => []GateInv
  BY GateInitInv, GateStepInv, PTL DEF Spec

------------------------------------------------------------------------------
\* Type correctness of engine and gate together.
THEOREM GateTypeCorrect == Spec => []TypeOK
<1>1. GateInv => TypeOK
  BY DEF GateInv, RecordsInv, EngineInv, TypeOK
<1> QED BY <1>1, GateInvariant, PTL

\* At most one call of the executor per authorization, and only with capacity committed.
THEOREM DispatchIsSingle == Spec => []DispatchedOnce
<1>1. GateInv => DispatchedOnce
  BY DEF GateInv, RecordsInv, DispatchedOnce, DispatchGrounded, RecordFollowsReservation, GateTypeOK
<1> QED BY <1>1, GateInvariant, PTL

\* What an execution record says was charged was within the cost.
LEMMA ChargedWithinCost ==
  ASSUME GateInv, NEW r \in Requests, outcome[r] # NoOutcome
  PROVE  outcome[r].charge \in Nat /\ outcome[r].charge <= Cost[r] /\ settled[r].charge = outcome[r].charge
<1> USE DEF GateInv, RecordsInv
<1>1. settled[r] = [ref |-> outcome[r].ref, charge |-> outcome[r].charge]
  BY DEF OutcomeGrounded
<1>2. settled[r].charge = outcome[r].charge
  BY <1>1
<1>3. outcome[r] \in Outcome /\ outcome[r].charge \in Nat /\ outcome[r].ref \in Refs /\ outcome[r].charge \in Charges
  BY GateAssumption DEF GateTypeOK, Outcome
<1>4. settled[r] \in Settlement
  BY <1>1, <1>3 DEF Settlement
<1>5. settled[r] # NoOutcome
  BY <1>4, GateAssumption
<1>6. settled[r].charge <= Cost[r]
  BY <1>5 DEF DispatchGrounded
<1> QED BY <1>2, <1>3, <1>6

\* An outcome is of a settlement.
LEMMA OutcomeSettled ==
  ASSUME GateInv, NEW r \in Requests, outcome[r] # NoOutcome PROVE settled[r] # NoOutcome
<1>1. outcome[r] \in Outcome /\ settled[r] = [ref |-> outcome[r].ref, charge |-> outcome[r].charge]
  BY DEF GateInv, RecordsInv, GateTypeOK, OutcomeGrounded
<1>2. settled[r] \in Settlement
  BY <1>1 DEF Outcome, Settlement
<1> QED BY <1>2, GateAssumption

\* What settled is held for at least as much.
LEMMA PaymentCovered ==
  ASSUME GateInv, NEW r \in Requests, settled[r] # NoOutcome
  PROVE  /\ reservation[r] \in {"submitted", "finalized"}
         /\ settled[r].charge \in Nat /\ settled[r].charge <= Counted(r)
<1>1. reservation[r] \in {"submitted", "finalized"} /\ settled[r].charge <= Cost[r]
  BY DEF GateInv, RecordsInv, DispatchGrounded, RecordFollowsReservation, GateTypeOK
<1>2. settled[r].charge \in Nat
  BY GateAssumption DEF GateInv, RecordsInv, GateTypeOK, Settlement
<1>3. ASSUME reservation[r] = "finalized" PROVE actual[r] = settled[r].charge
  <2>1. outcome[r] # NoOutcome /\ actual[r] = outcome[r].charge
    BY <1>3 DEF GateInv, RecordsInv, RecordFollowsReservation, OutcomeGrounded, ReceiptMatchesRecord
  <2> QED BY <2>1, ChargedWithinCost
<1> QED BY <1>1, <1>2, <1>3 DEF Counted

\* What a rail settled, in time or late, stays covered by committed capacity.
THEOREM EffectsAreCovered == Spec => []EffectCovered
<1>1. GateInv => EffectCovered
  BY PaymentCovered DEF EffectCovered
<1> QED BY <1>1, GateInvariant, PTL

\* No two executions are proved by one settlement.
THEOREM SettlementsAreUnique == Spec => []SettlementUnique
  BY GateInvariant, PTL DEF GateInv, RecordsInv

\* Whoever published it and whoever verified it, the receipt is the record's.
THEOREM ReceiptsMatchRecords == Spec => []ReceiptMatchesRecord
  BY GateInvariant, PTL DEF GateInv, RecordsInv

(***************************************************************************)
(* Superseded evidence.  Once the evidence r cites is superseded, calls    *)
(* that have yet to refresh will read that, and the judge refuses it: the  *)
(* claim of r is ruled out for ever.                                       *)
(***************************************************************************)
Doomed(r) ==
  /\ evidence[r] = "superseded" /\ execution[r] = "none"
  /\ \A g \in Gates : gate[g].req = r /\ gate[g].pc \in {"policy", "submit"} => gate[g].seen = "superseded"

\* The judge never approves superseded evidence.
LEMMA SupersededRefused ==
  ASSUME NEW r, NEW answer, NEW now
  PROVE  Judge(r, answer, "superseded", now) # "ALLOW"
  BY DEF Judge

\* An engine step leaves superseded evidence superseded.
LEMMA EvidenceStaysSuperseded ==
  ASSUME EngineInv, EngineNext, NEW r \in Requests, evidence[r] = "superseded"
  PROVE  evidence'[r] = "superseded"
  BY DEF EngineInv, EngineTypeOK, EngineNext, CallStep, HostStep, Decide, Resume, Observe, Infer, Reserve, Publish,
         CompletePlain, CompleteReserved, CompleteRefused, Abandon, RevokeAuthorization, Supersede,
         RevokeProfile, ChangePolicy, StopIssuing, Tick, hostVars

LEMMA DoomedStep ==
  ASSUME GateInv, NEW r \in Requests, Doomed(r), [Next]_vars
  PROVE  Doomed(r)'
<1> USE DEF GateInv, RecordsInv
<1>1. CASE EngineNext /\ UNCHANGED gateVars
  BY <1>1, EvidenceStaysSuperseded DEF Doomed, gateVars
<1>2. CASE UNCHANGED vars
  BY <1>2 DEF Doomed, vars, gateVars, engineVars, hostVars
<1>3. ASSUME NEW g \in Gates, UNCHANGED <<evidence, execution>>,
             \A h \in Gates \ {g} : gate'[h] = gate[h],
             gate'[g].req = r /\ gate'[g].pc \in {"policy", "submit"} => gate'[g].seen = "superseded"
      PROVE  Doomed(r)'
  BY <1>3 DEF Doomed
<1>4. ASSUME NEW g \in Gates, NEW q \in Requests,
             Execute(g, q) \/ ExecuteAgain(g, q) \/ Reconcile(g, q) \/ ReconcileVerified(g, q)
      PROVE  Doomed(r)'
  BY <1>3, <1>4 DEF Execute, ExecuteAgain, Reconcile, ReconcileVerified, Begin, PublishFrom, GateCallOf,
                    GateTypeOK, engineVars, hostVars
<1>5. ASSUME NEW g \in Gates, Refresh(g) PROVE Doomed(r)'
  <2>1. /\ gate'[g].req = gate[g].req /\ gate'[g].seen = evidence[gate[g].req]
        /\ \A h \in Gates \ {g} : gate'[h] = gate[h]
    BY <1>5 DEF Refresh, GateTypeOK, GateCall
  <2>2. UNCHANGED <<evidence, execution>>
    BY <1>5 DEF Refresh, engineVars, hostVars
  <2> QED BY <2>1, <2>2, <1>3 DEF Doomed
<1>6. ASSUME NEW g \in Gates, ReadPolicy(g) PROVE Doomed(r)'
  <2>1. /\ gate'[g].req = gate[g].req /\ gate'[g].seen = gate[g].seen /\ gate[g].pc = "policy"
        /\ \A h \in Gates \ {g} : gate'[h] = gate[h]
    BY <1>6 DEF ReadPolicy, GateTypeOK, GateCall
  <2>2. UNCHANGED <<evidence, execution>>
    BY <1>6 DEF ReadPolicy, engineVars, hostVars
  <2> QED BY <2>1, <2>2, <1>3 DEF Doomed
<1>7. ASSUME NEW g \in Gates, Submit(g) PROVE Doomed(r)'
  <2>1. PICK q \in Requests : q = gate[g].req
    BY <1>7, GateRequest DEF Submit
  <2>2. q # r
    BY <1>7, <2>1, SupersededRefused DEF Doomed, Submit, Claimable
  <2>3. /\ gate'[g].pc = "dispatch" /\ \A h \in Gates \ {g} : gate'[h] = gate[h]
    BY <1>7 DEF Submit, GoTo, GateTypeOK, GateCall
  <2>4. evidence' = evidence /\ execution'[r] = execution[r]
    BY <1>7, <2>1, <2>2 DEF Submit, GateTypeOK
  <2> QED BY <2>3, <2>4 DEF Doomed
<1>8. ASSUME NEW g \in Gates, Dispatch(g) \/ PublishExecution(g) PROVE Doomed(r)'
  <2>1. gate'[g].pc \notin {"policy", "submit"} /\ \A h \in Gates \ {g} : gate'[h] = gate[h]
    BY <1>8 DEF Dispatch, PublishExecution, GoTo, GateTypeOK, GateCall
  <2> QED BY <2>1, <1>3, <1>8 DEF Dispatch, PublishExecution, engineVars, hostVars
<1>9. ASSUME NEW g \in Gates, NEW o \in Outcome, Reply(g, o) \/ Query(g, o) PROVE Doomed(r)'
  <2>1. gate'[g].pc = "verify" /\ \A h \in Gates \ {g} : gate'[h] = gate[h]
    BY <1>9 DEF Reply, Query, GateTypeOK, GateCall
  <2> QED BY <2>1, <1>3, <1>9 DEF Reply, Query, engineVars, hostVars
<1>10. ASSUME NEW g \in Gates, VerifyFirst(g) \/ Finalize(g) PROVE Doomed(r)'
  <2>1. PICK q \in Requests : q = gate[g].req
    BY <1>10, GateRequest DEF VerifyFirst, Finalize
  <2>2. q # r
    BY <1>10, <2>1 DEF VerifyFirst, Finalize, Doomed, RecordFollowsReservation
  <2>3. gate'[g].pc \in {"publish", "idle"} /\ \A h \in Gates \ {g} : gate'[h] = gate[h]
    BY <1>10 DEF VerifyFirst, Finalize, PublishFrom, Leave, Resting, GateCallOf, GateTypeOK
  <2>4. evidence' = evidence /\ execution'[r] = execution[r]
    BY <1>10, <2>1, <2>2 DEF VerifyFirst, Finalize, GateTypeOK, engineVars, hostVars
  <2> QED BY <2>3, <2>4 DEF Doomed
<1>11. ASSUME NEW g \in Gates, VerifyAgain(g) \/ Drop(g) PROVE Doomed(r)'
  <2>1. gate'[g].pc \in {"publish", "idle"} /\ \A h \in Gates \ {g} : gate'[h] = gate[h]
    BY <1>11 DEF VerifyAgain, Drop, PublishFrom, Leave, Resting, GateCallOf, GateTypeOK
  <2> QED BY <2>1, <1>3, <1>11 DEF VerifyAgain, Drop, engineVars, hostVars
<1>12. ASSUME NEW q \in Requests, Settle(q) PROVE Doomed(r)'
  BY <1>12 DEF Settle, Doomed, engineVars, hostVars
<1> QED BY <1>1, <1>2, <1>4, <1>5, <1>6, <1>7, <1>8, <1>9, <1>10, <1>11, <1>12 DEF Next, GateNext, GateStep

\* Evidence superseded before the refresh of every call that could claim r keeps r from
\* ever being submitted.
THEOREM SupersededNeverSubmits == Spec => NegativeEvidenceWins
<1>1. ASSUME NEW r \in Requests
      PROVE  Spec => [](evidence[r] = "superseded" /\ BeforeRefresh(r) => [](execution[r] = "none"))
  <2>1. GateInv /\ evidence[r] = "superseded" /\ BeforeRefresh(r) => Doomed(r)
    BY DEF BeforeRefresh, Doomed
  <2>2. GateInv /\ Doomed(r) /\ [Next]_vars => Doomed(r)'
    BY DoomedStep
  <2>3. Doomed(r) => execution[r] = "none"
    BY DEF Doomed
  <2> QED BY <2>1, <2>2, <2>3, GateInvariant, PTL DEF Spec
<1> QED BY <1>1 DEF NegativeEvidenceWins

------------------------------------------------------------------------------
(***************************************************************************)
(* Money.  The gate only moves a live reservation on, and closes it at     *)
(* what was charged, which is at most its cost: the caps of the engine     *)
(* hold for the composition, and with them what has really been paid.      *)
(***************************************************************************)

\* How a step of the gate moves reservations: a submission and a finalization.
LEMMA GateMoves ==
  ASSUME GateInv, GateNext
  PROVE  \/ UNCHANGED <<reservation, actual, assessedAt>>
         \/ \E r \in Requests :
              /\ reservation[r] = "authorized" /\ reservation' = [reservation EXCEPT ![r] = "submitted"]
              /\ UNCHANGED <<actual, assessedAt, settled>>
         \/ \E r \in Requests :
              /\ reservation[r] = "submitted" /\ reservation' = [reservation EXCEPT ![r] = "finalized"]
              /\ outcome[r] # NoOutcome /\ actual' = [actual EXCEPT ![r] = outcome[r].charge]
              /\ UNCHANGED <<assessedAt, settled>>
<1> USE DEF GateInv, RecordsInv
<1>1. ASSUME NEW g \in Gates, Submit(g)
      PROVE  \E r \in Requests :
               /\ reservation[r] = "authorized" /\ reservation' = [reservation EXCEPT ![r] = "submitted"]
               /\ UNCHANGED <<actual, assessedAt, settled>>
  <2>1. gate[g].req \in Requests
    BY <1>1, GateRequest DEF Submit
  <2> QED BY <1>1, <2>1 DEF Submit, Claimable
<1>2. ASSUME NEW g \in Gates, Finalize(g)
      PROVE  \E r \in Requests :
               /\ reservation[r] = "submitted" /\ reservation' = [reservation EXCEPT ![r] = "finalized"]
               /\ outcome[r] # NoOutcome /\ actual' = [actual EXCEPT ![r] = outcome[r].charge]
               /\ UNCHANGED <<assessedAt, settled>>
  <2>1. gate[g].req \in Requests
    BY <1>2, GateRequest DEF Finalize
  <2>2. outcome[gate[g].req] # NoOutcome /\ gate[g].claim = outcome[gate[g].req]
    BY <1>2 DEF Finalize, GatesGrounded, GateGrounded
  <2> QED BY <1>2, <2>1, <2>2 DEF Finalize
<1>3. CASE UNCHANGED engineVars
  BY <1>3 DEF engineVars, storeVars
<1>4. UNCHANGED engineVars \/ \E g \in Gates : Submit(g) \/ Finalize(g)
  BY DEF GateNext, GateStep, Execute, ExecuteAgain, Reconcile, ReconcileVerified, Refresh, ReadPolicy,
         Dispatch, Reply, Query, VerifyFirst, VerifyAgain, PublishExecution, Drop, Settle
<1> QED BY <1>1, <1>2, <1>3, <1>4

LEMMA GateLimits ==
  ASSUME GateInv, LimitsRespected, GateNext PROVE LimitsRespected'
<1>1. EngineTypeOK /\ EngineTypeOK' /\ (\A p \in Principals : BudgetHolds(p)) /\ \A r \in Requests : VelocityHolds(r)
  <2>1. GateInv'
    BY GateStepInv DEF Next
  <2> QED BY <2>1, LimitsAre DEF GateInv, EngineInv
<1>2. CASE UNCHANGED <<reservation, actual, assessedAt>>
  BY <1>2, StutterLimits
<1>3. ASSUME NEW r \in Requests, assessedAt' = assessedAt,
             \A q \in Requests \ {r} : reservation'[q] = reservation[q] /\ actual'[q] = actual[q],
             Live(reservation[r]), reservation'[r] # "none", Counted(r)' <= Counted(r)
      PROVE  LimitsRespected'
  <2>1. \A q \in Requests \ {r} : Counted(q)' = Counted(q)
    BY <1>3 DEF Counted
  <2>2. \A q \in Requests : Counted(q)' <= Counted(q)
    BY <1>1, <1>3, <2>1, CountedTyped
  <2>3. \A q \in Requests : Live(reservation'[q]) => Live(reservation[q])
    BY <1>3
  <2>4. \A q \in Requests : reservation[q] # "none" => reservation'[q] # "none"
    BY <1>3
  <2>5. ASSUME NEW p \in Principals PROVE BudgetHolds(p)'
    BY <1>1, <2>2, <2>3, <2>4, BudgetStays
  <2>6. ASSUME NEW s \in Requests PROVE VelocityHolds(s)'
    BY <1>1, <1>3, <2>3, VelocityStays
  <2> QED BY <2>5, <2>6 DEF LimitsRespected, BudgetRespected, VelocityRespected, BudgetHolds, VelocityHolds,
                            Span, Most, Around
<1>4. ASSUME NEW r \in Requests,
             reservation[r] = "authorized", reservation' = [reservation EXCEPT ![r] = "submitted"],
             UNCHANGED <<actual, assessedAt, settled>>
      PROVE  LimitsRespected'
  <2>1. /\ reservation'[r] = "submitted"
        /\ \A q \in Requests \ {r} : reservation'[q] = reservation[q] /\ actual'[q] = actual[q]
    BY <1>1, <1>4 DEF EngineTypeOK
  <2>2. Live(reservation[r]) /\ Counted(r)' = Cost[r] /\ Counted(r) = Cost[r]
    BY <1>4, <2>1 DEF Counted, Live
  <2>3. Counted(r)' <= Counted(r)
    BY <2>2, EngineAssumption
  <2> QED BY <1>3, <1>4, <2>1, <2>2, <2>3
<1>5. ASSUME NEW r \in Requests,
             reservation[r] = "submitted", reservation' = [reservation EXCEPT ![r] = "finalized"],
             outcome[r] # NoOutcome, actual' = [actual EXCEPT ![r] = outcome[r].charge],
             UNCHANGED <<assessedAt, settled>>
      PROVE  LimitsRespected'
  <2>1. /\ reservation'[r] = "finalized" /\ actual'[r] = outcome[r].charge
        /\ \A q \in Requests \ {r} : reservation'[q] = reservation[q] /\ actual'[q] = actual[q]
    BY <1>1, <1>5 DEF EngineTypeOK
  <2>2. Live(reservation[r]) /\ Counted(r)' = outcome[r].charge /\ Counted(r) = Cost[r]
    BY <1>5, <2>1 DEF Counted, Live
  <2>3. Counted(r)' <= Counted(r)
    BY <1>5, <2>2, ChargedWithinCost
  <2> QED BY <1>3, <1>5, <2>1, <2>2, <2>3
<1> QED BY <1>2, <1>4, <1>5, GateMoves

LEMMA LimitsInvariant == Spec => [](GateInv /\ LimitsRespected)
<1>1. Init => LimitsRespected
  BY InitLimits DEF Init
<1>2. GateInv /\ LimitsRespected /\ [Next]_vars => LimitsRespected'
  <2>1. UNCHANGED vars => UNCHANGED <<reservation, assessedAt, actual>>
    BY DEF vars, engineVars, storeVars
  <2> QED BY <2>1, EngineLimits, GateLimits, StutterLimits DEF Next, GateInv
<1> QED BY <1>1, <1>2, GateInvariant, PTL DEF Spec

\* Executing, reconciling and finalizing never break the caps either.
THEOREM LimitsHoldThroughout == Spec => []LimitsRespected
  BY LimitsInvariant, PTL

\* The money a principal's operations really moved, in time or late, stays within a
\* budget it reserved under.
THEOREM RealSpendStaysInBudget == Spec => []RealSpendWithinBudget
<1>1. ASSUME GateInv, LimitsRespected, NEW p \in Principals, Moved(p) # {}
      PROVE  \E r \in Requests : /\ Payer[r] = p /\ reservation[r] # "none"
                                 /\ RealSpend(p) <= Budget[PolicyOf[r]]
  <2> DEFINE F == [r \in Requests |-> IF r \in Moved(p) THEN Charge(r) ELSE 0]
             G == [r \in Requests |-> IF r \in HeldBy(p) /\ Payer[r] = p THEN Counted(r) ELSE 0]
  <2>1. \A r \in Moved(p) : /\ r \in HeldBy(p) /\ Payer[r] = p
                            /\ Charge(r) \in Nat /\ Charge(r) <= Counted(r)
    BY <1>1, PaymentCovered DEF Moved, HeldBy, Live, Charge
  <2>2. \A r \in Requests : Counted(r) \in Nat
    BY <1>1, CountedTyped DEF GateInv, EngineInv
  <2>3. F \in [Requests -> Nat] /\ G \in [Requests -> Nat] /\ \A r \in Requests : F[r] <= G[r]
    BY <2>1, <2>2
  <2>4. SumFunction(F) = RealSpend(p) /\ SumFunction(G) = Spent(HeldBy(p), p)
    BY DEF RealSpend, Spent
  <2> HIDE DEF F, G
  <2>5. IsFiniteSet(Requests)
    BY EngineAssumption
  <2>6. SumFunction(F) <= SumFunction(G) /\ SumFunction(F) \in Nat /\ SumFunction(G) \in Nat
    BY <2>3, <2>5, TotalOrdered, TotalTyped
  <2>7. PICK r \in Requests : /\ Payer[r] = p /\ reservation[r] # "none"
                              /\ Spent(HeldBy(p), p) <= Budget[PolicyOf[r]]
    BY <1>1, <2>1 DEF LimitsRespected, BudgetRespected
  <2>8. Budget[PolicyOf[r]] \in Nat
    BY EngineAssumption
  <2>9. RealSpend(p) <= Budget[PolicyOf[r]]
    BY <2>4, <2>6, <2>7, <2>8
  <2> QED BY <2>7, <2>9
<1>2. GateInv /\ LimitsRespected => RealSpendWithinBudget
  BY <1>1 DEF RealSpendWithinBudget
<1> QED BY <1>2, LimitsInvariant, PTL

------------------------------------------------------------------------------
(***************************************************************************)
(* The spend ledger.  A grant of the ledger is the reservation of a        *)
(* decision, with what its sweep released; a return is any other release;  *)
(* submission commits, settlement pays, finalization closes.  What the     *)
(* ledger calls exposure is what the engine compares with its budgets.     *)
(***************************************************************************)
LEMMA HoldIs ==
  /\ HoldOf["none"] = "free" /\ HoldOf["reserved"] = "held" /\ HoldOf["authorized"] = "held"
  /\ HoldOf["submitted"] = "committed" /\ HoldOf["finalized"] = "spent" /\ HoldOf["released"] = "returned"
  BY DEF HoldOf

Holds == [r \in Requests |-> HoldOf[reservation[r]]]
Paid == [r \in Requests |-> IF settled[r] = NoOutcome THEN 0 ELSE settled[r].charge]
Limits == [p \in Principals |-> Max({Budget[PolicyOf[r]] : r \in {q \in Requests : Payer[q] = p}})]

\* The ledger sums as the engine does.
LEMMA SameSum == ASSUME NEW f PROVE Ledger!SumFunction(f) = SumFunction(f)
  BY Zenon DEF Ledger!SumFunction, Ledger!SumFunctionOnSet, Ledger!FoldFunctionOnSet, Ledger!MapThenFoldSet,
               SumFunction, SumFunctionOnSet, FoldFunctionOnSet, MapThenFoldSet

\* After a step, what is at stake for the ledger is what the engine holds.
LEMMA ExposureIs ==
  ASSUME EngineTypeOK', NEW p PROVE Ledger!Exposure(p)' = Spent(HeldBy(p), p)'
<1> DEFINE F == [q \in Requests |-> IF Payer[q] = p THEN Ledger!AtStake(q)' ELSE 0]
           G == [q \in Requests |-> IF q \in HeldBy(p)' /\ Payer[q] = p THEN Counted(q)' ELSE 0]
<1>a. Ledger!Exposure(p)' = Ledger!SumFunction(F) /\ Spent(HeldBy(p), p)' = SumFunction(G)
  BY DEF Ledger!Exposure, Spent
<1>b. SUFFICES F = G
  <2> HIDE DEF F, G
  <2> QED BY <1>a, SameSum
<1>c. SUFFICES ASSUME NEW q \in Requests
               PROVE  (IF Payer[q] = p THEN Ledger!AtStake(q)' ELSE 0)
                        = IF q \in HeldBy(p)' /\ Payer[q] = p THEN Counted(q)' ELSE 0
  OBVIOUS
<1>1. reservation'[q] \in ReservationState
  BY DEF EngineTypeOK
<1>2. Ledger!AtStake(q)' = CASE HoldOf[reservation'[q]] \in {"held", "committed"} -> Cost[q]
                             [] HoldOf[reservation'[q]] = "spent" -> actual'[q]
                             [] OTHER -> 0
  BY DEF Ledger!AtStake
<1>3. Ledger!AtStake(q)' = IF Live(reservation'[q]) THEN Counted(q)' ELSE 0
  BY <1>1, <1>2, HoldIs DEF ReservationState, Live, Counted
<1> QED BY <1>3 DEF HeldBy

LEMMA BudgetInLimit ==
  ASSUME NEW r \in Requests PROVE Budget[PolicyOf[r]] <= Limits[Payer[r]] /\ Limits[Payer[r]] \in Nat
<1> DEFINE f == [q \in Requests |-> Budget[PolicyOf[q]]]
           S == {q \in Requests : Payer[q] = Payer[r]}
<1>1. f \in [Requests -> Nat] /\ S \in SUBSET Requests /\ r \in S /\ Payer[r] \in Principals
  BY EngineAssumption
<1>2. Limits[Payer[r]] = Max({f[q] : q \in S}) /\ f[r] = Budget[PolicyOf[r]]
  BY <1>1 DEF Limits
<1> HIDE DEF f, S
<1> QED BY <1>1, <1>2, LargestIs

\* A step that releases holds on nothing submitted, and leaves the others.
LEMMA ReturnMaps ==
  ASSUME GateInv, UNCHANGED <<actual, settled>>,
         \A q \in Requests : \/ HoldOf[reservation'[q]] = HoldOf[reservation[q]]
                             \/ Unsubmitted(q) /\ reservation'[q] = "released"
  PROVE  Ledger!LedgerNext
<1>0. PICK rs \in SUBSET Requests : rs = {q \in Requests : Unsubmitted(q) /\ reservation'[q] = "released"}
  OBVIOUS
<1>1. rs \in SUBSET Requests /\ \A q \in rs : Holds[q] = "held"
  BY <1>0, HoldIs DEF Holds, Unsubmitted
<1>2. Holds' = [q \in Requests |-> IF q \in rs THEN "returned" ELSE Holds[q]]
  BY <1>0, HoldIs DEF Holds
<1>3. Ledger!Return(rs)
  BY <1>1, <1>2 DEF Ledger!Return, Holds
<1> QED BY <1>1, <1>3 DEF Ledger!LedgerNext

LEMMA GrantMaps ==
  ASSUME GateInv, GateInv', NEW c \in Callers, Granting(c), UNCHANGED <<actual, settled>>
  PROVE  Ledger!LedgerNext
<1>1. PICK r \in Requests : r = caller[c].req
  BY GrantFits DEF GateInv
<1>0. PICK rs \in SUBSET Requests : rs = {q \in Requests \ {r} : Unsubmitted(q) /\ reservation'[q] = "released"}
  OBVIOUS
<1>2. reservation[r] = "none" /\ reservation'[r] = "reserved"
  BY <1>1, GrantFits DEF Granting, GateInv
<1>3. \A q \in Requests \ {r} : \/ reservation'[q] = reservation[q]
                                \/ Unsubmitted(q) /\ reservation'[q] = "released"
  <2>1. \A q \in Requests \ {r} : /\ reservation'[q] \in {reservation[q], "released"}
                                  /\ (reservation'[q] # reservation[q] => q \in Expired(caller[c].at))
    BY <1>1, ReserveOutcome DEF Granting, GateInv
  <2> QED BY <2>1 DEF Expired
<1>4. rs \in SUBSET Requests /\ r \notin rs /\ Holds[r] = "free" /\ \A q \in rs : Holds[q] = "held"
  BY <1>0, <1>2, HoldIs DEF Holds, Unsubmitted
<1>5. Holds' = [q \in Requests |-> IF q = r THEN "held" ELSE IF q \in rs THEN "returned" ELSE Holds[q]]
  BY <1>0, <1>2, <1>3, HoldIs DEF Holds
<1>6. Ledger!Exposure(Payer[r])' <= Limits[Payer[r]]
  <2>1. Spent(HeldBy(Payer[r]), Payer[r])' <= Budget[PolicyOf[r]]
    BY <1>1, GrantInBudget DEF GateInv
  <2>2. Ledger!Exposure(Payer[r])' = Spent(HeldBy(Payer[r]), Payer[r])'
    BY ExposureIs DEF GateInv, EngineInv
  <2>3. Spent(HeldBy(Payer[r]), Payer[r])' \in Nat
    <3> DEFINE G == [q \in Requests |-> IF q \in HeldBy(Payer[r])' /\ Payer[q] = Payer[r] THEN Counted(q)' ELSE 0]
    <3>1. \A q \in Requests : Counted(q)' \in Nat
      BY EngineAssumption DEF GateInv, EngineInv, EngineTypeOK, Counted
    <3>2. G \in [Requests -> Nat]
      BY <3>1
    <3>3. SumFunction(G) = Spent(HeldBy(Payer[r]), Payer[r])'
      BY DEF Spent
    <3> HIDE DEF G
    <3> QED BY <3>2, <3>3, TotalTyped, EngineAssumption
  <2>4. Budget[PolicyOf[r]] <= Limits[Payer[r]] /\ Limits[Payer[r]] \in Nat /\ Budget[PolicyOf[r]] \in Nat
    BY BudgetInLimit, EngineAssumption
  <2> QED BY <2>1, <2>2, <2>3, <2>4
<1>7. Ledger!Grant(r, rs)
  BY <1>4, <1>5, <1>6 DEF Ledger!Grant, Holds, Limits
<1> QED BY <1>4, <1>7 DEF Ledger!LedgerNext

LEMMA EngineMaps ==
  ASSUME GateInv, GateInv', EngineNext, UNCHANGED gateVars PROVE Ledger!LedgerNext
<1>1. UNCHANGED <<actual, settled>>
  BY EngineKeepsSubmitted DEF GateInv, gateVars
<1>2. CASE \E c \in Callers : Granting(c)
  BY <1>1, <1>2, GrantMaps
<1>3. CASE \A c \in Callers : ~Granting(c)
  <2>1. \A q \in Requests : /\ reservation[q] \in ReservationState /\ reservation'[q] \in ReservationState
                            /\ Live(reservation'[q]) => Live(reservation[q])
                            /\ \/ reservation'[q] = reservation[q]
                               \/ /\ reservation[q] \in {"none", "reserved", "authorized"}
                                  /\ reservation'[q] \in {"reserved", "authorized", "released"}
    BY <1>3, OnlyGrants, EngineKeepsSubmitted DEF GateInv, EngineInv, EngineTypeOK
  <2>2. \A q \in Requests : reservation[q] = "none" => reservation'[q] = "none"
    BY <1>3, OnlyGrants DEF GateInv
  <2>3. \A q \in Requests : \/ HoldOf[reservation'[q]] = HoldOf[reservation[q]]
                            \/ Unsubmitted(q) /\ reservation'[q] = "released"
    BY <2>1, <2>2, HoldIs DEF Unsubmitted
  <2> QED BY <1>1, <2>3, ReturnMaps
<1> QED BY <1>2, <1>3

LEMMA GateMaps ==
  ASSUME GateInv, GateNext PROVE Ledger!LedgerNext \/ UNCHANGED Ledger!ledgerVars
<1> USE DEF GateInv, RecordsInv
<1>1. ASSUME UNCHANGED <<reservation, actual, assessedAt>>, UNCHANGED settled
      PROVE  UNCHANGED Ledger!ledgerVars
  BY <1>1 DEF Ledger!ledgerVars
<1>2. ASSUME NEW r \in Requests,
             reservation[r] = "authorized", reservation' = [reservation EXCEPT ![r] = "submitted"],
             UNCHANGED <<actual, assessedAt, settled>>
      PROVE  Ledger!LedgerNext
  <2>1. Holds[r] = "held" /\ Holds' = [Holds EXCEPT ![r] = "committed"]
    BY <1>2, HoldIs DEF Holds, EngineInv, EngineTypeOK
  <2>2. Ledger!Commit(r)
    BY <1>2, <2>1 DEF Ledger!Commit, Holds
  <2> QED BY <2>2 DEF Ledger!LedgerNext
<1>3. ASSUME NEW r \in Requests,
             reservation[r] = "submitted", reservation' = [reservation EXCEPT ![r] = "finalized"],
             outcome[r] # NoOutcome, actual' = [actual EXCEPT ![r] = outcome[r].charge],
             UNCHANGED <<assessedAt, settled>>
      PROVE  Ledger!LedgerNext
  <2>1. Holds[r] = "committed" /\ Holds' = [Holds EXCEPT ![r] = "spent"]
    BY <1>3, HoldIs DEF Holds, EngineInv, EngineTypeOK
  <2>2. Paid[r] = outcome[r].charge
    <3>1. settled[r] # NoOutcome
      BY <1>3, OutcomeSettled
    <3>2. settled[r].charge = outcome[r].charge
      BY <1>3, ChargedWithinCost
    <3> QED BY <3>1, <3>2 DEF Paid
  <2>3. Ledger!Close(r)
    BY <1>3, <2>1, <2>2 DEF Ledger!Close, Holds, Paid
  <2> QED BY <2>3 DEF Ledger!LedgerNext
<1>4. ASSUME NEW r \in Requests, Settle(r) PROVE Ledger!LedgerNext \/ UNCHANGED Ledger!ledgerVars
  <2>1. PICK s \in Settlement : s.charge <= Cost[r] /\ settled' = [settled EXCEPT ![r] = s]
    BY <1>4 DEF Settle
  <2>2. settled[r] = NoOutcome /\ dispatched[r] # 0 /\ UNCHANGED <<reservation, actual>>
    BY <1>4 DEF Settle, GateTypeOK, engineVars, storeVars
  <2>3. reservation[r] = "submitted"
    <3>1. outcome[r] = NoOutcome
      BY <2>2, OutcomeSettled
    <3> QED BY <2>2, <3>1 DEF DispatchGrounded, RecordFollowsReservation, OutcomeGrounded, GateTypeOK
  <2>4. s.charge \in Nat /\ s # NoOutcome /\ Cost[r] \in Nat
    BY GateAssumption, EngineAssumption DEF Settlement
  <2>5. Paid[r] = 0 /\ Paid' = [Paid EXCEPT ![r] = s.charge] /\ Holds[r] = "committed" /\ Holds' = Holds
    BY <2>1, <2>2, <2>3, <2>4, HoldIs DEF Paid, Holds, GateTypeOK
  <2>6. CASE s.charge = 0
    <3>1. Paid' = Paid
      BY <2>5, <2>6 DEF Paid
    <3> QED BY <2>2, <2>5, <3>1 DEF Ledger!ledgerVars, Paid, Holds
  <2>7. CASE s.charge # 0
    <3>1. s.charge \in 1 .. Cost[r]
      BY <2>1, <2>4, <2>7
    <3>2. Ledger!Pay(r, s.charge)
      BY <2>1, <2>2, <2>5 DEF Ledger!Pay, Paid, Holds
    <3> QED BY <3>1, <3>2 DEF Ledger!LedgerNext
  <2> QED BY <2>6, <2>7
<1>5. (\E r \in Requests : Settle(r)) \/ UNCHANGED settled
  BY DEF GateNext, GateStep, Execute, ExecuteAgain, Reconcile, ReconcileVerified, Refresh, ReadPolicy, Submit,
         Dispatch, Reply, Query, VerifyFirst, VerifyAgain, PublishExecution, Finalize, Drop
<1> QED BY <1>1, <1>2, <1>3, <1>4, <1>5, GateMoves

\* To a principal, engine and gate together are a ledger that holds before it spends,
\* returns only what was never submitted, pays once, and never exceeds the limit.
THEOREM EngineIsLedger == Spec => ImplementsLedger
<1>1. Init => Ledger!LedgerInit
  BY HoldIs DEF Init, EngineInit, Ledger!LedgerInit
<1>2. GateInv /\ GateInv' /\ [Next]_vars => [Ledger!LedgerNext]_(Ledger!ledgerVars)
  <2>1. UNCHANGED vars => UNCHANGED Ledger!ledgerVars
    BY DEF vars, engineVars, storeVars, gateVars, Ledger!ledgerVars
  <2> QED BY <2>1, EngineMaps, GateMaps DEF Next
<1> QED BY <1>1, <1>2, GateInvariant, PTL DEF Spec, ImplementsLedger, Ledger!LedgerSpec
==============================================================================
