---------------------------- MODULE CrossLayerReads ---------------------------
(***************************************************************************)
(* The public cross-layer surface over the reviewed memory                 *)
(* (services/rhChainCrossLayerIntegrationService.ts): a process caches     *)
(* what it computed for a fixed time.  Requests that miss the cache each   *)
(* compute for themselves and store what they got, in whatever order they  *)
(* finish.  Curated records, which ship with the code, outrank the         *)
(* reviewed ones and need no reading.                                      *)
(***************************************************************************)
EXTENDS ReviewedClassification

CONSTANTS
  Curated,      \* contracts with a curated classification, reviewed ones or others
  Requests,     \* concurrent requests
  Ttl,          \* cacheTtlMs
  MaxTime       \* bound on the clock

ASSUME ReadAssumption ==
  /\ Ttl \in Nat \ {0}
  /\ MaxTime \in Nat /\ MaxTime >= Ttl

VARIABLES
  now,
  cached,       \* this.cached: the contracts shown and when they expire
  request,      \* each request: when it came, what it read or answered, and when
  withdrawn     \* when each contract last ceased to be approved

readVars == <<now, cached, request, withdrawn>>
crossVars == <<reviewVars, readVars>>

Idle == [step |-> "idle", since |-> 0, at |-> 0, value |-> {}]

CrossTypeOK ==
  /\ ReviewTypeOK
  /\ now \in Ttl .. MaxTime
  /\ cached \in [expires : 0 .. MaxTime + Ttl, value : SUBSET (Contracts \cup Curated)]
  /\ request \in [Requests -> [step : {"idle", "computing", "enriching", "answered"},
                               since : 0 .. MaxTime, at : 0 .. MaxTime, value : SUBSET (Contracts \cup Curated)]]
  /\ withdrawn \in [Contracts -> 0 .. MaxTime]

CrossInit ==
  /\ ReviewInit
  /\ now = Ttl
  /\ cached = [expires |-> 0, value |-> {}]
  /\ request = [q \in Requests |-> Idle]
  /\ withdrawn = [c \in Contracts |-> 0]

\* A step of the reviewers.
Review ==
  /\ ReviewNext
  /\ withdrawn' = [c \in Contracts |-> IF Approved(c) /\ record'[c].status # "approved"
                                       THEN now ELSE withdrawn[c]]
  /\ UNCHANGED <<now, cached, request>>

Answer(q, since, value) ==
  request' = [request EXCEPT ![q] = [step |-> "answered", since |-> since, at |-> now,
                                     value |-> value]]

Fresh == cached.expires > now

\* load(): answer from the cache, or start to compute.
Hit(q) ==
  /\ request[q].step = "idle"
  /\ Fresh
  /\ Answer(q, now, cached.value)
  /\ UNCHANGED <<reviewVars, now, cached, withdrawn>>

Miss(q) ==
  /\ request[q].step = "idle"
  /\ ~Fresh
  /\ request' = [request EXCEPT ![q] = [Idle EXCEPT !.step = "computing", !.since = now]]
  /\ UNCHANGED <<reviewVars, now, cached, withdrawn>>

\* compute(): listApproved(), which may fail; then the market snapshots are awaited.
Read(q) ==
  /\ request[q].step = "computing"
  /\ \E durable \in {{c \in Contracts : Approved(c)}, {}} :
       request' = [request EXCEPT ![q].step = "enriching", ![q].value = Curated \cup durable]
  /\ UNCHANGED <<reviewVars, now, cached, withdrawn>>

\* Variant: the time to live is counted from the end of the computation.
ExpiryFromNow(q) == now + Ttl
Expiry(q) == request[q].since + Ttl

Fill(q) ==
  /\ request[q].step = "enriching"
  /\ cached' = [expires |-> Expiry(q), value |-> request[q].value]
  /\ Answer(q, request[q].since, request[q].value)
  /\ UNCHANGED <<reviewVars, now, withdrawn>>

Forget(q) ==
  /\ request[q].step = "answered"
  /\ request' = [request EXCEPT ![q] = Idle]
  /\ UNCHANGED <<reviewVars, now, cached, withdrawn>>

Tick ==
  /\ now < MaxTime
  /\ now' = now + 1
  /\ UNCHANGED <<reviewVars, cached, request, withdrawn>>

CrossNext ==
  \/ Review
  \/ \E q \in Requests : Hit(q) \/ Miss(q) \/ Read(q) \/ Fill(q) \/ Forget(q)
  \/ Tick

CrossSpec == CrossInit /\ [][CrossNext]_crossVars

-----------------------------------------------------------------------------
\* A withdrawn classification disappears from the public surface within one time to live,
\* however long computations take and in whatever order they fill the cache: an answer
\* shows a contract only if its approval stood when the request came or less than
\* one time to live before the answer.
StalenessBounded ==
  \A q \in Requests : request[q].step = "answered" =>
    \A c \in request[q].value \ Curated :
      \/ Approved(c)
      \/ withdrawn[c] >= request[q].since
      \/ withdrawn[c] + Ttl > request[q].at
===============================================================================
