------------------------- MODULE CrossLayerReadsProofs -------------------------
(***************************************************************************)
(* Proofs about the reviewed memory and the surface that caches it, for    *)
(* any contracts, layers, reviewers and requests, any time to live and any *)
(* bounds.                                                                 *)
(*                                                                         *)
(* The audit stays complete because a version is a name: whatever a        *)
(* reviewer read under a version is the record as long as the record has   *)
(* that version, and an event for a version told before rolls back the     *)
(* transaction, whichever version its request named.                       *)
(***************************************************************************)
EXTENDS CrossLayerReads, FiniteSetTheorems, TLAPS

Told(c) == {e \in audit : e.contract = c}

AuditInv == AuditTellsAll /\ \A c \in Contracts : IsFiniteSet(Told(c))

\* What a reviewer read is not newer than the record, and is the record while
\* the version is the same; only an ended or a missing record is proposed again.
Grounded(v) ==
  v.step # "none" =>
    /\ v.seen.version <= record[v.contract].version
    /\ v.seen.version = record[v.contract].version => v.seen = record[v.contract]
    /\ v.step = "looked" => v.seen.version > 0
    /\ v.step = "proposing" =>
         (v.seen = Missing \/ v.seen.status \in Terminal) /\ v.seen.version < MaxVersion
ViewsGrounded == \A r \in Reviewers : Grounded(view[r])

ReviewInv == ReviewTypeOK /\ AuditInv /\ ApprovedAsSeen /\ ViewsGrounded

\* What a request holds was approved when it came or is younger; what the cache
\* holds was approved one time to live before it expires, or is younger.
Shown(value, t) == \A c \in value \ Curated : Approved(c) \/ withdrawn[c] >= t
RequestGrounded(q) ==
  /\ request[q].since <= now
  /\ request[q].step = "enriching" => Shown(request[q].value, request[q].since)
CacheGrounded ==
  \A c \in cached.value \ Curated : Approved(c) \/ withdrawn[c] + Ttl >= cached.expires

CrossInv ==
  /\ CrossTypeOK /\ ReviewInv
  /\ \A c \in Contracts : withdrawn[c] <= now
  /\ \A q \in Requests : RequestGrounded(q)
  /\ cached.expires <= now + Ttl /\ CacheGrounded
  /\ StalenessBounded

-------------------------------------------------------------------------------
(* The reviewers *)

LEMMA RecordTypes ==
  ASSUME ReviewTypeOK, NEW c \in Contracts
  PROVE  /\ record[c] \in Record /\ record[c].version \in 0 .. MaxVersion
         /\ record[c] = Missing <=> record[c].version = 0
         /\ record[c].version # 0 =>
              record[c] \in [version : Version, status : Status, layer : Layers, evidence : BOOLEAN]
  BY ReviewAssumption DEF ReviewTypeOK, Record, Missing, Version

\* Exactly the versions up to the record's have been audited.
LEMMA AuditedUpTo ==
  ASSUME ReviewInv, NEW c \in Contracts, NEW n \in Nat
  PROVE  Audited(c, n) <=> n \in 1 .. record[c].version
<1>1. {e.version : e \in Told(c)} = 1 .. record[c].version
  BY DEF ReviewInv, AuditInv, AuditTellsAll, Told
<1>2. Audited(c, n) <=> \E e \in Told(c) : e.version = n
  BY DEF Audited, Told
<1> QED BY <1>1, <1>2

\* The event of the next version continues the story.
LEMMA StoryContinues ==
  ASSUME ReviewInv, NEW c \in Contracts, NEW new \in Record, NEW event \in Event,
         record[c].version < MaxVersion,
         new.version = record[c].version + 1,
         event.contract = c, event.version = new.version, event.from = record[c].status,
         event.to = new.status, event.layer = new.layer,
         record' = [record EXCEPT ![c] = new], audit' = audit \cup {event}
  PROVE  AuditInv'
<1>1. /\ \A d \in Contracts : record'[d] = IF d = c THEN new ELSE record[d]
      /\ \A d \in Contracts \ {c} : Told(d)' = Told(d)
      /\ Told(c)' = Told(c) \cup {event}
  BY DEF ReviewInv, ReviewTypeOK, Told
<1>2. \A d \in Contracts :
        /\ IsFiniteSet(Told(d))
        /\ {e.version : e \in Told(d)} = 1 .. record[d].version
        /\ Cardinality(Told(d)) = record[d].version
        /\ \A e \in Told(d) :
             /\ e.version = 1 => e.from = "none"
             /\ e.version > 1 => \E f \in Told(d) : f.version = e.version - 1 /\ f.to = e.from
             /\ e.version = record[d].version => e.to = record[d].status /\ e.layer = record[d].layer
  BY DEF ReviewInv, AuditInv, AuditTellsAll, Told
<1>3. record[c].version \in Nat /\ (record[c].version = 0 => record[c].status = "none")
  BY RecordTypes DEF ReviewInv, Missing
<1>4. event \notin Told(c)
  <2>1. \A e \in Told(c) : e.version \in 1 .. record[c].version
    BY <1>2
  <2> QED BY <1>3, <2>1
<1>5. IsFiniteSet(Told(c)') /\ Cardinality(Told(c)') = new.version
  BY <1>1, <1>2, <1>4, FS_AddElement
<1>6. {e.version : e \in Told(c)'} = 1 .. new.version
  <2>1. {e.version : e \in Told(c)'} = {e.version : e \in Told(c)} \cup {new.version}
    BY <1>1
  <2>2. (1 .. record[c].version) \cup {record[c].version + 1} = 1 .. (record[c].version + 1)
    BY <1>3
  <2> QED BY <1>2, <2>1, <2>2
<1>7. /\ new.version = 1 => event.from = "none"
      /\ new.version > 1 => \E f \in Told(c) : f.version = new.version - 1 /\ f.to = event.from
  <2>1. new.version > 1 => \E f \in Told(c) : f.version = record[c].version
    BY <1>2, <1>3
  <2> QED BY <1>2, <1>3, <2>1
<1>8. \A e \in Told(c) : e.version # new.version
  BY <1>2, <1>3
<1>9. \A d \in Contracts : \A e \in Told(d)' :
        /\ e.version = 1 => e.from = "none"
        /\ e.version > 1 => \E f \in Told(d)' : f.version = e.version - 1 /\ f.to = e.from
        /\ e.version = record'[d].version => e.to = record'[d].status /\ e.layer = record'[d].layer
  BY <1>1, <1>2, <1>7, <1>8
<1>10. \A d \in Contracts : IsFiniteSet(Told(d)')
  BY <1>1, <1>2, <1>5
<1>11. \A d \in Contracts :
         /\ {e.version : e \in Told(d)'} = 1 .. record'[d].version
         /\ Cardinality(Told(d)') = record'[d].version
  <2> SUFFICES ASSUME NEW d \in Contracts
               PROVE  /\ {e.version : e \in Told(d)'} = 1 .. record'[d].version
                      /\ Cardinality(Told(d)') = record'[d].version
    OBVIOUS
  <2>1. CASE d = c
    <3>1. record'[d] = new
      BY <1>1, <2>1
    <3> QED BY <1>5, <1>6, <2>1, <3>1
  <2>2. CASE d # c
    <3>1. record'[d] = record[d] /\ Told(d)' = Told(d)
      BY <1>1, <2>2
    <3> QED BY <1>2, <3>1
  <2> QED BY <2>1, <2>2
<1>12. AuditTellsAll'
  <2> SUFFICES ASSUME NEW d \in Contracts
               PROVE  /\ {e.version : e \in Told(d)'} = 1 .. record'[d].version
                      /\ Cardinality(Told(d)') = record'[d].version
                      /\ \A e \in Told(d)' :
                           /\ e.version = 1 => e.from = "none"
                           /\ e.version > 1 => \E f \in Told(d)' : f.version = e.version - 1 /\ f.to = e.from
                           /\ e.version = record'[d].version =>
                                e.to = record'[d].status /\ e.layer = record'[d].layer
    BY DEF AuditTellsAll, Told
  <2> QED BY <1>9, <1>11
<1> QED BY <1>10, <1>12 DEF AuditInv

\* What a transaction may write: the record of the next version, or one whose version is
\* told already and which is rolled back.
Continues(c, new, from, saw) ==
  /\ new \in [version : Version, status : Status, layer : Layers, evidence : BOOLEAN]
  /\ new.version <= record[c].version + 1
  /\ new.version = record[c].version + 1 =>
       /\ from = record[c].status /\ saw = new.layer
       /\ new.status \in {"approved", "rejected"} => from = "proposed"
       /\ from = "approved" => new.status = "superseded"

\* A record is replaced only by one of a later version.
Replaced ==
  \A d \in Contracts : \/ record'[d] = record[d]
                       \/ record'[d] \in Record /\ record'[d].version = record[d].version + 1

LEMMA WriteStep ==
  ASSUME ReviewInv, NEW c \in Contracts, NEW new, NEW from, NEW saw,
         Continues(c, new, from, saw), Write(c, new, from, saw), view' \in [Reviewers -> View]
  PROVE  ReviewTypeOK' /\ AuditInv' /\ ApprovedAsSeen' /\ Replaced
<1>1. new.version \in Nat /\ new.version >= 1
  BY ReviewAssumption DEF Continues, Version
<1>2. record[c].version \in Nat /\ record[c].status \in Status \cup {"none"}
  BY RecordTypes DEF ReviewInv, Record, Missing, Version
<1>3. CASE Audited(c, new.version)
  <2>1. UNCHANGED <<record, audit>>
    BY <1>3 DEF Write
  <2>2. AuditInv'
    BY <2>1 DEF ReviewInv, AuditInv, AuditTellsAll, Told
  <2> QED BY <2>1, <2>2 DEF ReviewInv, ReviewTypeOK, ApprovedAsSeen, Replaced
<1>4. CASE ~Audited(c, new.version)
  <2> DEFINE event == [contract |-> c, version |-> new.version, from |-> from,
                       to |-> new.status, layer |-> new.layer, saw |-> saw]
  <2>1. new.version = record[c].version + 1
    BY <1>1, <1>2, <1>4, AuditedUpTo DEF Continues
  <2>2. /\ new \in Record /\ new.version \in Version /\ new.status \in Status /\ new.layer \in Layers
        /\ from = record[c].status /\ saw = new.layer
        /\ new.status \in {"approved", "rejected"} => from = "proposed"
        /\ from = "approved" => new.status = "superseded"
    BY <2>1 DEF Continues, Record
  <2>3. event \in Event
    BY <1>2, <2>2 DEF Event
  <2>4. record' = [record EXCEPT ![c] = new] /\ audit' = audit \cup {event}
    BY <1>4 DEF Write
  <2>5. record[c].version < MaxVersion
    BY <1>2, <2>1, <2>2, ReviewAssumption DEF Version
  <2>6. /\ event.contract = c /\ event.version = new.version /\ event.from = from
        /\ event.to = new.status /\ event.layer = new.layer /\ event.saw = saw
    OBVIOUS
  <2> HIDE DEF event
  <2>7. AuditInv'
    BY <2>1, <2>2, <2>3, <2>4, <2>5, <2>6, StoryContinues
  <2>8. ReviewTypeOK'
    BY <2>2, <2>3, <2>4 DEF ReviewInv, ReviewTypeOK
  <2>9. ApprovedAsSeen'
    BY <2>2, <2>4, <2>6 DEF ReviewInv, ApprovedAsSeen
  <2>10. Replaced
    BY <2>1, <2>2, <2>4 DEF ReviewInv, ReviewTypeOK, Replaced
  <2> QED BY <2>7, <2>8, <2>9, <2>10
<1> QED BY <1>3, <1>4

\* What was read of a record stays what the version named.
LEMMA ViewsKept ==
  ASSUME ReviewInv, Replaced, NEW v \in View,
         Grounded(v), v.step = "none" => v = NoView
  PROVE  Grounded(v)'
<1>1. CASE v.step = "none"
  BY <1>1 DEF Grounded
<1>2. CASE v.step # "none"
  <2>1. v.contract \in Contracts /\ v.seen \in Record
    BY <1>2 DEF View, NoView
  <2>2. /\ record[v.contract].version \in Nat
        /\ \/ record'[v.contract] = record[v.contract]
           \/ record'[v.contract].version = record[v.contract].version + 1
    BY <2>1, RecordTypes DEF ReviewInv, Replaced
  <2>3. v.seen.version \in Nat
    BY <2>1, ReviewAssumption DEF Record, Missing, Version
  <2> QED BY <1>2, <2>2, <2>3 DEF Grounded
<1> QED BY <1>1, <1>2

LEMMA ReviewerTypes ==
  ASSUME ReviewInv, NEW r \in Reviewers
  PROVE  /\ view[r] \in View /\ Grounded(view[r])
         /\ view[r].step = "none" => view[r] = NoView
         /\ view[r].step # "none" => view[r].contract \in Contracts /\ view[r].seen \in Record
         /\ view[r].step = "proposing" =>
              view[r].expected \in Version /\ view[r].layer \in Layers /\ view[r].evidence \in BOOLEAN
<1>1. view[r] \in View
  BY DEF ReviewInv, ReviewTypeOK
<1> QED BY <1>1 DEF View, NoView, ReviewInv, ViewsGrounded

\* A reviewer writes and has seen nothing; the others know what they knew.
LEMMA WriterStep ==
  ASSUME ReviewInv, NEW r \in Reviewers, NEW c \in Contracts, NEW new, NEW from, NEW saw,
         Continues(c, new, from, saw), Write(c, new, from, saw),
         view' = [view EXCEPT ![r] = NoView]
  PROVE  ReviewInv'
<1>1. view' \in [Reviewers -> View] /\ \A q \in Reviewers : view'[q] = IF q = r THEN NoView ELSE view[q]
  BY DEF ReviewInv, ReviewTypeOK, View
<1>2. ReviewTypeOK' /\ AuditInv' /\ ApprovedAsSeen' /\ Replaced
  BY <1>1, WriteStep
<1>3. \A v \in View : Grounded(v) /\ (v.step = "none" => v = NoView) => Grounded(v)'
  BY <1>2, ViewsKept
<1>4. Grounded(NoView)'
  BY DEF Grounded, NoView
<1>5. ViewsGrounded'
  BY <1>1, <1>3, <1>4, ReviewerTypes DEF ViewsGrounded
<1> QED BY <1>2, <1>5 DEF ReviewInv

\* A reviewer looks, begins a proposal, or is answered without a change.
LEMMA ViewerStep ==
  ASSUME ReviewInv, NEW r \in Reviewers, NEW v \in View, Grounded(v),
         view' = [view EXCEPT ![r] = v], UNCHANGED <<record, audit>>
  PROVE  ReviewInv'
<1>1. view' \in [Reviewers -> View] /\ \A q \in Reviewers : view'[q] = IF q = r THEN v ELSE view[q]
  BY DEF ReviewInv, ReviewTypeOK
<1>2. AuditInv'
  BY DEF ReviewInv, AuditInv, AuditTellsAll, Told
<1>3. \A w : Grounded(w) => Grounded(w)'
  BY DEF Grounded
<1>4. ViewsGrounded'
  BY <1>1, <1>3 DEF ReviewInv, ViewsGrounded
<1> QED BY <1>1, <1>2, <1>4 DEF ReviewInv, ReviewTypeOK, ApprovedAsSeen

LEMMA NothingSeen == NoView \in View /\ Grounded(NoView)
  BY DEF NoView, View, Grounded

LEMMA LookStep ==
  ASSUME ReviewInv, NEW r \in Reviewers, NEW c \in Contracts, Look(r, c) PROVE ReviewInv'
<1> DEFINE v == [step |-> "looked", contract |-> c, seen |-> record[c]]
<1>1. v \in View
  BY RecordTypes DEF ReviewInv, View
<1>2. Grounded(v)
  BY RecordTypes DEF ReviewInv, Grounded, Look
<1> QED BY <1>1, <1>2, ViewerStep DEF Look

LEMMA ProposeStep ==
  ASSUME ReviewInv, NEW r \in Reviewers, NEW c \in Contracts, Propose(r, c) PROVE ReviewInv'
<1>1. PICK expected \in Version, layer \in Layers, evidence \in BOOLEAN :
        view' = [view EXCEPT ![r] = [step |-> "proposing", contract |-> c, seen |-> record[c],
                                     expected |-> expected, layer |-> layer, evidence |-> evidence]]
  BY DEF Propose
<1> DEFINE v == [step |-> "proposing", contract |-> c, seen |-> record[c],
                 expected |-> expected, layer |-> layer, evidence |-> evidence]
<1>2. v \in View
  BY RecordTypes DEF ReviewInv, View
<1>3. Grounded(v)
  BY RecordTypes DEF ReviewInv, Grounded, Propose, Reproposable
<1> QED BY <1>1, <1>2, <1>3, ViewerStep DEF Propose

\* The version a proposal writes is never beyond the next one; it is the next one only
\* if the record is what its reviewer read.
LEMMA ProposalContinues ==
  ASSUME ReviewInv, NEW r \in Reviewers, view[r].step = "proposing",
         NEW from, from = view[r].seen.status
  PROVE  Continues(view[r].contract, Proposal(view[r]), from, view[r].layer)
<1> DEFINE v == view[r]
           new == Proposal(v)
<1>1. /\ v.contract \in Contracts /\ v.seen \in Record /\ v.layer \in Layers /\ v.evidence \in BOOLEAN
      /\ v.seen.version <= record[v.contract].version /\ v.seen.version < MaxVersion
      /\ v.seen.version = record[v.contract].version => v.seen = record[v.contract]
      /\ v.seen = Missing \/ v.seen.status \in Terminal
  BY ReviewerTypes DEF Grounded
<1>2. v.seen.version \in Nat /\ record[v.contract].version \in Nat
  BY <1>1, RecordTypes, ReviewAssumption DEF ReviewInv, Record, Missing, Version
<1>3. /\ new.version = v.seen.version + 1 /\ new.status = "proposed"
      /\ new.layer = v.layer /\ new.evidence = v.evidence
      /\ new \in [version : Version, status : Status, layer : Layers, evidence : BOOLEAN]
  BY <1>1, <1>2, ReviewAssumption DEF Proposal, Version, Status
<1>4. from # "approved"
  BY <1>1 DEF Missing, Terminal
<1> HIDE DEF new
<1>5. Continues(v.contract, new, from, v.layer)
  BY <1>1, <1>2, <1>3, <1>4 DEF Continues
<1> QED BY <1>5 DEF new

LEMMA CreateStep ==
  ASSUME ReviewInv, NEW r \in Reviewers, Create(r) PROVE ReviewInv'
<1> DEFINE v == view[r]
<1>1. v.step = "proposing" /\ v.seen = Missing /\ v.contract \in Contracts
  BY ReviewerTypes DEF Create
<1>2. CASE record[v.contract] = Missing
  <2>1. Write(v.contract, Proposal(v), "none", v.layer) /\ view' = [view EXCEPT ![r] = NoView]
    BY <1>2 DEF Create
  <2>2. Continues(v.contract, Proposal(v), "none", v.layer)
    BY <1>1, ProposalContinues DEF Missing
  <2> QED BY <1>1, <2>1, <2>2, WriterStep
<1>3. CASE record[v.contract] # Missing
  BY <1>3, NothingSeen, ViewerStep DEF Create
<1> QED BY <1>2, <1>3

LEMMA ReplaceStep ==
  ASSUME ReviewInv, NEW r \in Reviewers, Replace(r) PROVE ReviewInv'
<1> DEFINE v == view[r]
<1>1. v.step = "proposing" /\ v.contract \in Contracts
  BY ReviewerTypes DEF Replace
<1>2. CASE Current(v.contract, v.expected)
  <2>1. Write(v.contract, Proposal(v), v.seen.status, v.layer) /\ view' = [view EXCEPT ![r] = NoView]
    BY <1>2 DEF Replace
  <2>2. Continues(v.contract, Proposal(v), v.seen.status, v.layer)
    BY <1>1, ProposalContinues
  <2> QED BY <1>1, <2>1, <2>2, WriterStep
<1>3. CASE ~Current(v.contract, v.expected)
  BY <1>3, NothingSeen, ViewerStep DEF Replace
<1> QED BY <1>2, <1>3

\* A decision on a record is a record.
LEMMA Amended ==
  ASSUME NEW E, NEW rec \in [version : Version, status : Status, layer : Layers, evidence : E],
         NEW version \in Version, NEW status \in Status, NEW evidence \in E
  PROVE  LET new == [rec EXCEPT !.version = version, !.status = status, !.evidence = evidence] IN
           /\ new \in [version : Version, status : Status, layer : Layers, evidence : E]
           /\ new.version = version /\ new.status = status /\ new.layer = rec.layer
  OBVIOUS

LEMMA DecideStep ==
  ASSUME ReviewInv, NEW r \in Reviewers, NEW from, NEW to \in Status, NEW evidence \in BOOLEAN,
         Decide(r, from, to, evidence),
         to \in {"approved", "rejected"} => from = "proposed",
         from = "approved" => to = "superseded"
  PROVE  ReviewInv'
<1> DEFINE v == view[r]
           c == v.contract
           new == [record[c] EXCEPT !.version = @ + 1, !.status = to, !.evidence = evidence]
<1>1. /\ c \in Contracts /\ v.seen \in Record
      /\ record[c].version = v.seen.version /\ v.seen = record[c] /\ v.seen.version > 0
      /\ record[c].status = from /\ record[c].version < MaxVersion
      /\ Write(c, new, from, v.seen.layer) /\ view' = [view EXCEPT ![r] = NoView]
  BY ReviewerTypes DEF Decide, Current, Grounded
<1>2. record[c] \in [version : Version, status : Status, layer : Layers, evidence : BOOLEAN]
  BY <1>1, RecordTypes DEF ReviewInv
<1>3. /\ new \in [version : Version, status : Status, layer : Layers, evidence : BOOLEAN]
      /\ new.version = record[c].version + 1 /\ new.status = to /\ new.layer = record[c].layer
  <2>1. record[c].version + 1 \in Version
    BY <1>1, <1>2, ReviewAssumption DEF Version
  <2> QED BY <1>2, <2>1, Amended
<1> HIDE DEF new
<1>4. Continues(c, new, from, v.seen.layer)
  <2>1. new.version <= record[c].version + 1
    BY <1>2, <1>3, ReviewAssumption DEF Version
  <2> QED BY <1>1, <1>3, <2>1 DEF Continues
<1> QED BY <1>1, <1>4, WriterStep

LEMMA ReviewStep == ReviewInv /\ ReviewNext => ReviewInv'
<1> SUFFICES ASSUME ReviewInv, ReviewNext PROVE ReviewInv'
  OBVIOUS
<1>1. PICK r \in Reviewers :
        \/ \E c \in Contracts : Look(r, c) \/ Propose(r, c)
        \/ Create(r) \/ Replace(r)
        \/ Approve(r) \/ Reject(r) \/ Supersede(r)
  BY DEF ReviewNext
<1>2. CASE Approve(r)
  BY <1>2, DecideStep DEF Approve, Status
<1>3. CASE Reject(r)
  <2>1. record[view[r].contract].evidence \in BOOLEAN
    <3>1. view[r].contract \in Contracts /\ record[view[r].contract].version # 0
      BY <1>3, ReviewerTypes DEF Reject, Decide, Current, Grounded
    <3> QED BY <3>1, RecordTypes DEF ReviewInv
  <2> QED BY <1>3, <2>1, DecideStep DEF Reject, Status
<1>4. CASE Supersede(r)
  BY <1>4, DecideStep DEF Supersede, Status
<1> QED BY <1>1, <1>2, <1>3, <1>4, LookStep, ProposeStep, CreateStep, ReplaceStep

LEMMA ReviewStart == ReviewInit => ReviewInv
<1> SUFFICES ASSUME ReviewInit PROVE ReviewInv
  OBVIOUS
<1>1. ReviewTypeOK
  BY DEF ReviewInit, ReviewTypeOK, Record, View
<1>2. AuditInv
  <2>1. \A c \in Contracts : Told(c) = {} /\ record[c].version = 0
    BY DEF ReviewInit, Told, Missing
  <2>2. {e.version : e \in {}} = 1 .. 0
    OBVIOUS
  <2> QED BY <2>1, <2>2, FS_EmptySet DEF AuditInv, AuditTellsAll, Told
<1>3. ApprovedAsSeen /\ ViewsGrounded
  BY DEF ReviewInit, ApprovedAsSeen, ViewsGrounded, Grounded, NoView
<1> QED BY <1>1, <1>2, <1>3 DEF ReviewInv

-------------------------------------------------------------------------------
(* The surface *)

\* The reviewers' steps and the reading ones, seen from what the reviewers keep.
LEMMA ReviewUnmoved == ReviewInv /\ UNCHANGED reviewVars => ReviewInv'
<1> SUFFICES ASSUME ReviewInv, UNCHANGED reviewVars PROVE ReviewInv'
  OBVIOUS
<1>1. AuditInv'
  BY DEF ReviewInv, reviewVars, AuditInv, AuditTellsAll, Told
<1>2. ViewsGrounded'
  BY DEF ReviewInv, reviewVars, ViewsGrounded, Grounded
<1> QED BY <1>1, <1>2 DEF ReviewInv, reviewVars, ReviewTypeOK, ApprovedAsSeen

LEMMA CrossTypes ==
  ASSUME CrossInv
  PROVE  /\ now \in Nat /\ Ttl \in Nat /\ now <= MaxTime /\ MaxTime \in Nat
         /\ cached.expires \in 0 .. MaxTime + Ttl /\ cached.value \in SUBSET (Contracts \cup Curated)
         /\ \A c \in Contracts : withdrawn[c] \in Nat /\ withdrawn[c] <= now
         /\ \A q \in Requests :
              /\ request[q] \in [step : {"idle", "computing", "enriching", "answered"},
                                 since : 0 .. MaxTime, at : 0 .. MaxTime,
                                 value : SUBSET (Contracts \cup Curated)]
              /\ request[q].since \in Nat /\ request[q].at \in Nat
              /\ request[q].value \in SUBSET (Contracts \cup Curated)
  BY ReadAssumption DEF CrossInv, CrossTypeOK

\* A contract that was approved is, or was withdrawn now.
LEMMA ReviewKeepsReads ==
  ASSUME CrossInv, Review PROVE CrossInv'
<1>1. ReviewInv'
  BY ReviewStep DEF CrossInv, Review
<1>2. CrossTypeOK'
  BY <1>1, CrossTypes DEF CrossInv, CrossTypeOK, Review, ReviewInv
<1>3. \A c \in Contracts :
        /\ withdrawn'[c] = withdrawn[c] \/ withdrawn'[c] = now
        /\ Approved(c) => Approved(c)' \/ withdrawn'[c] = now
  BY DEF Review, Approved
<1>4. \A c \in Contracts : withdrawn'[c] \in Nat /\ withdrawn[c] <= withdrawn'[c] /\ withdrawn'[c] <= now
  BY <1>3, CrossTypes
<1>5. UNCHANGED <<now, cached, request>>
  BY DEF Review
<1>6. \A q \in Requests : RequestGrounded(q)'
  <2> SUFFICES ASSUME NEW q \in Requests PROVE RequestGrounded(q)'
    OBVIOUS
  <2>1. RequestGrounded(q)
    BY DEF CrossInv
  <2>2. \A c \in request[q].value \ Curated : c \in Contracts
    BY CrossTypes
  <2> QED BY <1>3, <1>4, <1>5, <2>1, <2>2, CrossTypes DEF RequestGrounded, Shown
<1>7. CacheGrounded'
  <2> SUFFICES ASSUME NEW c \in cached.value \ Curated
               PROVE  Approved(c)' \/ withdrawn'[c] + Ttl >= cached.expires
    BY <1>5 DEF CacheGrounded
  <2>1. c \in Contracts /\ (Approved(c) \/ withdrawn[c] + Ttl >= cached.expires)
    BY CrossTypes DEF CrossInv, CacheGrounded
  <2>2. cached.expires <= now + Ttl
    BY DEF CrossInv
  <2> QED BY <1>3, <1>4, <2>1, <2>2, CrossTypes
<1>8. StalenessBounded'
  <2> SUFFICES ASSUME NEW q \in Requests, request[q].step = "answered",
                      NEW c \in request[q].value \ Curated
               PROVE  \/ Approved(c)'
                      \/ withdrawn'[c] >= request[q].since
                      \/ withdrawn'[c] + Ttl > request[q].at
    BY <1>5 DEF StalenessBounded
  <2>1. c \in Contracts /\ request[q].since <= now
    BY CrossTypes DEF CrossInv, RequestGrounded
  <2>2. Approved(c) \/ withdrawn[c] >= request[q].since \/ withdrawn[c] + Ttl > request[q].at
    BY DEF CrossInv, StalenessBounded
  <2> QED BY <1>3, <1>4, <2>1, <2>2, CrossTypes
<1> QED BY <1>1, <1>2, <1>4, <1>5, <1>6, <1>7, <1>8 DEF CrossInv

\* One request moves on while the reviewers, the clock and the withdrawals stay.
LEMMA RequestMoves ==
  ASSUME CrossInv, NEW q \in Requests,
         NEW m \in [step : {"idle", "computing", "enriching", "answered"},
                    since : 0 .. MaxTime, at : 0 .. MaxTime,
                    value : SUBSET (Contracts \cup Curated)],
         m.since <= now,
         m.step = "enriching" => Shown(m.value, m.since),
         m.step = "answered" =>
           \A c \in m.value \ Curated :
             Approved(c) \/ withdrawn[c] >= m.since \/ withdrawn[c] + Ttl > m.at,
         request' = [request EXCEPT ![q] = m],
         UNCHANGED <<reviewVars, now, withdrawn>>,
         cached' \in [expires : 0 .. MaxTime + Ttl, value : SUBSET (Contracts \cup Curated)],
         cached'.expires <= now + Ttl, CacheGrounded'
  PROVE  CrossInv'
<1>1. \A p \in Requests : request'[p] = IF p = q THEN m ELSE request[p]
  BY DEF CrossInv, CrossTypeOK
<1>2. ReviewInv'
  BY ReviewUnmoved DEF CrossInv
<1>3. CrossTypeOK'
  BY <1>2 DEF CrossInv, CrossTypeOK, ReviewInv
<1>4. \A c : Approved(c)' <=> Approved(c)
  BY DEF Approved, reviewVars
<1>5. \A p \in Requests : RequestGrounded(p)'
  BY <1>1, <1>4 DEF CrossInv, RequestGrounded, Shown
<1>6. StalenessBounded'
  BY <1>1, <1>4 DEF CrossInv, StalenessBounded
<1> QED BY <1>2, <1>3, <1>5, <1>6 DEF CrossInv

LEMMA CacheStays ==
  ASSUME CrossInv, UNCHANGED <<reviewVars, cached, withdrawn>>
  PROVE  /\ CacheGrounded' /\ cached'.expires <= now + Ttl
         /\ cached' \in [expires : 0 .. MaxTime + Ttl, value : SUBSET (Contracts \cup Curated)]
  BY DEF CrossInv, CrossTypeOK, CacheGrounded, Approved, reviewVars

LEMMA HitStep ==
  ASSUME CrossInv, NEW q \in Requests, Hit(q) PROVE CrossInv'
<1> DEFINE m == [step |-> "answered", since |-> now, at |-> now, value |-> cached.value]
<1>1. m \in [step : {"idle", "computing", "enriching", "answered"}, since : 0 .. MaxTime,
             at : 0 .. MaxTime, value : SUBSET (Contracts \cup Curated)]
  BY CrossTypes
<1>2. \A c \in cached.value \ Curated : Approved(c) \/ withdrawn[c] + Ttl > now
  <2> SUFFICES ASSUME NEW c \in cached.value \ Curated PROVE Approved(c) \/ withdrawn[c] + Ttl > now
    OBVIOUS
  <2>1. c \in Contracts /\ (Approved(c) \/ withdrawn[c] + Ttl >= cached.expires)
    BY CrossTypes DEF CrossInv, CacheGrounded
  <2>2. cached.expires > now
    BY DEF Hit, Fresh
  <2> QED BY <2>1, <2>2, CrossTypes
<1>3. request' = [request EXCEPT ![q] = m]
  BY DEF Hit, Answer
<1>4. m.since <= now /\ m.step = "answered" /\ m.value = cached.value /\ m.at = now
  BY CrossTypes
<1> HIDE DEF m
<1> QED BY <1>1, <1>2, <1>3, <1>4, CacheStays, RequestMoves DEF Hit

LEMMA MissStep ==
  ASSUME CrossInv, NEW q \in Requests, Miss(q) PROVE CrossInv'
<1> DEFINE m == [Idle EXCEPT !.step = "computing", !.since = now]
<1>1. m \in [step : {"idle", "computing", "enriching", "answered"}, since : 0 .. MaxTime,
             at : 0 .. MaxTime, value : SUBSET (Contracts \cup Curated)]
  <2>1. Idle \in [step : {"idle", "computing", "enriching", "answered"}, since : 0 .. MaxTime,
                  at : 0 .. MaxTime, value : SUBSET (Contracts \cup Curated)]
    BY CrossTypes DEF Idle
  <2>2. now \in 0 .. MaxTime
    BY CrossTypes
  <2> QED BY <2>1, <2>2
<1>2. m.since <= now /\ m.step = "computing"
  BY CrossTypes DEF Idle
<1> HIDE DEF m
<1>3. request' = [request EXCEPT ![q] = m]
  BY DEF Miss, m
<1> QED BY <1>1, <1>2, <1>3, CacheStays, RequestMoves DEF Miss

LEMMA ReadStep ==
  ASSUME CrossInv, NEW q \in Requests, Read(q) PROVE CrossInv'
<1>1. PICK durable \in {{c \in Contracts : Approved(c)}, {}} :
        request' = [request EXCEPT ![q].step = "enriching", ![q].value = Curated \cup durable]
  BY DEF Read
<1> DEFINE m == [request[q] EXCEPT !.step = "enriching", !.value = Curated \cup durable]
<1>2. m \in [step : {"idle", "computing", "enriching", "answered"}, since : 0 .. MaxTime,
             at : 0 .. MaxTime, value : SUBSET (Contracts \cup Curated)]
  BY CrossTypes
<1>3. m.since <= now /\ m.step = "enriching" /\ Shown(m.value, m.since)
  <2>1. m.since = request[q].since /\ m.step = "enriching" /\ m.value = Curated \cup durable
    BY CrossTypes
  <2>2. request[q].since <= now
    BY DEF CrossInv, RequestGrounded
  <2> QED BY <2>1, <2>2 DEF Shown
<1> HIDE DEF m
<1>4. request' = [request EXCEPT ![q] = m]
  BY <1>1 DEF m, CrossInv, CrossTypeOK
<1> QED BY <1>2, <1>3, <1>4, CacheStays, RequestMoves DEF Read

LEMMA FillStep ==
  ASSUME CrossInv, NEW q \in Requests, Fill(q) PROVE CrossInv'
<1> DEFINE m == [step |-> "answered", since |-> request[q].since, at |-> now, value |-> request[q].value]
<1>1. m \in [step : {"idle", "computing", "enriching", "answered"}, since : 0 .. MaxTime,
             at : 0 .. MaxTime, value : SUBSET (Contracts \cup Curated)]
  BY CrossTypes
<1>2. request[q].since <= now /\ Shown(request[q].value, request[q].since)
  BY DEF CrossInv, RequestGrounded, Fill
<1>3. /\ m.since <= now /\ m.step = "answered"
      /\ m.value = request[q].value /\ m.since = request[q].since
  BY <1>2
<1>4. request' = [request EXCEPT ![q] = m]
  BY DEF Fill, Answer
<1>5. /\ cached' = [expires |-> request[q].since + Ttl, value |-> request[q].value]
      /\ UNCHANGED <<reviewVars, now, withdrawn>>
  BY DEF Fill, Expiry
<1>6. cached' \in [expires : 0 .. MaxTime + Ttl, value : SUBSET (Contracts \cup Curated)]
  BY <1>2, <1>5, CrossTypes
<1>7. CacheGrounded' /\ cached'.expires <= now + Ttl
  <2>1. \A c \in request[q].value \ Curated :
          c \in Contracts /\ (Approved(c)' \/ withdrawn[c] >= request[q].since)
    BY <1>2, <1>5, CrossTypes DEF Shown, Approved, reviewVars
  <2>2. cached'.value = request[q].value /\ cached'.expires = request[q].since + Ttl
    BY <1>5
  <2> QED BY <1>2, <1>5, <2>1, <2>2, CrossTypes DEF CacheGrounded
<1> HIDE DEF m
<1> QED BY <1>1, <1>2, <1>3, <1>4, <1>5, <1>6, <1>7, RequestMoves DEF Shown

LEMMA ForgetStep ==
  ASSUME CrossInv, NEW q \in Requests, Forget(q) PROVE CrossInv'
<1>1. Idle \in [step : {"idle", "computing", "enriching", "answered"}, since : 0 .. MaxTime,
                at : 0 .. MaxTime, value : SUBSET (Contracts \cup Curated)]
  BY CrossTypes DEF Idle
<1>2. Idle.since <= now /\ Idle.step = "idle"
  BY CrossTypes DEF Idle
<1> QED BY <1>1, <1>2, CacheStays, RequestMoves DEF Forget

LEMMA TickStep ==
  ASSUME CrossInv, Tick PROVE CrossInv'
<1>1. UNCHANGED <<reviewVars, cached, request, withdrawn>> /\ now' = now + 1 /\ now < MaxTime
  BY DEF Tick
<1>2. ReviewInv'
  BY <1>1, ReviewUnmoved DEF CrossInv
<1>3. CrossTypeOK'
  BY <1>1, <1>2, ReadAssumption DEF CrossInv, CrossTypeOK, ReviewInv
<1>4. \A c : Approved(c)' <=> Approved(c)
  BY <1>1 DEF Approved, reviewVars
<1>5. CacheGrounded' /\ StalenessBounded'
  BY <1>1, <1>4 DEF CrossInv, CacheGrounded, StalenessBounded
<1>6. \A q \in Requests : RequestGrounded(q)'
  BY <1>1, <1>4, CrossTypes DEF CrossInv, RequestGrounded, Shown
<1> QED BY <1>1, <1>2, <1>3, <1>5, <1>6, CrossTypes DEF CrossInv

LEMMA CrossInvariant == CrossSpec => []CrossInv
<1>1. CrossInit => CrossInv
  <2> SUFFICES ASSUME CrossInit PROVE CrossInv
    OBVIOUS
  <2>1. ReviewInv
    BY ReviewStart DEF CrossInit
  <2> QED BY <2>1, ReadAssumption
          DEF CrossInit, CrossInv, CrossTypeOK, ReviewInv, Idle, RequestGrounded, CacheGrounded,
              StalenessBounded
<1>2. CrossInv /\ [CrossNext]_crossVars => CrossInv'
  <2> SUFFICES ASSUME CrossInv, [CrossNext]_crossVars PROVE CrossInv'
    OBVIOUS
  <2>1. ASSUME NEW q \in Requests, Hit(q) \/ Miss(q) \/ Read(q) \/ Fill(q) \/ Forget(q)
        PROVE  CrossInv'
    BY <2>1, HitStep, MissStep, ReadStep, FillStep, ForgetStep
  <2>2. CASE UNCHANGED crossVars
    <3>1. UNCHANGED <<reviewVars, now, cached, request, withdrawn>>
      BY <2>2 DEF crossVars, readVars
    <3>2. ReviewInv'
      BY <3>1, ReviewUnmoved DEF CrossInv
    <3>3. \A c : Approved(c)' <=> Approved(c)
      BY <3>1 DEF Approved, reviewVars
    <3> QED BY <3>1, <3>2, <3>3 DEF CrossInv, CrossTypeOK, ReviewInv, RequestGrounded, Shown,
                                   CacheGrounded, StalenessBounded
  <2> QED BY <2>1, <2>2, ReviewKeepsReads, TickStep DEF CrossNext
<1> QED BY <1>1, <1>2, PTL DEF CrossSpec

\* Records, events, views, cache and requests keep their types.
THEOREM SurfaceTypes == CrossSpec => []CrossTypeOK
<1>1. CrossInv => CrossTypeOK
  BY DEF CrossInv
<1> QED BY <1>1, CrossInvariant, PTL

\* However reviewers' readings, proposals and decisions interleave, the audit of a
\* contract has one event per version, each beginning where the one before ended, and
\* the last one tells the record.
THEOREM AuditIsComplete == CrossSpec => []AuditTellsAll
<1>1. CrossInv => AuditTellsAll
  BY DEF CrossInv, ReviewInv, AuditInv
<1> QED BY <1>1, CrossInvariant, PTL

\* Nobody approves or rejects a classification other than the one looked at, which was
\* undecided, and an approval ends only by a decision that looked at it.
THEOREM ApprovalIsInformed == CrossSpec => []ApprovedAsSeen
<1>1. CrossInv => ApprovedAsSeen
  BY DEF CrossInv, ReviewInv
<1> QED BY <1>1, CrossInvariant, PTL

\* A withdrawn classification is shown for less than one time to live to requests that
\* came after, in whatever order overlapping computations fill the cache.
THEOREM WithdrawalIsSeen == CrossSpec => []StalenessBounded
<1>1. CrossInv => StalenessBounded
  BY DEF CrossInv
<1> QED BY <1>1, CrossInvariant, PTL
===============================================================================
