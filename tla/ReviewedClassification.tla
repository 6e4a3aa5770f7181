------------------------ MODULE ReviewedClassification ------------------------
(***************************************************************************)
(* The reviewed memory of contracts                                        *)
(* (services/rhChainReviewedClassificationService.ts over its PostgreSQL   *)
(* store, migration 20260719_002): reviewers propose, approve, reject and  *)
(* supersede the classification of a contract, and every change appends an *)
(* audit event.                                                            *)
(*                                                                         *)
(* A decision is one transaction under the row's lock, guarded by the      *)
(* version its reviewer names.  A proposal reads the record first and      *)
(* writes what it built from that reading in a later transaction, guarded  *)
(* by a version that comes from the request, not from the reading.         *)
(*                                                                         *)
(* The three undecided states ('proposed', 'source_required' and           *)
(* 'under_review') are one state here: every test treats them alike.       *)
(***************************************************************************)
EXTENDS Naturals, FiniteSets

CONSTANTS
  Contracts,
  Layers,       \* what a proposal can claim of a contract
  Reviewers,
  MaxVersion    \* bound on the versions of a record

ASSUME ReviewAssumption == MaxVersion \in Nat

Version == 1 .. MaxVersion
Status == {"proposed", "approved", "rejected", "superseded"}
Terminal == {"rejected", "superseded"}

Missing == [version |-> 0, status |-> "none", layer |-> "none", evidence |-> FALSE]
Record ==
  [version : Version, status : Status, layer : Layers, evidence : BOOLEAN] \cup {Missing}

\* "saw" is the layer of the record the reviewer had looked at when deciding.
Event == [contract : Contracts, version : Version, from : Status \cup {"none"}, to : Status,
          layer : Layers, saw : Layers]

VARIABLES
  record,   \* rh_chain_reviewed_classifications
  audit,    \* rh_chain_reviewed_classification_audit
  view      \* what each reviewer last read, and the proposal in flight

reviewVars == <<record, audit, view>>

NoView == [step |-> "none"]
View ==
  {NoView}
    \cup [step : {"looked"}, contract : Contracts, seen : Record]
    \cup [step : {"proposing"}, contract : Contracts, seen : Record, expected : Version,
          layer : Layers, evidence : BOOLEAN]

ReviewTypeOK ==
  /\ record \in [Contracts -> Record]
  /\ audit \subseteq Event
  /\ view \in [Reviewers -> View]

ReviewInit ==
  /\ record = [c \in Contracts |-> Missing]
  /\ audit = {}
  /\ view = [r \in Reviewers |-> NoView]

Approved(c) == record[c].status = "approved"

\* Variant: the audit table without its unique (chain, contract, classification_version).
NeverAudited(c, version) == FALSE
Audited(c, version) == \E e \in audit : e.contract = c /\ e.version = version

\* The transaction of create() and mutate(): replace the record and append its event; a
\* second event for a version violates the unique constraint and rolls both back.
Write(c, new, from, saw) ==
  IF Audited(c, new.version)
  THEN UNCHANGED <<record, audit>>
  ELSE /\ record' = [record EXCEPT ![c] = new]
       /\ audit' = audit \cup {[contract |-> c, version |-> new.version, from |-> from,
                                to |-> new.status, layer |-> new.layer, saw |-> saw]}

\* GET of one record, by a reviewer who is not waiting for a proposal.
Look(r, c) ==
  /\ view[r].step # "proposing"
  /\ record[c].version > 0
  /\ view' = [view EXCEPT ![r] = [step |-> "looked", contract |-> c, seen |-> record[c]]]
  /\ UNCHANGED <<record, audit>>

\* Variant: a record can be proposed again whatever its status.
Ended(status) == status # "none"
Reproposable(status) == status \in Terminal

\* propose() up to its write: the record is read here.
Propose(r, c) ==
  /\ view[r].step # "proposing"
  /\ record[c] = Missing \/ Reproposable(record[c].status)
  /\ record[c].version < MaxVersion
  /\ \E expected \in Version, layer \in Layers, evidence \in BOOLEAN :
       view' = [view EXCEPT ![r] = [step |-> "proposing", contract |-> c, seen |-> record[c],
                                    expected |-> expected, layer |-> layer,
                                    evidence |-> evidence]]
  /\ UNCHANGED <<record, audit>>

Proposal(v) == [version |-> v.seen.version + 1, status |-> "proposed",
                layer |-> v.layer, evidence |-> v.evidence]

\* The reading found no record: insert one; the primary key refuses a second.
Create(r) ==
  LET v == view[r] IN
    /\ v.step = "proposing" /\ v.seen = Missing
    /\ IF record[v.contract] = Missing
       THEN Write(v.contract, Proposal(v), "none", v.layer)
       ELSE UNCHANGED <<record, audit>>
    /\ view' = [view EXCEPT ![r] = NoView]

\* Variant: the version named by the caller is not compared.
AnyVersion(c, version) == record[c].version > 0
Current(c, version) == record[c].version = version

\* The reading found one: mutate() it if it has the version the request expects.
Replace(r) ==
  LET v == view[r] IN
    /\ v.step = "proposing" /\ v.seen # Missing
    /\ IF Current(v.contract, v.expected)
       THEN Write(v.contract, Proposal(v), v.seen.status, v.layer)
       ELSE UNCHANGED <<record, audit>>
    /\ view' = [view EXCEPT ![r] = NoView]

\* mutate() for a decision: the row is locked, its version compared with the one the
\* reviewer looked at and its status with those the transition allows.
Decide(r, from, to, evidence) ==
  LET v == view[r]
      c == v.contract
  IN  /\ v.step = "looked"
      /\ Current(c, v.seen.version)
      /\ record[c].status = from
      /\ record[c].version < MaxVersion
      /\ Write(c, [record[c] EXCEPT !.version = @ + 1, !.status = to, !.evidence = evidence],
               from, v.seen.layer)
      /\ view' = [view EXCEPT ![r] = NoView]

\* approve(): evidence of the proposal or of the approval is required.
Approve(r) == Decide(r, "proposed", "approved", TRUE)
Reject(r) ==
  /\ view[r].step = "looked"
  /\ Decide(r, "proposed", "rejected", record[view[r].contract].evidence)
Supersede(r) == Decide(r, "approved", "superseded", TRUE)

ReviewNext ==
  \E r \in Reviewers :
    \/ \E c \in Contracts : Look(r, c) \/ Propose(r, c)
    \/ Create(r) \/ Replace(r)
    \/ Approve(r) \/ Reject(r) \/ Supersede(r)

ReviewSpec == ReviewInit /\ [][ReviewNext]_reviewVars

-----------------------------------------------------------------------------
\* The audit of a contract is the whole story of its record: one event per version, each
\* starting from the state the event before it left, the last one giving the record.
AuditTellsAll ==
  \A c \in Contracts :
    LET told == {e \in audit : e.contract = c} IN
      /\ {e.version : e \in told} = 1 .. record[c].version
      /\ Cardinality(told) = record[c].version
      /\ \A e \in told :
           /\ e.version = 1 => e.from = "none"
           /\ e.version > 1 => \E d \in told : d.version = e.version - 1 /\ d.to = e.from
           /\ e.version = record[c].version => e.to = record[c].status /\ e.layer = record[c].layer

\* What is approved is what the reviewer looked at, was undecided until then, and
\* is given up only by a decision that looked at the approval.
ApprovedAsSeen ==
  \A e \in audit :
    /\ e.to \in {"approved", "rejected"} => e.from = "proposed"
    /\ e.from = "approved" => e.to = "superseded"
    /\ e.saw = e.layer
===============================================================================
